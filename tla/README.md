# controlled-job in TLA+

A `ControlledJob` is a Kubernetes custom resource: a Job template and a weekly
schedule of start and stop events. The controlled-job operator creates one Job
when a run period starts, deletes it when the period stops, replaces it when the
template changes, and never lets two of them run at once. This directory holds a
model of the operator in TLA+, the TLC runs that check it on small instances,
and TLAPS proofs of the properties that matter most.

Paths below are relative to the repository's `src/`.

## The system

### Inventory

| Component | State | Operations | What is hard | What makes it correct |
|---|---|---|---|---|
| Schedule, `pkg/schedule` | none (pure) | `StateFor`, `findNearestEvent`, `findStartOfCurrentRunPeriod`, `cronPrev` | searches backwards through wrapping calendars and clocks that change; events that fire together or twice; the offset added and taken off again | what the search finds is what a clock would have seen, and it ends; the wake-up it asks for is the next transition |
| Job metadata and builder, `pkg/metadata`, `pkg/job` | labels and annotations of a Job | `IsJobPotentiallyRunning`, `WasJobStoppedByTheUser`, `JobName`, `BuildForControlledJob`, `RecreateJobWithNewSpec` | what counts as running or stopped; names compared as strings | no Job that may run is counted as stopped |
| Decision, `pkg/reconciliation/decision.go` | none (pure but for the webhook) | `makeDecision` | expired, surplus, out of date, completed, manual and stopped Jobs in any mixture; errors that drop half a decision | a Job is started only when no other may run; a finished run is not started again |
| Reconciler, `pkg/reconciliation/reconcile.go`, `controllers`, `pkg/clientadapter` | local variables of one call, the stored status | `Reconcile` and the calls it makes | a stale cache; users' writes between decision and call; a failing call in the middle; crashes; errors that are not retried | exclusive running; the user's stop is respected; the cluster converges |
| Status conditions, `api/v1/helpers.go`, `decision.go`, `reconcile.go` | `status.conditions` | `SetCondition`, `setJobConditions`, `calculateOverallConditions` | early returns leave old conditions in place; a condition that flips re-queues the object | the alarm says what is so; the status settles |
| Events, `pkg/events` | `status.actionHistory`, `status.mostRecentAction` | `RecordEvent` | suppression of repeats, truncation, the order of deferred calls | what was done can be read in the history |
| Mutators, `pkg/mutators` | a registry fixed at start-up | `RemoteMutator.Apply` | a remote call inside a decision that is taken for pure | a failing webhook is retried |
| CLI, `cli` | none | `generate-job` | | the Job it prints is one the operator can adopt |
| Metrics, `pkg/metrics` | a gauge that tells of the timezone | three event handlers | | nothing depends on it |
| Start-up, `main.go` | flags | `main` | restart with an empty memory | nothing is lost with the process |

How they interact: watch events of a ControlledJob and of the Jobs it owns, a
`RequeueAfter` timer and the rate limiter put the object's key into
controller-runtime's work queue. One worker takes it, reads the ControlledJob and
its Jobs from the informer cache, and calls `makeDecision`, which calls
`schedule.StateFor`, reads the Jobs' metadata, builds Jobs (through the webhook
if the ControlledJob asks for it) and sets conditions in memory. `Reconcile` then
deletes, creates and unsuspends Jobs through the API server, appends to the
history, computes the overall conditions and stores the status once. Every write
comes back later as a watch event. Beside the operator the users edit the
ControlledJob and create, stop, release and delete Jobs, and the Kubernetes job
controller and garbage collector start, finish and remove them.

`PROJECT.json` lists the components, each hazard at its line, and the properties
that cover it.

### Modules

    GoValues <- Schedule <- JobMetadata <- Decision <- Operator <- OperatorProperties <- MCOperator
                   |                          |   ^                     |      |
                   |                          |   DecisionProofs <- OperatorProofs <- LifecycleProofs
                   |                          +- StatusConditions <- StatusProperties <- MCStatus
                   +- ScheduleHistory <- MCSchedule
                   +- ScheduleProofs <- (DecisionProofs), (HistoryProofs)
                   +- (ScheduleHistory) <- HistoryProofs
                   +- (StatusProperties, DecisionProofs) <- StatusProofs <- StatusTypeProofs

    CronPrevWalk <- MCCronPrev, CronPrevProofs
    RunLifecycle <- (OperatorProperties, by INSTANCE)

(`A <- B`: B builds on A.)

* **GoValues**: `Nil`, and the optional values of Go pointers.
* **Schedule**: `pkg/schedule` over integer ticks. An event is a set of instants
  of a cycle of `Period` ticks, or of single instants; `CronPrev` and `CronNext`
  are the contracts of `cronPrev` and of the cron library's `Next`. `AdjacentTime`
  is `findNearestScheduleTime` with its offset arithmetic; `StateFor` returns the
  record `Reconcile` works with.
* **ScheduleHistory**: the reference the searches are checked against. A clock
  runs forwards and fires the events as they come; its variables say what has
  happened so far, and the properties compare that with `StateFor`.
* **CronPrevWalk**: `cron_prev.go` itself, the walk back from month to second,
  over a calendar of parameters and zones that change their offset at most once,
  with `time.Date` as the Go library defines it. One step for each way a round of
  its loops may go: `CheckYear` (the label WRAP), `Continue` (the field matches),
  `Truncate` and `Back` (cut down, one second off, on or to WRAP). Its property
  `ResultIsPrev` is the contract `CronPrev` of Schedule; `WalkRunsOut` counts the
  rounds that may be left, and says that every round leaves fewer.
* **JobMetadata**: a Job as the operator reads it (`hash`, `start`, `runId`,
  `manual`, `suspended`, `userStop`, `completed`, `deleting`), its name
  `<<start, runId>>`, the order of names as strings (`NameGreater`, digit by
  digit) and the Jobs the builder makes.
* **Decision**: `makeDecision` as a pure function from the spec's state, a list
  of Jobs, the time and the webhook's answer to a record: Jobs to delete
  (expired, surplus), the Job to create, the Job to unsuspend, the wake-up, and
  whether it fails. Each stage of the function is an operator of its own.
* **Operator**: the reconciler and its surroundings. Variables: the API server's
  `jobs`, their `pods` and `orphans`; the cached ControlledJob `spec`; the cache
  `view` and the watch events `backlog` on their way to it; `queued`, `timer`,
  `backoff` for the work queue; `pc`, `now`, `plan`, `outcome` for the local
  state of `Reconcile`; `fresh`, the Jobs whose resource version the reconcile
  still holds; `reported`, the part of the status that re-queues the object.
  Actions: `Start` and `Decide` (load and decide: both read the cache), then one
  action for each API call (`DeleteJob`, `CreateJob`, `UnsuspendJob`) and for
  each way it may be refused or fail (`WriteRefused`, `WriteFails`),
  `WritesDone`, then `UpdateStatus` or `StatusLost`, which hand the result to the
  queue (`HandleResult`). `MutatorFails`, `LoadFails` and `Restart` are the other
  faults. `Deliver`, `TimerFires`, `BackoffEnds` and `Resync` are
  controller-runtime; the rest are the users and Kubernetes. client-go's delaying
  queue has one entry for a key, with the earlier of two times: while the rate
  limiter's delay runs (`backoff`), the entry stands for it and the timer both,
  and `timer` is `Nil`; otherwise a new `RequeueAfter` counts only when it is
  earlier (`HandleResult`, `Rearmed`).
* **RunLifecycle**: what the operator promises, with nothing of how it does it: a
  Job is `none`, `waiting`, `stopped`, `running` or `ended`, one Job changes at a
  time, a Job that ended or was stopped is not run, and none is run beside another.
* **OperatorProperties**: the properties, the fairness, the inductive invariants
  (of exclusivity, of the single start, of the wake-ups), and the mapping to
  RunLifecycle: `Phase` of a Job is read off the API server's Jobs and their pods
  (`RunsFollowLifecycle == Life!Spec`). `NothingForgotten` is the safety half of
  convergence: when nothing is queued, running, backing off or on its way from the
  watch (`Asleep`), what the spec asks for at some instant that has passed is done
  as far as it can be (`Done`), and the timer is armed for the start or stop that
  follows that instant (`WakesFor`).
* **StatusConditions**, **StatusProperties**: the status. It is changed in memory
  and stored once, so `Reconcile` is one step, with every outcome its calls may
  have. Conditions are a function from types to statuses together with the set of
  types whose transition time moved; `summary` is what stands beside them
  (`active` as a set, `isRunning`, `lastScheduledStartTime`); the history is a
  bounded sequence of entries with the type of an action, its Job and its time,
  and an entry that differs from the newest one in its time at most
  (`isSameAction`) is left out. `last` and `changed` say what the last step was
  and which part of the stored status it changed, `calm` that it was a Reconcile
  that left every Job as it was. `StateAt` is `buildState` in a table.
* **ScheduleProofs**, **HistoryProofs**, **CronPrevProofs**, **DecisionProofs**,
  **OperatorProofs**, **LifecycleProofs**, **StatusProofs**, **StatusTypeProofs**:
  the proofs.
* **MCSchedule**, **MCCronPrev**, **MCOperator**, **MCStatus**: values for TLC's
  constants.

Two models of `Reconcile` stand side by side because they answer different
questions: in Operator the interleaving of single calls matters and of the status
only whether it changed; in StatusConditions the status matters, and it cannot be
seen before the end of a Reconcile.

## Model checking

Each run is one question. `Period` is 4 ticks wherever there is a schedule of
ticks: start at 1 and stop at 3 leaves an instant before the start, one inside
the period, the stop and one after it; start at 1 and stop at 2 puts a whole
period into three ticks.

| Run | Question | Bounds |
|---|---|---|
| `schedule` | does searching back find what firing forwards has seen? | all schedules of two cyclic events and all of three single firings, two offsets, 13 ticks: more than three cycles, so each search sees a wrapped cycle on both sides |
| `cron_prev` | does the walk end, at the latest firing that is not after the given instant, and does every round bring it nearer to its end? | years of three days in two months, weeks of two days, days of four hours of two minutes of two seconds; 72 schedules (days by date, by weekday and by either, one day that does not exist), six zones, 12 instants of the third year, back to the second |
| `exclusive` | does the operator implement the abstract life of a run; are users' stops, finished runs and the newest manual Job respected; do the inductive invariants behind that hold? | three names, plain and webhook templates, 2 user actions, 1 fault, watch backlog of 2, both ways of deleting, cache that keeps up |
| `disturb` | does the cluster converge, do Jobs expire, and is no work forgotten while the operator sleeps, after one fault and one action of a user? | two names, a start to a stop, 1 fault, 1 action, lagging cache |
| `edits` | does it converge, with nothing forgotten, after two edits or interventions in a row: templates, suspension, a stop and its release? | three names, three specs, 2 edits, lagging cache |
| `status` | does the status settle, on what is so, and tell what was done and when? | three names, two of one period and one of the next; three specs (two templates, the webhook, suspension, a starting deadline), history of 2 entries, 2 user actions, 1 fault, from within one run period past its stop into the next |

Why these bounds are enough for the cases in question: two Jobs are needed to
break exclusivity, a third name lets a replacement be created while the old one
is being deleted and a manual Job exists; two user actions cover a template change
followed by a deletion, a stop and its release, and two template changes in a row; one
fault between any two steps is a crash or a lost call at each point of a
reconcile; a history of two entries is full after the second action. The clock
of `status` starts inside the period, passes the starting deadline and the stop
and ends at the next start, so that the Jobs of the last run are left over beside
those of the next; a schedule that cannot be read, the unknown timezone, is left to
the proofs. A backlog
of two lets the cache miss a create and the unsuspend that follows. In the small
calendar every field wraps into every field above it: a month of one day and
one of two, weekdays that move from year to year, matches in the first, in the
last and in no unit; the instants cover two days, the last of a month and the
first of the next, so that a search crosses the turn of month and year. The zones
are UTC, one that is always an hour ahead, and changes forward and back where
the walk is right, none of them over a local midnight.

`NothingForgotten` leaves out a spec whose Jobs go through the webhook: an error
of the webhook is final, as the run `mutator` shows. It asks for nothing at an
instant at which `makeDecision` has no answer (`NoAnswer`: an unknown timezone, a
schedule that cannot be read or never stops, a start past its deadline), where
the code reports the error and waits for the user. "Late by no more than the time
since" is what the code gives: `RequeueAfter` is a delay computed from the
`now` of the start of a reconcile and counted from its end. The inductive
invariant `WakeInv` behind it is in no run, because TLC would evaluate a decision
in each state for it; it was checked with TLC on smaller bounds before its proof.

All passing runs but `schedule` set `CHECK_DEADLOCK FALSE`: with the clock at its
bound and nothing to do the operator rests, and the walk stops when it has its
answer.

The runs that end in a violation each show one disagreement between the code and
what the repository says of it. `PROJECT.json` quotes both under "findings":

| Run | What it shows |
|---|---|
| `stale_cache` | without the assumption on the cache, a reconcile that does not see its own last write starts a second Job |
| `background_delete` | a Job deleted in the background is gone before its pods are, and the next Job runs beside them |
| `mutator` | two failures of the webhook in a row are final: no Job until something else changes |
| `status_failure` | failures are put into the history after it has been stored |
| `cron_hang` | clocks put back to UTC or east of it, as in London and Berlin each autumn, make `cronPrev` loop for ever on that day |
| `late_runs` | of two manual Jobs run 9 is kept and run 10 deleted |

More disagreements came up while modelling. The model does what the code does;
they have no run of their own:

* an exceeded starting deadline also drops the deletion of expired Jobs, as the
  error replaces the whole decision (`decision.go:254`, `286`); with a deadline in
  the spec `ExpiredJobsGo` fails;
* the Job conditions, `isRunning` and `active` of a suspended ControlledJob are
  never updated, not even when its last Job is gone (`decision.go:73`,
  `controlledjob_types.go:204`, `277`);
* the conditions are those of the best of all Jobs, expired ones included: while
  one of them cannot be deleted, the alarm may be on beside a Job that runs
  (`decision.go:103`; `AlarmIsRight` excludes it by `NoLeftovers`);
* `isRunning` is true for a completed Job, which is not active, and false while
  an expired one is being deleted, which is active until it is gone
  (`decision.go:116`,
  `controlledjob_types.go:204`: "if there are any active events");
* between a stop and the next start `StartOfCurrentRunPeriod` is the coming start,
  not that of the completed period (`pkg/schedule/state.go:42-46`);
* when a start and a stop coincide and the start is listed first, the schedule
  says the job should be running in a period that begins in the future
  (`state.go:29-30`; the theorem `RunPeriodHasBegun` proves it is the only case);
* where clocks are put forward over midnight (Santiago, Nuuk) `cronPrev` may pass
  over a firing or return one that does not match, as a wrap is told by an hour
  that day does not have (`cron_prev.go:97`);
* a cron expression that is no table of fields, such as `@every 1h`, gives neither
  a schedule nor an error, as wrapping a nil error gives nil: the operator
  dereferences nil (`pkg/schedule/util.go:29-34`, whose comment says the cast
  "will always succeed in practice");
* a successful unsuspend sets `FailedToUnsuspendJob` to True (`reconcile.go:164`,
  `controlledjob_types.go:308`);
* a completed Job counts as `RunningExpectedly` (`reconcile.go:183`,
  `controlledjob_types.go:317`);
* two or more Jobs being deleted under suspension keep the operator awake until they
  are gone: each pass deletes them again and, as an entry is compared with its
  neighbour only, adds an entry for each; the status has changed, which re-queues
  the object (`decision.go:75`, `action_history.go:24`), although
  `reconcile.go:191-193` means to avoid just that. `StatusSettles` names the case
  (`LeavesTogether`);
* a Job that its user deletes to restart it, as the repository's `README.md:17`
  suggests, is created again under the same name when nothing else has happened
  since: the new start is taken for a repetition, adds no entry, and the history
  keeps the time of the first start (`action_history.go:24`, `34-43`), although
  `controlledjob_types.go:236` calls it "the time the condition was last
  observed". `StartsAreTold` names the case (`Repeats`);
* a manual Job outside the schedule that is recreated for a new template is gone
  for good when the create fails after the delete (`reconcile.go:132`), and an out
  of date one gives way to an up-to-date Job left from an edited schedule
  (`decision.go:176`).

Each property of a passing run has a mutant in `PROJECT.json`: a plausible slip
in the code (the definition is in the module, above the one it would replace)
with which the property fails under the same configuration.

### Assumptions on the surroundings

* `CacheKeepsUp`: no reconcile decides before the cache shows the operator's own
  writes. Kubernetes does not promise it, and the code does nothing to bring it
  about; the watch is usually faster than the next reconcile. Exclusivity holds
  under it and, as `stale_cache` shows, not without it. All liveness runs do
  without it.
* Jobs that users create come from `generate-job`: suspended
  (`UserJobsAreSuspended`). A Job that starts by itself would break exclusivity
  before the operator sees it.
* The API server refuses an update whose resource version is old; deletes carry
  no precondition, as in `DeleteJob` of the client adapter.
* The watch delivers events of Jobs in order and without loss. A Restart lists
  everything anew.

### Fairness

`FairSpec` gives weak fairness to: the clock (`Tick`, up to its bound), the watch
(`Deliver`), the work queue (`TimerFires`, `BackoffEnds`, `Start`), the one worker
goroutine (`Decide`, `Act`), and the Kubernetes controllers that tear down what is
marked for deletion or no longer wanted (`StopPods`, `RemoveJob`, `ReapOrphan`).
controller-runtime runs its worker as long as the process lives, timers fire, and
a watch that breaks is re-established. Nothing is promised for users, for Jobs
finishing, for pods being started, for faults, or for `Resync` (about every ten
hours): no property relies on them. Fairness of `Decide` is written
with its enabling condition spelled out, `DecideIsFair`, because TLC would
otherwise evaluate the whole decision for ENABLED in each state. `FairSpec` of
CronPrevWalk is weak fairness of its `Next`: one goroutine in a loop goes on.

## Proofs

TLAPS checks, for all values of the constants:

* **ScheduleProofs** `StateForTypes`: the wake-up lies strictly in the future,
  the last stop does not, and the start of the run period is strictly after the
  last stop. `RunPeriodHasBegun`: where starts and stops never coincide, a period
  under way has begun.
* **HistoryProofs** `StartMatches`, `StopMatches`, `LastStopMatches`,
  `WakeUpMatches`: the four properties of the run `schedule`, for every list of
  events and every length of the cycle.
* **CronPrevProofs**, in zones that keep one offset, for every calendar, cron
  expression and instant. `CronPrevIsRight`: `cronPrev` returns the latest firing
  that is not after the instant, or passes the year limit without having skipped
  one. `WalkAlwaysRunsOut`: every round of its loops leaves fewer rounds to go.
* **DecisionProofs**, for every list of Jobs. `CreatedHotOnlyWhenAlone`,
  `UnsuspendedOnlyWhenAlone`: a Job is started only if no other Job of the list
  may be running. The heart of it is that the run id of a new Job is new, so it
  cannot overwrite one in the count, and that a single potentially running Job
  must be the chosen one for the unsuspend to happen. `FirstRunBeginsPeriod`: run
  0 of a period is created only when every listed Job is of an earlier one.
  `ManualJobYieldsToGreaterName`: an up-to-date manual Job is surplus only beside
  one of a greater name. `NothingMoreToDecide`: when the decision asks for nothing,
  the list is what the schedule and the spec ask for. `NamesAreOrdered`: names,
  compared digit by digit, are totally ordered, so the best candidate does not
  depend on the random order of the cache's list.
* **OperatorProofs** `TypeCorrect`, `StopInvHolds`, `StoppedStaysStopped` (with
  any cache), `ExclusiveInvHolds` and `ExclusiveRunning` (with a cache that keeps
  up).
* **LifecycleProofs**, with a cache that keeps up. `OperatorImplementsLifecycle`:
  the operator, its users and Kubernetes implement RunLifecycle.
  `OncePerPeriodInvHolds`, `RunsOncePerPeriod`: run 0 of a period is created only
  when every Job that runs or has ended is of an earlier period. With any cache:
  `NewestManualJobAdopted`, for run ids of one digit (beyond them the code errs,
  as `late_runs` shows), and `WakeInvHolds`, `NothingIsForgotten`: the operator
  does not fall asleep over work.
* **StatusProofs** `AlarmHolds`, `RunningHolds`: whatever the specs, the Jobs and
  the failures, when nothing is left to do the alarm, `active` and `isRunning` say
  what is so.
* **StatusTypeProofs** `TypeCorrect`: the types of the status, the limit of the
  history among them. `SettlesHolds`: when nothing is left to do, storing the
  status again changes nothing, but for entries of the history about several Jobs
  that are deleted again under suspension. `StartsTold`: whatever the history held
  and whatever its limit, the entry of a start or an unsuspend, with its own time,
  is the newest of what is stored; only a start that repeats the newest entry adds
  none.

Together these are all the invariants and all the action properties of the passing
runs.

The clock and the search. HistoryProofs needs no cleverness but an exact statement
of what the variables remember: no stop lies between `lastStop` and now, and
inside a period a start fired at `periodStart`, none between the last stop and it,
and no stop since. Once two cycles have passed, the window of the search lies in
what has been seen, and the nearest of a set of instants is unique.

The walk. `t` never skips a firing (`NoneSkipped`); in the loop of a level the
fields above match (`Here`); and when the time has been cut down it is at the
start of its unit (`AtStart`), so that the second taken off leads into the unit
before. A whole unit that does not match is skipped because its instants all read
the same in the field and those above (`CutIsExact`, `AgreeMatches`), and a step
back that leaves the levels above as they are is not taken for a wrap, nor the
other way round (`BackKeeps`). `FixedZones` is the assumption that is needed:
`time.Date` is then the inverse of reading the clock.

That it ends needs a bound. `RoundsLeft` counts thirteen rounds for each second
down to the last one before the year limit, less the place in the loops: a round
either goes back, or goes on to a place further on. `WithinLimit` is the
invariant: the loops look at no second before the limit, since a level cut down
stays in its year (`CutKeepsYear`) and a step back into the year before is always
taken for a wrap (`BackKeepsYear`: the last month, the first day of a month, the
last hour, minute, second). What remains for termination is that a loop goes on,
which is the fairness of `Terminates`. Where clocks are put back east of
Greenwich `Truncate` may go forward, `RoundsLeft` grows, and the walk of
`cron_hang` is the result.

The inductive invariant of exclusivity. Exclusivity alone is not inductive: a state in which a
decision to unsuspend has been taken, and another Job has been started since,
satisfies it and breaks it in one step. The invariant adds why that cannot be:

1. `PodsHaveJobs`: only Jobs that are potentially running have pods.
2. `CacheCatchesUp`: the last event of a Job on its way tells its present state;
   without one the cache has it already. Hence a resource version read with
   nothing under way is of the present Job.
3. `UnsuspendIsDue`: if the version of the Job to unsuspend is still current,
   the Job is still suspended and not stopped by a user. This gives
   `StoppedStaysStopped`.
4. `HotIsVisible`: a Job that may run is shown by the cache, or the operator's
   own write of it is under way and no older event hides it. With `CacheKeepsUp`
   a decision therefore counts every Job that may run; others cannot start one,
   as users' Jobs are suspended.
5. `PlanIsSafe`: what is left of a decision starts at most one Job, when no other
   may run. It survives between decision and call because nobody but the
   operator makes a Job hot (`NobodyElseHeats`); a user who releases a stopped
   Job leaves it suspended.

The step lemmas go through the actions by form (`StepForms`): most of them only
cool Jobs or touch what the invariant does not mention, so each part of the
invariant has a handful of cases. `DecisionIsSafe` brings in the two theorems
about `makeDecision`.

The single start. `FinishedRunIsNotRestarted` adds three parts to the invariant
of exclusivity. `NamesTell`: a Job's start and run id are those of its name, in
the API server, the cache and the events, so a Job that is deleted and made again
under one name is of the same run. `RunIsVisible`: a Job that runs or has ended is
in the cache, or the operator's own write of it is under way. The cache may be
late with the end of a run, but not with the Job it was the run of.
`PlanRestartsNothing` carries `FirstRunBeginsPeriod` from the decision to the call.

The wake-ups. That the operator sleeps in peace is not inductive: the last step of
a reconcile puts it to sleep, and whether it does so in peace depends on what was
decided at its start. `SleepsInPeace` says that, asleep, the decision the cache now
gives at some instant that has passed asks for nothing more, and that its wake-up
is armed. `WorkIsRemembered` says that from the decision to the end of a reconcile,
unless the key has been queued again meanwhile, the decision of the
present cache at the reconcile's `now` is still the one taken, and what it asked
for is still in the plan; a write puts its event into the backlog, so that the
operator is not asleep before the event has queued the key. `WorkIsOrdered` says
that a reconcile reports success only with an empty plan. The steps that are not
the operator's either leave all of that alone or queue the key (`OthersMove`,
`WakingForms`). With an empty backlog the cache shows the Jobs as they are
(`CacheIsTrue`), and `NothingMoreToDecide` turns a decision that asks for nothing
into a statement about the cluster (`RestIsDone`).

The refinement. A step touches one Job (`OneJobAtATime`); a Job gets hot only in a
step of the operator that finds no other one hot, the Job waiting or absent
(`HeatStep`, from `PlanIsSafe` and `UnsuspendIsDue`); only a hot Job ends, and it
stays ended until it is removed (`EndsStep`). `LifeStep` reads the abstract action
off the phases before and after (`PhaseMeanings`).

The status. A Reconcile that left every Job as it was had nothing to delete, to
create or to unsuspend (`NothingLeftToDo`); then a Job that may be running and is
not being deleted is the chosen one, and the Job the conditions are taken from is
the same unless an expired one was left (`ReportedIsChosen`). That one may be left
although nothing has changed was found by this proof, when the decision fails at
the webhook. That the status settles needs more: what is stored
must be what the next Reconcile, whose decision is the same, would store. The
invariant `SettledInv` says so of either kind of decision. It holds because the
decision, the calls, the error and the verdict each set conditions of their own,
and the verdict reads none that is set after it (`FinalIsStable`); which of the
two ways a decision failed does not show in the status (`FailuresAreAlike`).
For the history the invariant is `HistoryIsStored`: recording once more what the
last Reconcile did leaves the history as it is. A Reconcile that left every Job
as it was can have deleted only Jobs that were being deleted already
(`OnlyStopsAreTold`), and outside `LeavesTogether` that is one Job at most, whose
entry is then the newest (`ToldOnce`, `ToldAgain`).

The history. The code folds over what it did and what was there; the model's
`Told` and `Digits` are recursive functions, and the library's induction theorems
take an operator as a parameter, which the provers cannot instantiate. What the
proofs need of them holds by a least counterexample instead (`LeastNatural` in
ScheduleProofs): a statement about numbers that fails for one fails for a least
one, where the recursive equation gives a contradiction.

The proofs use the constants' assumptions, each named where its constant is
declared: `NilAssumption`, `NilIsNoJob`, `NilIsNoEvent`, `NilIsNoNewJob` (Nil is
none of the values it stands beside), `PeriodAssumption`, `FlagAssumption`,
`NamesAssumption`, `SpecsAssumption`, `UserJobsAssumption`, `UserJobsAreNamed`
(users' Jobs have the names `generate-job` gives), `UserJobsAreSuspended`,
`OptionsAssumption`, `TimeAssumption`, `BoundsAssumption`, `HistoryAssumption` (the
history keeps at least one entry), `ScheduleAssumption`; for the walk
`DaysAssumption` (the days of a month follow one another), `UnitsAssumption`,
`ZonesAssumption` (offsets of whole minutes), `SchedulesAssumption`,
`InstantsAssumption`. TLC evaluates them in the runs. Hypotheses of single theorems
are `FixedZones` for the walk, `CacheKeepsUp` for exclusivity and what builds
on it, one-digit run ids for the newest manual Job.

Only model-checked: liveness (`Converges`, `ExpiredJobsGo`, `Terminates`) and what
else rests on fairness or ENABLED, which are out of the prover's reach; and the
walk in zones that change their offset, where it is right for some changes only.

## What is not modelled, and why

* In CronPrevWalk: fractions of a second, offsets that are not whole minutes
  (before standard time), more than one change of a zone within the search, and
  zones that change over midnight, where the code errs. In Schedule timezones are
  a flag, valid or not, and a cycle knows no change of the clock.
* Parsing cron expressions, which is the library's, and turning a friendly
  schedule into one (`AsCronSpec`): an event can be read or cannot. The action
  `restart` of an event, which the code calls "not yet supported"
  (`controlledjob_types.go:54`).
* `JobRunning`, the order of `status.active`, reasons and messages of conditions;
  the Kubernetes events beside the history.
* `SuspendJob`: `makeDecision` never fills `JobsToSuspend`, so the call has no
  action and `FailedToSuspendJob` no condition.
* Transition times have a resolution of a second in the code; in the model a
  flip always counts as a change, which errs on the side of more re-queueing.
* A run id that cannot be read; two operators at once (the flag `--leader-elect`
  is off by default, and the Helm chart sets it); a ControlledJob that is deleted
  (its Jobs go with it by owner reference).
* Metrics, one gauge that nothing reads; the mutators' registry, which is fixed at
  start-up, and their HTTP; TLS, flags, probes, manifests, generated code.

## Plan

Done, in this order: Schedule and its reference; JobMetadata and Decision;
Operator with safety, then liveness; the proofs of the three; StatusConditions;
RunLifecycle and the refinement with its proof; CronPrevWalk and its proof; the
order of names and its proof; the proof that searching back finds what the clock
has seen; the fields beside the conditions and the proofs of the status; the
single start of a run; the wake-ups; the types of the status and its history; the
end of the walk.

What is left, the most important first:

1. What is so after a suspension ends, and the conditions while one lasts.
2. Exclusivity beside orphans when all deletes are in the foreground.
3. That Schedule's `CronPrev` is CronPrevWalk's result: the two share no notion of
   time yet, ticks of a cycle here and seconds of a calendar there.
4. Two operators on one ControlledJob, for installations without leader election;
   the order of `status.active`; run ids that cannot be read.
5. The walk in zones that change their offset, for the cases in which it is right.
