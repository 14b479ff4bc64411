-------------------------- MODULE StatusProperties --------------------------
(* What the status promises its reader, and what its documentation says.   *)
EXTENDS StatusConditions

TypeOK ==
    /\ jobs \in [Names -> Job \cup {Nil}]
    /\ failed \subseteq {n \in Names : Exists(n) /\ jobs[n].completed}
    /\ spec \in Specs
    /\ clock \in FirstTime .. MaxTime
    /\ conditions \in [Types -> {"True", "False", "Unknown", "None"}]
    /\ summary \in [active : SUBSET Names, isRunning : BOOLEAN \cup {Nil},
                   lastScheduledStartTime : Int \cup {Nil}]
    /\ history \in Seq(Action) /\ Len(history) <= HistoryEntriesToKeep
    /\ changed \in {Nil} \cup SUBSET {"conditions", "summary", "history"}
    /\ last \in {"world", "none", "decision", "delete", "create", "unsuspend"}
    /\ calm \in BOOLEAN
    /\ edits \in 0 .. MaxEdits
    /\ faults \in 0 .. MaxFaults

Stored == changed # Nil
InSchedule == \E st \in {State} : ~st.error /\ st.shouldBeRunning
AlarmIsOn == conditions["NotRunningUnexpectedly"] = "True"
NoLeftovers == \A n \in ExpiredJobs(State, jobs) : jobs[n].deleting

(***************************************************************************)
(* Once the operator has nothing left to do inside the schedule, the alarm *)
(* NotRunningUnexpectedly is off when a Job may be running, and on when    *)
(* there is none, or none that has not failed: also when the operator has  *)
(* given up (the starting deadline, the webhook), and whatever the status  *)
(* said before (setJobConditions, calculateOverallConditions).  An expired *)
(* Job that nobody has deleted yet may be the one that is reported.        *)
(***************************************************************************)
AlarmIsRight ==
    calm /\ Stored /\ last \in {"none", "decision"} /\ InSchedule /\ ~spec.suspend =>
        /\ AlarmIsOn /\ NoLeftovers =>
              \A n \in Names : Exists(n) => jobs[n].completed \/ jobs[n].deleting
        /\ (\A n \in Names : Exists(n) => n \in failed) => AlarmIsOn

(***************************************************************************)
(* What kubectl shows of the Jobs is so once nothing is left to do, also   *)
(* after failures: active are the Jobs that may be running, those being    *)
(* deleted among them included, and isRunning is TRUE while one of them is *)
(* to stay (makeDecision, its deferred isRunning).                         *)
(***************************************************************************)
RunningIsTold ==
    calm /\ Stored /\ last = "none" /\ ~spec.suspend =>
        /\ summary.active = {n \in Names : Exists(n) /\ ~jobs[n].completed}
        /\ (\E n \in summary.active : ~jobs[n].deleting) => summary.isRunning = TRUE

\* Two or more Jobs of a suspended ControlledJob are still there.
LeavesTogether == spec.suspend /\ \E m, n \in Names : m # n /\ Exists(m) /\ Exists(n)

(***************************************************************************)
(* The operator does not wake itself for ever: when nothing has changed    *)
(* since the last Reconcile, and no call fails, storing the status changes *)
(* no condition, no transition time, none of the fields beside them and no *)
(* entry of the history, so no event re-queues the object, which is what   *)
(* reconcile.go:191-193 wants to avoid.  There is one exception, and it is *)
(* in the history only: under suspension the Jobs that are being deleted   *)
(* already are deleted again (decision.go:75), and as an entry is compared *)
(* with its neighbour alone (action_history.go:24), each of several adds   *)
(* entries again.                                                          *)
(***************************************************************************)
StatusSettles ==
    [][ /\ calm /\ Stored /\ last' = last /\ last \in {"none", "decision"} /\ changed' # Nil
        /\ Reconcile \/ ReconcileInVain
        => changed' = {} \/ (changed' = {"history"} /\ LeavesTogether) ]_vars

(***************************************************************************)
(* A Reconcile that starts or unsuspends a Job stores it as the newest     *)
(* entry, with its own time: neither the order of the calls nor the limit  *)
(* hides it.  It adds none in one case, when the newest entry of before is *)
(* of the same kind and Job: a Job deleted by its user and started again   *)
(* under its name (README.md:17) is taken for a repetition, and the time   *)
(* of its first start stands (addActionHistoryEntryImpl, isSameAction).    *)
(***************************************************************************)
StartsAreTold ==
    [][ \A n \in Names :
          /\ jobs'[n] # Nil /\ ~jobs'[n].suspended
          /\ jobs[n] = Nil \/ jobs[n].suspended
          /\ changed' # Nil
          /\ Reconcile
          => \E start \in {newAction(IF jobs[n] = Nil THEN "JobStarted" ELSE "JobUnsuspended", n)} :
                \/ history' # <<>> /\ Head(history') = start
                \/ Repeats(history, start) /\ history' = history ]_vars

-----------------------------------------------------------------------------
(***************************************************************************)
(* reconcile.go:86: "If we get an error during the run, then try to record *)
(* it": the history that is stored begins with the failure.                *)
(***************************************************************************)
DocFailureIsRecorded ==
    [][ (Reconcile \/ ReconcileInVain) /\ changed' # Nil /\ last' # "none"
        => history' # <<>> /\ Head(history').type = "Failed" ]_vars
=============================================================================
