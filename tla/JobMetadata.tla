---------------------------- MODULE JobMetadata ----------------------------
(***************************************************************************)
(* pkg/metadata and pkg/job: what the operator reads from the name, the    *)
(* annotations, the spec and the status of a Job, and the Jobs it builds   *)
(* from a ControlledJob's template.                                        *)
(***************************************************************************)
EXTENDS GoValues, Sequences

CONSTANT Hashes   \* hashes of the job templates

(***************************************************************************)
(* A Job.  start and runId are the scheduled-at and job-run-id             *)
(* annotations, hash the template hash annotation (Nil: no annotation or   *)
(* not readable), userStop the suspend-reason annotation "user-stop",      *)
(* deleting the deletion timestamp, completed a Complete or Failed         *)
(* condition that is True.                                                 *)
(***************************************************************************)
Job == [start : Int \cup {Nil}, runId : Nat \cup {Nil}, hash : Hashes \cup {Nil},
        manual : BOOLEAN, suspended : BOOLEAN, userStop : BOOLEAN,
        deleting : BOOLEAN, completed : BOOLEAN]

ASSUME NilIsNoJob == Nil \notin Job

IsJobCompleted(job) == job.completed
IsJobPotentiallyRunning(job) == ~IsJobCompleted(job)
WasJobStoppedByTheUser(job) == job.suspended /\ job.userStop

-----------------------------------------------------------------------------
(***************************************************************************)
(* A name is [controlled job]-[unix time of the start]-[run id]; names of  *)
(* one ControlledJob differ in the pair <<start, run id>> only.            *)
(***************************************************************************)
JobName(start, runId) == <<start, runId>>

\* The decimal digits of a run id, most significant first.
Digits[n \in Nat] == IF n < 10 THEN <<n>> ELSE Append(Digits[n \div 10], n % 10)

(***************************************************************************)
(* Go compares names as strings.  Unix times of this era all have ten      *)
(* digits, so their strings compare as the numbers do; run ids do not:     *)
(* "10" comes before "9".                                                  *)
(***************************************************************************)
LexGreater(s, t) ==
    \E i \in DOMAIN s : /\ \A k \in 1 .. i - 1 : k \in DOMAIN t /\ s[k] = t[k]
                        /\ i \in DOMAIN t => s[i] > t[i]

NameGreater(m, n) ==
    \/ m[1] > n[1]
    \/ m[1] = n[1] /\ LexGreater(Digits[m[2]], Digits[n[2]])

-----------------------------------------------------------------------------
\* pkg/job/builder.go.  The template hash ignores the suspend flag.
buildJob(hash, start, runId, manual, startSuspended) ==
    [start |-> start, runId |-> runId, hash |-> hash, manual |-> manual,
     suspended |-> startSuspended, userStop |-> FALSE,
     deleting |-> FALSE, completed |-> FALSE]

BuildForControlledJob(hash, start, runId, manual, startSuspended) ==
    buildJob(hash, start, runId, manual, startSuspended)

\* The new Job keeps the scheduled start and the manual mark of the old one.
RecreateJobWithNewSpec(old, hash, runId, startSuspended) ==
    buildJob(hash, old.start, runId, old.manual, startSuspended)
=============================================================================
