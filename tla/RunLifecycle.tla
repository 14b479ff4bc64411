---------------------------- MODULE RunLifecycle ----------------------------
(***************************************************************************)
(* What the operator promises its users about the runs of one              *)
(* ControlledJob, with nothing of how it does it: no cache, no queue, no   *)
(* decision and no failure.  A Job has one phase, one Job changes its      *)
(* phase at a time, and of the steps only Run looks at the other Jobs.     *)
(***************************************************************************)
CONSTANT Jobs   \* the names Jobs may have

VARIABLE phase  \* of each Job: does it exist, may it have pods, has it ended

Phases == {"none", "waiting", "stopped", "running", "ended"}

Init == phase = [n \in Jobs |-> "none"]

Becomes(n, p) == phase' = [phase EXCEPT ![n] = p]

\* A Job appears, suspended.
Arrive(n) == phase[n] = "none" /\ (Becomes(n, "waiting") \/ Becomes(n, "stopped"))

\* It may have pods from now on, if no other Job may.  A Job that a user has
\* stopped, or that has ended, is never run.
Run(n) ==
    /\ phase[n] \in {"none", "waiting"}
    /\ \A m \in Jobs : phase[m] # "running"
    /\ Becomes(n, "running")

\* It is suspended and its pods are gone.
Rest(n) == phase[n] = "running" /\ (Becomes(n, "waiting") \/ Becomes(n, "stopped"))

Stop(n) == phase[n] = "waiting" /\ Becomes(n, "stopped")

Release(n) == phase[n] = "stopped" /\ Becomes(n, "waiting")

\* Only a Job that was running completes or fails.
End(n) == phase[n] = "running" /\ Becomes(n, "ended")

Vanish(n) == Becomes(n, "none")

Next == \E n \in Jobs : \/ Arrive(n) \/ Run(n) \/ Rest(n) \/ Stop(n)
                        \/ Release(n) \/ End(n) \/ Vanish(n)

Spec == Init /\ [][Next]_phase
=============================================================================
