----------------------------- MODULE MCSchedule -----------------------------
(* All schedules of two valid events over a cycle of four ticks, and of    *)
(* three events of which one start fires twice in the cycle.               *)
EXTENDS ScheduleHistory

MCEvents == {e \in EventSpec : e.valid}
MCPairs == {<<e, f>> : e, f \in MCEvents}
MCTriples ==
    {<<e, f, g>> : e, f, g \in {x \in MCEvents : Cardinality(x.at) = 1}}
MCSchedules == MCPairs \cup MCTriples
MCOffsets == {0, 3}
=============================================================================
