----------------------------- MODULE MCOperator -----------------------------
EXTENDS OperatorProperties

\* A cycle of four ticks: start at 1, stop at 3.
MCEvents == <<[action |-> "start", valid |-> TRUE, at |-> {1}],
              [action |-> "stop",  valid |-> TRUE, at |-> {3}]>>

\* Start at 1 and stop at 2: a whole run period in three ticks.
MCShortRun == <<[action |-> "start", valid |-> TRUE, at |-> {1}],
                [action |-> "stop",  valid |-> TRUE, at |-> {2}]>>

MCSpec(suspend, hash) ==
    [suspend |-> suspend, hash |-> hash, recreate |-> TRUE, deadline |-> Nil,
     mutate |-> FALSE, timezoneValid |-> TRUE, offset |-> 0, events |-> MCEvents]

MCNames == {<<1, 0>>, <<1, 1>>, <<1, 2>>}
MCHashes == {"a", "b"}
MCPlain == {MCSpec(FALSE, h) : h \in MCHashes}

MCSmallNames == {<<1, 0>>, <<1, 1>>}
MCSinglePlain == {MCSpec(FALSE, "a")}
MCSingleShort == {[MCSpec(FALSE, "a") EXCEPT !.events = MCShortRun]}
MCPlainOrSuspended == MCPlain \cup {MCSpec(TRUE, "a")}

\* Jobs go through the mutating webhook.
MCMutated == {[MCSpec(FALSE, "a") EXCEPT !.mutate = TRUE]}
MCPlainOrMutated == {MCSpec(FALSE, "a"), [MCSpec(FALSE, "b") EXCEPT !.mutate = TRUE]}

\* A manual Job for the period that starts at 1, made from template a.
MCUserJobs == {[name |-> <<1, 1>>, job |-> buildJob("a", 1, 1, TRUE, TRUE)]}

\* The tenth and the eleventh run of the period that starts at 1.
MCLateNames == {<<1, 0>>, <<1, 9>>, <<1, 10>>}
MCLateUserJobs == {[name |-> <<1, i>>, job |-> buildJob("a", 1, i, TRUE, TRUE)] : i \in {9, 10}}
=============================================================================
