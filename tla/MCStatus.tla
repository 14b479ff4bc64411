------------------------------ MODULE MCStatus ------------------------------
EXTENDS StatusProperties

\* A cycle of four ticks: start at 1, stop at 4, and 5 is the next start.  A
\* deadline of one tick is over at 3.
MCEvents == <<[action |-> "start", valid |-> TRUE, at |-> {1}],
              [action |-> "stop",  valid |-> TRUE, at |-> {0}]>>

MCSpec == [suspend |-> FALSE, hash |-> "a", recreate |-> TRUE, deadline |-> 1,
           mutate |-> FALSE, timezoneValid |-> TRUE, offset |-> 0, events |-> MCEvents]

MCHashes == {"a", "b"}
MCNames == {<<1, 0>>, <<1, 1>>, <<5, 0>>}

\* A new template, whose Jobs go through the webhook and may start late; a
\* suspended ControlledJob.
MCSpecs == {MCSpec,
            [MCSpec EXCEPT !.hash = "b", !.mutate = TRUE, !.deadline = Nil],
            [MCSpec EXCEPT !.suspend = TRUE]}

\* A manual Job of the first run period, created whenever its user likes.
MCUserJobs == {[name |-> <<1, 1>>, job |-> buildJob("a", 1, 1, TRUE, TRUE)]}
=============================================================================
