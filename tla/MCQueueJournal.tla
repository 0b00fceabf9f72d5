--------------------------- MODULE MCQueueJournal ---------------------------
(* Small instances of QueueJournal. *)
EXTENDS QueueJournal

CONSTANTS i1, i2, i3

Load(is, cs, n, errors) == [inputs |-> is, commands |-> cs, ends |-> n, errors |-> errors]

\* Three lives of a worker without failures, with every command but snapshots;
\* a third input and one kill; snapshots too; write failures under two inputs,
\* and under one input and every command.
Restarts == Load({i1, i2}, {"clear", "abort", "shutdown"}, 2, FALSE)
Crowd == Load({i1, i2, i3}, {"clear", "shutdown"}, 1, FALSE)
Snapshots == Load({i1, i2}, AllCommands, 1, FALSE)
Failures == Load({i1, i2}, {"clear", "abort", "shutdown"}, 1, TRUE)
Alone == Load({i1}, AllCommands, 2, TRUE)

AllLoads == {Restarts, Crowd, Snapshots, Failures, Alone}

\* Instances for one claim each.
OnePrompt == {Load({i1}, {}, 0, FALSE)}
OneAbort == {Load({i1}, {"abort"}, 0, FALSE)}
OneSnapshot == {Load({i1, i2}, {"snapshot"}, 0, FALSE)}
TornWrites == {Load({i1, i2}, {}, 0, TRUE)}

=============================================================================
