---------------------------- MODULE MCTurnQueue ----------------------------
(* Small instances of TurnQueue. *)
EXTENDS TurnQueue

CONSTANTS i1, i2, o1, o2

Source(c, l) == [cmd |-> c, lane |-> l]
Plain == Source("prompt", "none")
Steer == Source("queue", "steering")
FollowUp == Source("queue", "followUp")
Message == Source("message", "steering")
Continuation == Source("inject", "steering")

Load(is, os, ss, cs) == [inputs |-> is, slots |-> os, sources |-> ss, commands |-> cs]

\* Two inputs against one command after another, in every mixture of prompts
\* and rows; one input, or two prompts, against two commands at a time.
Withdrawals == Load({i1, i2}, {o1}, {Plain, FollowUp}, {"abort", "delete", "cancel"})
Orders == Load({i1, i2}, {o1}, {Steer, Message, Continuation}, {"abort_send"})
Races == Load({i1}, {o1, o2}, {Plain, Source("prompt", "steering")},
              {"cancel", "clear", "abort", "abort_send"})
Gates == Load({i1}, {o1, o2}, {FollowUp},
              {"compact", "abort_clear", "pause", "relane", "resume"})
Closes == Load({i1}, {o1, o2}, {Plain}, {"shutdown", "kill", "compact", "wait"})

Moves == Load({i1, i2}, {o1}, {Steer, Source("inject", "followUp")}, {"relane"})

AllLoads == {Withdrawals, Orders, Moves, Races, Gates, Closes}

\* Instances for one claim each.
PlainAgainst(is, cmd) == {Load(is, {o1}, {Plain}, {cmd})}
OneCancel == PlainAgainst({i1}, "cancel")
TwoCancels == PlainAgainst({i1, i2}, "cancel")
OneWait == PlainAgainst({i1}, "wait")
OneAbort == PlainAgainst({i1}, "abort")
OneKill == PlainAgainst({i1}, "kill")
Compacts == {Load({i1}, {o1, o2}, {Steer}, {"compact"})}

=============================================================================
