------------------------------ MODULE AgentRun ------------------------------
(***************************************************************************)
(* The agent of crates/pa-agent: its two message queues, the run slot, the *)
(* turn loop and the tool calls of a turn (src/agent.rs, src/agent_loop/). *)
(*                                                                         *)
(* One run at a time occupies the slot.  The loop of that run, the tasks   *)
(* of its tool calls and their update emitters, the callers of prompt and  *)
(* continue_run, and the user who steers, clears, resets and aborts all    *)
(* interleave.  A stream, a tool and a hook may take for ever to answer;   *)
(* the loop waits for each of them in a race with the abort signal.  A     *)
(* step of the loop that delivers an event is one action: the state is     *)
(* reduced under the shared lock and the listeners are awaited there.      *)
(***************************************************************************)
EXTENDS Naturals, Sequences, FiniteSets, SequencesExt

CONSTANTS
  Msgs,         \* user messages; each is sent at most once
  Callers,      \* tasks that call prompt or continue_run
  NoCaller,     \* the run slot is free
  SteerModes,   \* the modes of the steering queue in use, of "one" and "all"
  FollowModes,  \* the modes of the follow-up queue in use
  Serial,       \* the tool execution modes in use: TRUE is Sequential
  ListenersFail,\* a listener may return an error
  MaxEdits,     \* bound: append_messages, reset, clear and remove calls
  MaxTurns,     \* bound: assistant messages over all runs
  MaxCalls      \* bound: tool calls of one assistant message

ASSUME CallerAssumption == NoCaller \notin Callers
ASSUME BoundAssumption == {MaxEdits, MaxTurns, MaxCalls} \subseteq Nat
ASSUME ModeAssumption ==
  /\ SteerModes \cup FollowModes \subseteq {"one", "all"}
  /\ Serial \subseteq BOOLEAN /\ ListenersFail \in BOOLEAN

VARIABLES
  queue,       \* queue.steer and queue.follow: PendingMessageQueue
  mode,        \* their QueueMode
  sent,        \* history: what came in by each queue and by prompt, in order
  transcript,  \* Shared.state.messages
  phase,       \* where each caller is
  hand,        \* messages a caller has taken and not yet handed to a run
  skip,        \* skip_initial_steering_poll of a caller's run
  owner,       \* the caller whose run holds the slot
  aborted,     \* that run's abort signal
  ends,        \* history: AgentEnd events of the current run
  failed,      \* history: a listener failed in the current run
  edits,       \* history: calls counted against MaxEdits
  edited,      \* history: somebody else changed the transcript during the run
  base,        \* history: the value of turn when the run began
  pc,          \* where the loop is
  pending,     \* pending_messages of the loop (the prompts, at first)
  context,     \* current_context.messages of the loop
  more,        \* has_more_tool_calls
  turn,        \* assistant messages so far
  serial,      \* the batch at hand is executed sequentially
  calls,       \* the state of every tool call
  update       \* calls with an update in their emitter's channel

userVars == <<queue, mode, sent, edits>>
callerVars == <<phase, hand, skip>>
slotVars == <<owner, aborted, base>>
histVars == <<ends, failed, edited>>
loopVars == <<pc, pending, context, more, turn, serial>>
toolVars == <<calls, update>>
dataVars == <<pending, context, more, turn, serial>>
outerVars == <<userVars, callerVars, slotVars>>
runVars == <<slotVars, histVars, loopVars, toolVars>>
vars == <<userVars, transcript, callerVars, slotVars, histVars, loopVars, toolVars>>

Queues == {"steer", "follow"}

Modes(q) == IF q = "steer" THEN SteerModes ELSE FollowModes

Sources == Queues \cup {"prompt"}

\* Rows of the transcript.
User(m) == [kind |-> "user", id |-> m]
Note == [kind |-> "note"]
Continuation == [kind |-> "custom"]
Assistant(t, n) == [kind |-> "assistant", turn |-> t, calls |-> n]
Failure == Assistant(0, 0)
Result(k) == [kind |-> "result", call |-> k]

Call == (1..MaxTurns) \X (1..MaxCalls)

Rows ==
  {User(m) : m \in Msgs} \cup {Note, Continuation, Failure}
    \cup {Assistant(t, n) : t \in 1..MaxTurns, n \in 0..MaxCalls}
    \cup {Result(k) : k \in Call}

UserRows(ms) == [i \in DOMAIN ms |-> User(ms[i])]

CallStates == {"none", "preparing", "refused", "running", "executed", "broken",
               "ended", "answered"}

Steps == {"off", "start", "prompts", "turn", "deliver", "streaming", "tools", "turnEnd",
          "stopHook", "steerPoll", "followPoll", "continuation", "agentEnd", "fail", "finish"}

TypeOK ==
  /\ queue \in [Queues -> Seq(Msgs)]
  /\ \A q \in Queues : mode[q] \in Modes(q)
  /\ edits \in 0..MaxEdits
  /\ sent \in [Sources -> Seq(Msgs)]
  /\ transcript \in Seq(Rows)
  /\ phase \in [Callers -> {"idle", "continuing", "admitted", "running"}]
  /\ hand \in [Callers -> Seq(Msgs)]
  /\ skip \in [Callers -> BOOLEAN]
  /\ owner \in Callers \cup {NoCaller}
  /\ aborted \in BOOLEAN
  /\ ends \in 0..2
  /\ failed \in BOOLEAN
  /\ edited \in BOOLEAN
  /\ base \in 0..turn
  /\ pc \in Steps
  /\ pending \in Seq(Rows)
  /\ context \in Seq(Rows)
  /\ more \in BOOLEAN
  /\ turn \in 0..MaxTurns
  /\ serial \in BOOLEAN
  /\ calls \in [Call -> CallStates]
  /\ update \subseteq Call

Init ==
  /\ queue = [q \in Queues |-> <<>>]
  /\ mode \in [Queues -> {"one", "all"}] /\ \A q \in Queues : mode[q] \in Modes(q)
  /\ edits = 0
  /\ sent = [x \in Sources |-> <<>>]
  /\ transcript = <<>>
  /\ phase = [c \in Callers |-> "idle"]
  /\ hand = [c \in Callers |-> <<>>]
  /\ skip = [c \in Callers |-> FALSE]
  /\ owner = NoCaller
  /\ aborted = FALSE
  /\ ends = 0
  /\ failed = FALSE
  /\ edited = FALSE
  /\ base = 0
  /\ pc = "off"
  /\ pending = <<>>
  /\ context = <<>>
  /\ more = FALSE
  /\ turn = 0
  /\ serial = FALSE
  /\ calls = [k \in Call |-> "none"]
  /\ update = {}

-----------------------------------------------------------------------------
(* Helpers *)

\* Mutant: the drained batch is cloned and not removed.
Take_KeepsHead(q) ==
  IF mode[q] = "all" \/ queue[q] = <<>>
    THEN [got |-> queue[q], left |-> <<>>]
    ELSE [got |-> <<Head(queue[q])>>, left |-> queue[q]]

\* Mutant: the newest batch goes first.
Take_Newest(q) ==
  IF mode[q] = "all" \/ queue[q] = <<>>
    THEN [got |-> queue[q], left |-> <<>>]
    ELSE [got |-> <<Last(queue[q])>>, left |-> Front(queue[q])]

\* PendingMessageQueue::drain: everything, or the oldest batch.
Take(q) ==
  IF mode[q] = "all" \/ queue[q] = <<>>
    THEN [got |-> queue[q], left |-> <<>>]
    ELSE [got |-> <<Head(queue[q])>>, left |-> Tail(queue[q])]

Drain(q) == queue' = [queue EXCEPT ![q] = Take(q).left] /\ UNCHANGED <<mode, sent, edits>>

\* A message nobody has sent yet is sent through x.
Send(x, m) ==
  /\ \A y \in Sources : m \notin ToSet(sent[y])
  /\ sent' = [sent EXCEPT ![x] = Append(@, m)]

\* The loop goes on to a step without emitting anything.
Goto(step) == pc' = step /\ UNCHANGED histVars

\* An emission ends in the error of a listener, and so does the run.
ListenerError ==
  ListenersFail /\ pc' = "fail" /\ failed' = TRUE /\ UNCHANGED <<ends, edited>>

\* The loop emits and goes on, or fails with its listener.
Emit(step) == Goto(step) \/ ListenerError

LastKind == IF transcript = <<>> THEN "none" ELSE Last(transcript).kind

\* The tool calls of the assistant message at hand.
Batch == {<<turn, i>> : i \in 1..Last(context).calls}

Earlier(k) == {<<k[1], i>> : i \in 1..(k[2] - 1)}

Mark(k, state) == calls' = [calls EXCEPT ![k] = state]

-----------------------------------------------------------------------------
(* The user *)

\* Agent::steer and Agent::follow_up.
Enqueue(q, m) ==
  /\ Send(q, m)
  /\ queue' = [queue EXCEPT ![q] = Append(@, m)]
  /\ UNCHANGED <<mode, edits, transcript, callerVars, runVars>>

\* A call that takes something away or writes behind the loop's back (bound).
Edit == edits < MaxEdits /\ edits' = edits + 1

\* clear_steering_queue and clear_follow_up_queue.
ClearQueue(q) ==
  /\ Edit
  /\ queue[q] # <<>>
  /\ queue' = [queue EXCEPT ![q] = <<>>]
  /\ UNCHANGED <<mode, sent, transcript, callerVars, runVars>>

\* remove_queued_messages takes out what a predicate picks: here one message,
\* which is queued in one place (NeverTwice); to take several is to repeat this.
RemoveQueued(q, i) ==
  /\ Edit
  /\ queue' = [queue EXCEPT ![q] = RemoveAt(@, i)]
  /\ UNCHANGED <<mode, sent, transcript, callerVars, runVars>>

\* set_steering_mode and set_follow_up_mode.
SetMode(q, v) ==
  /\ mode[q] # v
  /\ mode' = [mode EXCEPT ![q] = v]
  /\ UNCHANGED <<queue, sent, edits, transcript, callerVars, runVars>>

\* Agent::abort reaches the run in the slot, if there is one.
Abort ==
  /\ owner # NoCaller
  /\ ~aborted
  /\ aborted' = TRUE
  /\ UNCHANGED <<userVars, transcript, callerVars, owner, base, histVars, loopVars,
                 toolVars>>

\* append_messages.
AppendMessages ==
  /\ Edit
  /\ transcript' = Append(transcript, Note)
  /\ edited' = TRUE
  /\ UNCHANGED <<queue, mode, sent, callerVars, slotVars, ends, failed, loopVars, toolVars>>

\* Agent::reset.
Reset ==
  /\ Edit
  /\ transcript # <<>> \/ \E q \in Queues : queue[q] # <<>>
  /\ transcript' = <<>>
  /\ queue' = [q \in Queues |-> <<>>]
  /\ edited' = TRUE
  /\ UNCHANGED <<mode, sent, callerVars, slotVars, ends, failed, loopVars, toolVars>>

-----------------------------------------------------------------------------
(* prompt, continue_run and the run slot *)

\* Agent::prompt and prompt_until_accepted: the slot is looked at before the
\* run registers; a busy agent refuses and nothing is taken.
Prompt(c, m) ==
  /\ phase[c] = "idle"
  /\ owner = NoCaller
  /\ Send("prompt", m)
  /\ phase' = [phase EXCEPT ![c] = "admitted"]
  /\ hand' = [hand EXCEPT ![c] = <<m>>]
  /\ skip' = [skip EXCEPT ![c] = FALSE]
  /\ UNCHANGED <<queue, mode, edits, transcript, runVars>>

\* continue_run's look at the slot.
Continue(c) ==
  /\ phase[c] = "idle"
  /\ owner = NoCaller
  /\ phase' = [phase EXCEPT ![c] = "continuing"]
  /\ UNCHANGED <<userVars, transcript, hand, skip, runVars>>

\* Where run_queued_messages finds something, steering first.
QueuedFrom == IF queue["steer"] # <<>> THEN "steer" ELSE "follow"

\* Mutant: the run of a drained steering batch polls for another at once.
SkipsPoll_Never(q) == FALSE

\* run_prompt_messages(queued_steering, true), (queued_follow_ups, false).
SkipsPoll(q) == q = "steer"

\* run_queued_messages takes a batch out of a queue before there is a run.
TakeQueued(c) ==
  /\ phase[c] = "continuing"
  /\ LastKind \in {"none", "assistant", "custom"}
  /\ queue[QueuedFrom] # <<>>
  /\ Drain(QueuedFrom)
  /\ hand' = [hand EXCEPT ![c] = Take(QueuedFrom).got]
  /\ skip' = [skip EXCEPT ![c] = SkipsPoll(QueuedFrom)]
  /\ phase' = [phase EXCEPT ![c] = "admitted"]
  /\ UNCHANGED <<transcript, runVars>>

\* Nothing is queued: NothingToContinue, or a run from the last row.
ContinueBare(c) ==
  /\ phase[c] = "continuing"
  /\ LastKind \in {"none", "assistant", "custom"} => queue[QueuedFrom] = <<>>
  /\ phase' = [phase EXCEPT ![c] =
                 IF LastKind \in {"none", "assistant"} THEN "idle" ELSE "admitted"]
  /\ skip' = [skip EXCEPT ![c] = FALSE]
  /\ UNCHANGED <<userVars, transcript, hand, runVars>>

\* run_with_lifecycle: the second look at the slot decides.
Register(c) ==
  /\ phase[c] = "admitted"
  /\ owner = NoCaller
  /\ owner' = c
  /\ aborted' = FALSE
  /\ base' = turn
  /\ ends' = 0
  /\ failed' = FALSE
  /\ UNCHANGED edited
  /\ pc' = "start"
  /\ pending' = UserRows(hand[c])
  /\ phase' = [phase EXCEPT ![c] = "running"]
  /\ hand' = [hand EXCEPT ![c] = <<>>]
  /\ UNCHANGED <<userVars, transcript, skip, context, more, turn, serial, toolVars>>

\* The loser of the slot: "Agent is already processing."  Its messages go
\* nowhere, whether they came from a prompt or out of a queue.
Refused(c) ==
  /\ phase[c] = "admitted"
  /\ owner # NoCaller
  /\ phase' = [phase EXCEPT ![c] = "idle"]
  /\ hand' = [hand EXCEPT ![c] = <<>>]
  /\ UNCHANGED <<userVars, transcript, skip, runVars>>

-----------------------------------------------------------------------------
(* The loop of a run: prompts, turns and polls *)

\* run_agent_loop and run_agent_loop_continue: the context is the transcript
\* of this moment and all the prompts.  A continuation, which has none, is
\* refused by an empty transcript and by one that ends in an assistant message.
Begin ==
  /\ pc = "start"
  /\ IF pending = <<>> /\ LastKind \in {"none", "assistant"}
       THEN pc' = "fail" /\ UNCHANGED <<context, histVars>>
       ELSE /\ context' = transcript \o pending
            /\ edited' = FALSE
            /\ UNCHANGED ends
            /\ \/ pc' = "prompts" /\ UNCHANGED failed
               \/ ListenersFail /\ pc' = "fail" /\ failed' = TRUE
  /\ UNCHANGED <<outerVars, transcript, pending, more, turn, serial, toolVars>>

\* MessageStart and MessageEnd of a prompt: process_events records it.
EmitPrompt ==
  /\ pc = "prompts"
  /\ pending # <<>>
  /\ transcript' = Append(transcript, Head(pending))
  /\ pending' = Tail(pending)
  /\ Emit("prompts")
  /\ UNCHANGED <<outerVars, context, more, turn, serial, toolVars>>

\* The steering poll before the first turn.
FirstPoll ==
  /\ pc = "prompts"
  /\ pending = <<>>
  /\ IF aborted \/ skip[owner]
       THEN UNCHANGED <<userVars, pending>>
       ELSE Drain("steer") /\ pending' = UserRows(Take("steer").got)
  /\ skip' = [skip EXCEPT ![owner] = FALSE]
  /\ more' = TRUE
  /\ Goto("turn")
  /\ UNCHANGED <<transcript, phase, hand, slotVars, context, turn, serial, toolVars>>

\* The top of the inner loop: an aborted run throws, with what it has polled.
\* TurnStart of the first turn was emitted before the prompts.
Turn ==
  /\ pc = "turn"
  /\ \/ aborted /\ Goto("fail")
     \/ ~aborted /\ Goto("deliver")
     \/ ~aborted /\ turn # base /\ ListenerError
  /\ UNCHANGED <<outerVars, transcript, dataVars, toolVars>>

\* Mutant: the delivered message is recorded and not shown to the model.
Shown_Not(row) == context

\* current_context.messages.push
Shown(row) == Append(context, row)

\* A polled message becomes part of the turn.
Deliver ==
  /\ pc = "deliver"
  /\ pending # <<>>
  /\ transcript' = Append(transcript, Head(pending))
  /\ pending' = Tail(pending)
  /\ \/ context' = Shown(Head(pending)) /\ Goto("deliver")
     \/ UNCHANGED context /\ ListenerError
  /\ UNCHANGED <<outerVars, more, turn, serial, toolVars>>

-----------------------------------------------------------------------------
(* The response of the model *)

\* The request goes out with the context.
Request ==
  /\ pc = "deliver"
  /\ pending = <<>>
  /\ ~aborted
  /\ Goto("streaming")
  /\ UNCHANGED <<outerVars, transcript, dataVars, toolVars>>

\* An assistant message is final: it is in both lists, whatever the listeners do.
Respond(row, step) ==
  /\ context' = Append(context, row)
  /\ transcript' = Append(transcript, row)
  /\ Emit(step)
  /\ UNCHANGED <<outerVars, pending, toolVars>>

\* The stream is done: n tool calls are to be executed one way or the other.
StreamDone(n) ==
  /\ pc = "streaming"
  /\ turn < MaxTurns
  /\ turn' = turn + 1
  /\ more' = FALSE
  /\ \/ n = 0 /\ Respond(Assistant(turn + 1, 0), "turnEnd") /\ UNCHANGED serial
     \/ n > 0 /\ Respond(Assistant(turn + 1, n), "tools") /\ serial' \in Serial

\* Mutant: the AgentEnd of a failed response does not return from run_loop.
StreamError_FallsThrough ==
  /\ pc = "streaming"
  /\ ends' = ends + 1
  /\ pc' = "agentEnd"
  /\ transcript' = Append(transcript, Failure)
  /\ context' = Append(context, Failure)
  /\ UNCHANGED <<outerVars, failed, edited, pending, more, turn, serial, toolVars>>

\* The stream ends with stop reason Error, which ends the run.
StreamError ==
  /\ pc = "streaming"
  /\ Respond(Failure, "agentEnd")
  /\ UNCHANGED <<more, turn, serial>>

\* The stream function itself returns an error.
StreamFails ==
  /\ pc = "streaming"
  /\ Goto("fail")
  /\ UNCHANGED <<outerVars, transcript, dataVars, toolVars>>

\* The abort wins the race, or comes before the request: an aborted message
\* stands for the response and ends the run.
StreamAborted ==
  /\ aborted
  /\ pc = "streaming" \/ (pc = "deliver" /\ pending = <<>>)
  /\ Respond(Failure, "agentEnd")
  /\ UNCHANGED <<more, turn, serial>>

-----------------------------------------------------------------------------
(* Tool calls *)

\* A task that a failed run left behind keeps the signal of that run, of which
\* no more is known here: it may or may not have been aborted.
Detached(k) == k[1] <= base

\* ToolExecutionStart.  A sequential batch waits for the result of each call
\* and stops at an abort; a parallel one only waits for the preparation.
ToolStart(k) ==
  /\ pc = "tools"
  /\ k \in Batch
  /\ calls[k] = "none"
  /\ IF serial
       THEN ~aborted /\ \A j \in Earlier(k) : calls[j] = "answered"
       ELSE \A j \in Earlier(k) : calls[j] \notin {"none", "preparing", "refused"}
  /\ \/ Mark(k, "preparing") /\ Goto("tools")
     \/ UNCHANGED calls /\ ListenerError
  /\ UNCHANGED <<outerVars, transcript, dataVars, update>>

\* prepare_tool_call: the call is prepared and executed, or an unknown tool,
\* bad arguments or the before hook make an immediate error of it.
ToolPrepared(k) ==
  /\ pc = "tools"
  /\ calls[k] = "preparing"
  /\ Mark(k, "running") \/ Mark(k, "refused")
  /\ UNCHANGED <<outerVars, transcript, histVars, loopVars, update>>

\* The abort wins against the before hook.
PrepareAborted(k) ==
  /\ pc = "tools"
  /\ aborted
  /\ calls[k] = "preparing"
  /\ Mark(k, "refused")
  /\ UNCHANGED <<outerVars, transcript, histVars, loopVars, update>>

\* The tool calls on_update, accepted until it has returned or is aborted.
ToolUpdate(k) ==
  /\ calls[k] = "running"
  /\ ~aborted \/ Detached(k)
  /\ update' = update \cup {k}
  /\ UNCHANGED <<outerVars, transcript, histVars, loopVars, calls>>

\* The emitter task hands what is in its channel to process_events.
EmitUpdate(k) ==
  /\ k \in update
  /\ update' = update \ {k}
  /\ UNCHANGED <<outerVars, transcript, histVars, loopVars, calls>>

\* The tool returns, well or not.
ToolReturns(k) ==
  /\ calls[k] = "running"
  /\ Mark(k, "executed")
  /\ UNCHANGED <<outerVars, transcript, histVars, loopVars, update>>

\* Mutant: the tool is awaited without the race.
ToolAborted_Awaited(k) ==
  /\ aborted
  /\ calls[k] = "running"
  /\ UNCHANGED vars

\* The abort wins against the tool: "Tool execution aborted".
ToolAborted(k) ==
  /\ aborted
  /\ calls[k] = "running"
  /\ Mark(k, "executed")
  /\ UNCHANGED <<outerVars, transcript, histVars, loopVars, update>>

\* The updates are out, unless the run is aborted; after_tool_call has
\* answered; ToolExecutionEnd is emitted by the task, whose error the loop
\* finds when it joins it.
ToolEnds(k) ==
  /\ calls[k] = "executed"
  /\ k \notin update \/ aborted \/ Detached(k)
  /\ Mark(k, "ended") \/ (ListenersFail /\ Mark(k, "broken"))
  /\ UNCHANGED <<outerVars, transcript, histVars, loopVars, update>>

\* ToolExecutionEnd of an immediate error is emitted by the loop.
RefusedEnds(k) ==
  /\ pc = "tools"
  /\ calls[k] = "refused"
  /\ \/ Mark(k, "ended") /\ Goto("tools")
     \/ UNCHANGED calls /\ ListenerError
  /\ UNCHANGED <<outerVars, transcript, dataVars, update>>

\* Nothing is joined before every call of a parallel batch has started.
Joining == serial \/ \A k \in Batch : calls[k] \notin {"none", "preparing", "refused"}

\* The loop joins the tasks in source order and fails with the first error;
\* the tasks behind it run on.
JoinFails ==
  /\ pc = "tools"
  /\ Joining
  /\ \E k \in Batch :
       calls[k] = "broken" /\ \A j \in Earlier(k) : calls[j] \in {"ended", "answered"}
  /\ ListenerError
  /\ UNCHANGED <<outerVars, transcript, dataVars, toolVars>>

\* Mutant: the result of a parallel call is recorded as soon as it is there.
Answerable_Unordered(k) == calls[k] = "ended"

\* A sequential call is answered when it has ended, a parallel one after all
\* the batch has, in source order.
Answerable(k) ==
  /\ calls[k] = "ended"
  /\ ~serial => /\ \A j \in Batch : calls[j] \in {"ended", "answered"}
                /\ \A j \in Earlier(k) : calls[j] = "answered"

\* emit_tool_result_message: process_events records the result.
Answer(k) ==
  /\ pc = "tools"
  /\ k \in Batch
  /\ Answerable(k)
  /\ transcript' = Append(transcript, Result(k))
  /\ Mark(k, "answered")
  /\ Emit("tools")
  /\ UNCHANGED <<outerVars, dataVars, update>>

\* The results of a batch, in source order.
Results ==
  [i \in 1..Cardinality({k \in Batch : calls[k] = "answered"}) |-> Result(<<turn, i>>)]

\* The batch is over.  It terminates the run only when it has results and all
\* of them say so.
ToolsDone ==
  /\ pc = "tools"
  /\ \/ \A k \in Batch : calls[k] = "answered"
     \/ serial /\ aborted /\ \A k \in Batch : calls[k] \in {"none", "answered"}
  /\ context' = context \o Results
  /\ more' \in (IF Results = <<>> THEN {TRUE} ELSE BOOLEAN)
  /\ Goto("turnEnd")
  /\ UNCHANGED <<outerVars, transcript, pending, turn, serial, toolVars>>

-----------------------------------------------------------------------------
(* After a turn *)

TurnEnd ==
  /\ pc = "turnEnd"
  /\ Emit(IF aborted THEN "agentEnd" ELSE "stopHook")
  /\ UNCHANGED <<outerVars, transcript, dataVars, toolVars>>

\* should_stop_after_turn answers or fails; then should_stop_before_turn.
StopHook ==
  /\ pc = "stopHook"
  /\ \E step \in {"agentEnd", "fail", "steerPoll"} : Goto(step)
  /\ UNCHANGED <<outerVars, transcript, dataVars, toolVars>>

StopHookAborted ==
  /\ pc = "stopHook"
  /\ aborted
  /\ Goto("agentEnd")
  /\ UNCHANGED <<outerVars, transcript, dataVars, toolVars>>

\* Mutant: should_stop_before_turn is obeyed whatever was drained.
MayStopBefore_Always(rows) == TRUE

\* `pending_messages.is_empty() && should_stop_before_turn!()`
MayStopBefore(rows) == rows = <<>>

\* The steering poll.  Steering that was drained owns the turn boundary: only
\* without any does should_stop_before_turn (or the abort) end the run here.
SteerPoll ==
  /\ pc = "steerPoll"
  /\ IF aborted
       THEN pending' = <<>> /\ UNCHANGED userVars
       ELSE Drain("steer") /\ pending' = UserRows(Take("steer").got)
  /\ \/ Goto(IF more \/ pending' # <<>> THEN "turn" ELSE "followPoll")
     \/ MayStopBefore(pending') /\ Goto("agentEnd")
  /\ UNCHANGED <<transcript, callerVars, slotVars, context, more, turn, serial,
                 toolVars>>

\* The follow-up poll, made only when the agent would otherwise stop.
FollowPoll ==
  /\ pc = "followPoll"
  /\ \/ /\ ~aborted
        /\ queue["follow"] # <<>>
        /\ Drain("follow")
        /\ pending' = UserRows(Take("follow").got)
        /\ more' = TRUE
        /\ Goto("turn")
     \/ /\ aborted \/ queue["follow"] = <<>>
        /\ Goto("continuation")
        /\ UNCHANGED <<userVars, pending, more>>
     \/ Goto("agentEnd") /\ UNCHANGED <<userVars, pending, more>>
  /\ UNCHANGED <<transcript, callerVars, slotVars, context, turn, serial, toolVars>>

\* get_continuation_messages has messages, has none, or fails; or
\* should_stop_before_turn comes first.
ContinuationHook ==
  /\ pc = "continuation"
  /\ \/ pending' = <<Continuation>> /\ more' = TRUE /\ Goto("turn")
     \/ \E step \in {"agentEnd", "fail"} : Goto(step) /\ UNCHANGED <<pending, more>>
  /\ UNCHANGED <<outerVars, transcript, context, turn, serial, toolVars>>

ContinuationAborted ==
  /\ pc = "continuation"
  /\ aborted
  /\ Goto("agentEnd")
  /\ UNCHANGED <<outerVars, transcript, dataVars, toolVars>>

AgentEnd ==
  /\ pc = "agentEnd"
  /\ ends' = ends + 1
  /\ \/ pc' = "finish" /\ UNCHANGED failed
     \/ ListenersFail /\ pc' = "fail" /\ failed' = TRUE
  /\ UNCHANGED <<outerVars, transcript, edited, dataVars, toolVars>>

\* handle_run_failure: a failure message and its own AgentEnd, the errors of
\* the listeners swallowed.  What the loop had polled is gone with its stack.
RunFails ==
  /\ pc = "fail"
  /\ transcript' = Append(transcript, Failure)
  /\ ends' = ends + 1
  /\ pc' = "finish"
  /\ pending' = <<>>
  /\ UNCHANGED <<outerVars, failed, edited, context, more, turn, serial, toolVars>>

\* finishRun: the slot is free.
Finish ==
  /\ pc = "finish"
  /\ owner' = NoCaller
  /\ phase' = [phase EXCEPT ![owner] = "idle"]
  /\ Goto("off")
  /\ pending' = <<>>
  /\ context' = <<>>
  /\ UNCHANGED <<userVars, transcript, hand, skip, aborted, base, more, turn, serial,
                 toolVars>>

-----------------------------------------------------------------------------

\* Steps of the loop that wait for nobody but the scheduler.
LoopStep ==
  \/ Begin \/ EmitPrompt \/ FirstPoll \/ Turn \/ Deliver \/ Request \/ StreamAborted
  \/ \E k \in Call : ToolStart(k) \/ PrepareAborted(k) \/ RefusedEnds(k) \/ Answer(k)
  \/ JoinFails \/ ToolsDone \/ TurnEnd \/ StopHookAborted \/ SteerPoll \/ FollowPoll
  \/ ContinuationAborted \/ AgentEnd \/ RunFails \/ Finish

\* Answers of streams, hooks and tools, which may never come.
Answers ==
  \/ \E n \in 0..MaxCalls : StreamDone(n)
  \/ StreamError \/ StreamFails \/ StopHook \/ ContinuationHook
  \/ \E k \in Call : ToolPrepared(k) \/ ToolUpdate(k) \/ ToolReturns(k)

\* The task of a tool call.
TaskStep(k) == ToolAborted(k) \/ ToolEnds(k)

UserStep ==
  \/ \E q \in Queues, m \in Msgs : Enqueue(q, m)
  \/ \E q \in Queues : ClearQueue(q)
  \/ \E q \in Queues : \E i \in DOMAIN queue[q] : RemoveQueued(q, i)
  \/ \E q \in Queues : \E v \in Modes(q) : SetMode(q, v)
  \/ Abort \/ AppendMessages \/ Reset

CallerStep(c) == TakeQueued(c) \/ ContinueBare(c) \/ Register(c) \/ Refused(c)

Next ==
  \/ LoopStep
  \/ Answers
  \/ \E k \in Call : TaskStep(k) \/ EmitUpdate(k)
  \/ UserStep
  \/ \E c \in Callers : Continue(c) \/ CallerStep(c) \/ \E m \in Msgs : Prompt(c, m)

Spec == Init /\ [][Next]_vars

\* The loop, the callers and, once the run is aborted, its tool calls are
\* scheduled.  Nothing is promised of streams, hooks, tools and the user.
FairSpec ==
  /\ Spec
  /\ WF_vars(LoopStep)
  /\ \A c \in Callers : WF_vars(CallerStep(c))
  /\ \A k \in Call : WF_vars(aborted /\ TaskStep(k))

-----------------------------------------------------------------------------
(* Properties *)

\* Drains, polls, prompts and failures hand a message on: it is never in two
\* places at once, and never in the transcript twice.
NeverTwice ==
  /\ \A i, j \in DOMAIN transcript :
       transcript[i].kind = "user" /\ transcript[i] = transcript[j] => i = j
  /\ \A m \in Msgs :
       Cardinality({q \in Queues : m \in ToSet(queue[q])})
         + Cardinality({c \in Callers : m \in ToSet(hand[c])})
         + (IF User(m) \in ToSet(pending) THEN 1 ELSE 0)
         + (IF User(m) \in ToSet(transcript) THEN 1 ELSE 0) <= 1

\* What has left a queue or a caller for a run, or is on its way there.
Taken == {m \in Msgs : \/ \E c \in Callers : m \in ToSet(hand[c])
                       \/ User(m) \in ToSet(pending)}

\* A message a run has taken from a queue or a caller reaches the transcript
\* however the run ends, unless it was aborted or a listener failed.  (The
\* caller that loses the slot keeps nothing either: Refused.)
NothingTakenIsDropped ==
  [][\A m \in Taken :
       \/ m \in Taken' \/ User(m) \in ToSet(transcript')
       \/ aborted \/ failed'
       \/ owner # NoCaller /\ \E c \in Callers : m \in ToSet(hand[c])]_vars

\* The model is asked about exactly what the user sees: when a request goes
\* out, the loop's own copy of the conversation is the transcript, unless
\* somebody else changed that during the run.
ContextIsTranscript == pc = "streaming" /\ ~edited => context = transcript

\* No request leaves with a tool call of this run unanswered, and the results
\* are recorded behind their message in source order, whatever order the tools
\* ended in (execute_tool_calls_parallel, tools.rs:225-254), unless somebody else
\* changed the transcript during the run.
CallsAnswered ==
  pc = "streaming" /\ ~edited =>
    \A i \in 1..Len(transcript) :
      LET row == transcript[i]
      IN row.kind = "assistant" /\ row # Failure /\ row.turn > base =>
           SubSeq(transcript, i + 1, i + row.calls)
             = [j \in 1..row.calls |-> Result(<<row.turn, j>>)]

\* Whatever way a run ends it delivers AgentEnd once (twice only when a
\* listener failed on the first).
OneAgentEnd == pc = "finish" => ends = 1 \/ (failed /\ ends = 2)

\* Steering reaches the transcript in the order it was sent, and so do
\* follow-ups, through polls, aborts, failures and continue_run.
QueuesInOrder ==
  \A q \in Queues : \A i, j \in DOMAIN transcript : \A a, b \in DOMAIN sent[q] :
    transcript[i] = User(sent[q][a]) /\ transcript[j] = User(sent[q][b]) =>
      (i < j <=> a < b)

\* In one-at-a-time mode no turn starts with two steering messages: a run made
\* of a drained one does not poll for the next before its first response.
OneSteerPerTurn ==
  SteerModes = {"one"} =>
    \A i \in 1..(Len(transcript) - 1) :
      ~ {transcript[i], transcript[i + 1]} \subseteq ToSet(UserRows(sent["steer"]))

\* An abort ends the run though the stream, the hooks and the tools never
\* answer.
AbortEnds == \A c \in Callers : (owner = c /\ aborted) ~> (owner # c)

\* "Last event of a run" (types.rs:533): listeners hear nothing of a run after
\* its AgentEnd.
AgentEndIsLast ==
  [][\A k \in update : k \notin update' =>
       owner = NoCaller \/ (k[1] > base /\ ends = 0)]_vars

=============================================================================
