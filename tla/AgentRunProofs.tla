--------------------------- MODULE AgentRunProofs ---------------------------
(***************************************************************************)
(* Theorems about the agent of AgentRun.tla, for any number of messages,   *)
(* callers, turns and tool calls: its types, the one AgentEnd of a run,    *)
(* that no message a run took is dropped, that the model sees the          *)
(* transcript, and that no request leaves with a call unanswered.          *)
(*                                                                         *)
(* All of them rest on CoreInv, which ties the step the loop is at to the  *)
(* slot, to the messages in its hands and to the state of its tool calls.  *)
(* The steps are sorted into kinds, and a lemma for each kind says what    *)
(* such a step may touch; the invariants are proved from those.            *)
(***************************************************************************)
EXTENDS AgentRun, SequenceTheorems, FiniteSetTheorems, TLAPS

USE CallerAssumption, BoundAssumption, ModeAssumption

-----------------------------------------------------------------------------
(* Rows, queues and batches *)

\* A user row is a row of its own kind and carries its message.
LEMMA UserRow ==
  /\ \A m \in Msgs : User(m) \in Rows /\ User(m).kind = "user"
  /\ \A m, n \in Msgs : User(m) = User(n) => m = n
BY DEF User, Rows

\* Of the other rows none is a user row.
LEMMA NoteRow ==
  /\ Note \in Rows /\ Note.kind = "note"
  /\ Continuation \in Rows /\ Continuation.kind = "custom"
BY DEF Note, Continuation, Rows

\* An assistant message knows its turn and its tool calls.
LEMMA AssistantRow ==
  ASSUME NEW t, NEW n
  PROVE  /\ Assistant(t, n).kind = "assistant"
         /\ Assistant(t, n).turn = t /\ Assistant(t, n).calls = n
         /\ t \in 1..MaxTurns /\ n \in 0..MaxCalls => Assistant(t, n) \in Rows
BY DEF Assistant, Rows

\* A failure is an assistant message of no turn.
LEMMA FailureRow ==
  /\ Failure \in Rows /\ Failure.kind = "assistant"
  /\ Failure.turn = 0 /\ Failure.calls = 0
BY AssistantRow DEF Failure, Rows

\* A result knows its call.
LEMMA ResultRow ==
  ASSUME NEW k
  PROVE  /\ Result(k).kind = "result" /\ Result(k).call = k
         /\ k \in Call => Result(k) \in Rows
BY DEF Result, Rows

\* Every row is of one of the five kinds.
LEMMA RowKinds ==
  ASSUME NEW r \in Rows
  PROVE  \/ \E m \in Msgs : r = User(m)
         \/ r.kind \in {"note", "custom", "result"}
         \/ /\ r.kind = "assistant" /\ r.turn \in 0..MaxTurns /\ r.calls \in 0..MaxCalls
            /\ r # Failure => r.turn # 0
BY NoteRow, AssistantRow, FailureRow, ResultRow DEF Rows

\* The prompts of a batch of messages are one row each (run_prompt_messages).
LEMMA UserRowsTyped ==
  ASSUME NEW ms \in Seq(Msgs)
  PROVE  /\ UserRows(ms) \in Seq(Rows)
         /\ Len(UserRows(ms)) = Len(ms)
         /\ \A i \in 1..Len(ms) : UserRows(ms)[i] = User(ms[i])
BY UserRow DEF UserRows

\* Appending to the second of two joined sequences appends to both.
LEMMA AppendConcat ==
  ASSUME NEW S, NEW s \in Seq(S), NEW t \in Seq(S), NEW e \in S
  PROVE  Append(s \o t, e) = s \o Append(t, e)
<1>1. <<e>> \in Seq(S) /\ s \o t \in Seq(S)
  BY ConcatProperties
<1>2. Append(s \o t, e) = (s \o t) \o <<e>> /\ Append(t, e) = t \o <<e>>
  BY <1>1, AppendIsConcat
<1> QED BY <1>1, <1>2, ConcatAssociative

\* A row that moves from the head of one sequence to the end of the other leaves
\* the two joined as they were.
LEMMA MovesAcross ==
  ASSUME NEW S, NEW s \in Seq(S), NEW t \in Seq(S), NEW e \in S
  PROVE  s \o (<<e>> \o t) = Append(s, e) \o t
<1>1. <<e>> \in Seq(S) /\ Append(s, e) = s \o <<e>>
  BY AppendIsConcat
<1> QED BY SMTT(30), <1>1, ConcatAssociative

\* A drain splits the queue into a batch and the rest (PendingMessageQueue::drain).
LEMMA TakeSplits ==
  ASSUME TypeOK, NEW q \in Queues
  PROVE  /\ Take(q).got \in Seq(Msgs) /\ Take(q).left \in Seq(Msgs)
         /\ queue[q] = Take(q).got \o Take(q).left
         /\ mode[q] # "all" => Len(Take(q).got) <= 1
<1>1. queue[q] \in Seq(Msgs)
  BY DEF TypeOK
<1>2. CASE mode[q] = "all" \/ queue[q] = <<>>
  BY <1>1, <1>2 DEF Take
<1>3. CASE ~(mode[q] = "all" \/ queue[q] = <<>>)
  <2>1. queue[q] = <<Head(queue[q])>> \o Tail(queue[q])
    BY <1>1, <1>3
  <2> QED BY <1>1, <1>3, <2>1 DEF Take
<1> QED BY <1>2, <1>3

-----------------------------------------------------------------------------
(* The inductive invariant, in parts *)

\* The run in the slot is the loop that is on, and its caller the only one that
\* runs; only a caller that has been let in holds messages (run_with_lifecycle).
SlotInv ==
  /\ pc = "off" <=> owner = NoCaller
  /\ \A c \in Callers : phase[c] = "running" <=> owner = c
  /\ \A c \in Callers : hand[c] # <<>> => phase[c] = "admitted"
  /\ pc = "start" => base = turn

\* No AgentEnd before the end, and a second one only after a listener failed.
EndsInv ==
  /\ pc \notin {"off", "fail", "finish"} => ends = 0
  /\ pc = "fail" => ends = 0 \/ (ends = 1 /\ failed)
  /\ OneAgentEnd

\* The loop holds messages only before the first turn and until it has delivered
\* them, or when it fails because it was aborted or a listener failed.
PendingInv ==
  /\ pc \notin {"start", "prompts", "turn", "deliver", "fail"} => pending = <<>>
  /\ pc = "fail" /\ ~aborted /\ ~failed => pending = <<>>

\* The first a calls of the batch are answered and no other.
AnsweredUpTo(a) ==
  \A k \in Batch : calls[k] = "answered" <=> k[2] <= a

\* While tools run, the message at hand ends the context, its answered calls are
\* the first ones, and a sequential batch has one unanswered call at most.
BatchInv ==
  /\ \A k \in Call : k[1] > turn => calls[k] = "none"
  /\ pc = "tools" =>
       /\ context # <<>>
       /\ turn > base
       /\ \E n \in 1..MaxCalls : Last(context) = Assistant(turn, n)
       /\ \E a \in 0..Last(context).calls : AnsweredUpTo(a)
       /\ serial => \A k \in Batch : calls[k] # "none" =>
                      \A j \in Earlier(k) : calls[j] = "answered"

\* What the types rest on.
CoreInv == TypeOK /\ SlotInv /\ EndsInv /\ PendingInv /\ BatchInv

-----------------------------------------------------------------------------
(* Types *)

\* Taking one element out of a sequence leaves the others in order (remove_where).
LEMMA RemoveAtProperties ==
  ASSUME NEW S, NEW s \in Seq(S), NEW i \in DOMAIN s
  PROVE  /\ RemoveAt(s, i) \in Seq(S)
         /\ Len(RemoveAt(s, i)) = Len(s) - 1
         /\ \A j \in 1..(Len(s) - 1) :
              RemoveAt(s, i)[j] = s[IF j < i THEN j ELSE j + 1]
<1> DEFINE front == SubSeq(s, 1, i - 1)
           back == SubSeq(s, i + 1, Len(s))
<1>0. i \in 1..Len(s) /\ Len(s) \in Nat /\ \A j \in 1..Len(s) : s[j] \in S
  OBVIOUS
<1>1. /\ front \in Seq(S) /\ Len(front) = i - 1
      /\ \A j \in 1..(i - 1) : front[j] = s[j]
  BY <1>0, SubSeqProperties
<1>2. /\ back \in Seq(S) /\ Len(back) = Len(s) - i
      /\ \A j \in 1..(Len(s) - i) : back[j] = s[j + i]
  BY SMTT(30), <1>0, SubSeqProperties
<1>3. RemoveAt(s, i) = front \o back
  BY DEF RemoveAt
<1>4. /\ front \o back \in Seq(S) /\ Len(front \o back) = Len(s) - 1
      /\ \A j \in 1..(Len(s) - 1) :
           (front \o back)[j] = IF j < i THEN front[j] ELSE back[j - (i - 1)]
  <2>1. /\ front \o back \in Seq(S) /\ Len(front \o back) = Len(front) + Len(back)
        /\ \A j \in 1..(Len(front) + Len(back)) :
             (front \o back)[j] = IF j <= Len(front) THEN front[j] ELSE back[j - Len(front)]
    BY <1>1, <1>2, ConcatProperties
  <2> HIDE DEF front, back
  <2>2. Len(front) + Len(back) = Len(s) - 1 /\ \A j \in Nat : j <= Len(front) <=> j < i
    BY <1>0, <1>1, <1>2
  <2>3. ASSUME NEW j \in 1..(Len(s) - 1)
        PROVE  (front \o back)[j] = IF j < i THEN front[j] ELSE back[j - (i - 1)]
    BY SMTT(30), <1>0, <1>1, <2>1, <2>2
  <2> QED BY <2>1, <2>2, <2>3
<1> HIDE DEF front, back
<1>5. ASSUME NEW j \in 1..(Len(s) - 1)
      PROVE  RemoveAt(s, i)[j] = s[IF j < i THEN j ELSE j + 1]
  <2>1. CASE j < i
    BY <1>0, <1>1, <1>3, <1>4, <2>1
  <2>2. CASE ~(j < i)
    <3>1. back[j - (i - 1)] = s[j - (i - 1) + i]
      BY <1>0, <1>2, <2>2
    <3> QED BY SMTT(30), <1>0, <1>3, <1>4, <2>2, <3>1
  <2> QED BY <2>1, <2>2
<1> QED BY <1>3, <1>4, <1>5

\* A batch with its first a calls answered has just their results, in order
\* (execute_tool_calls_parallel).
LEMMA ResultsAre ==
  ASSUME turn \in Nat, Last(context).calls \in Nat,
         NEW a \in 0..Last(context).calls, AnsweredUpTo(a)
  PROVE  Results = [i \in 1..a |-> Result(<<turn, i>>)]
<1> DEFINE done == {k \in Batch : calls[k] = "answered"}
           f == [i \in 1..a |-> <<turn, i>>]
<1>1. done = {<<turn, i>> : i \in 1..a}
  BY DEF AnsweredUpTo, Batch
<1>2. f \in [1..a -> done] /\ \A i, j \in 1..a : f[i] = f[j] => i = j
  BY <1>1
<1>3. \A k \in done : \E i \in 1..a : f[i] = k
  BY <1>1
<1>4. f \in Bijection(1..a, done)
  BY <1>2, <1>3 DEF Bijection, Injection, Surjection, IsInjective
<1>5. Cardinality(done) = a
  BY <1>4, FS_CountingElements DEF ExistsBijection
<1> QED BY <1>5 DEF Results

\* They are rows of the transcript.
LEMMA ResultsTyped ==
  ASSUME TypeOK, BatchInv, pc = "tools"
  PROVE  /\ Results \in Seq(Rows)
         /\ \E a \in 0..Last(context).calls :
              AnsweredUpTo(a) /\ Results = [i \in 1..a |-> Result(<<turn, i>>)]
<1>1. PICK n \in 1..MaxCalls : Last(context) = Assistant(turn, n)
  BY DEF BatchInv
<1>2. Last(context).calls = n /\ n \in Nat /\ turn \in 1..MaxTurns
  BY <1>1, AssistantRow DEF BatchInv, TypeOK
<1>3. PICK a \in 0..n : AnsweredUpTo(a)
  BY <1>2 DEF BatchInv
<1>4. Results = [i \in 1..a |-> Result(<<turn, i>>)]
  BY <1>2, <1>3, ResultsAre
<1>5. \A i \in 1..a : <<turn, i>> \in Call
  BY <1>2, <1>3 DEF Call
<1>6. \A i \in 1..a : Result(<<turn, i>>) \in Rows
  BY <1>5, ResultRow
<1> QED BY <1>2, <1>3, <1>4, <1>6

-----------------------------------------------------------------------------
(* Kinds of steps *)

USE DEF outerVars, userVars, callerVars, slotVars, histVars, loopVars, toolVars,
        dataVars, runVars, vars

\* Steps of the task of a tool call and of its emitter (src/agent_loop/tools.rs).
ToolMove ==
  \E k \in Call : \/ ToolPrepared(k) \/ PrepareAborted(k) \/ ToolUpdate(k) \/ EmitUpdate(k)
                  \/ ToolReturns(k) \/ ToolAborted(k) \/ ToolEnds(k)

\* Steps of the loop that only decide where it goes on.
ControlMove ==
  \/ Turn \/ Request \/ StreamFails \/ JoinFails \/ TurnEnd \/ StopHook \/ StopHookAborted
  \/ ContinuationAborted \/ \E k \in Call : ToolStart(k) \/ RefusedEnds(k)

\* An assistant message, of the model or in its place.
Response == (\E n \in 0..MaxCalls : StreamDone(n)) \/ StreamError \/ StreamAborted

\* Steps of the loop that take messages out of a queue or from a hook.
PollMove == FirstPoll \/ SteerPoll \/ FollowPoll \/ ContinuationHook

\* Steps that record a row or several.
RecordMove == EmitPrompt \/ Deliver \/ (\E k \in Call : Answer(k)) \/ ToolsDone

\* The two ends of a run.
Boundary == Begin \/ AgentEnd \/ RunFails \/ Finish

\* Every step is of one of these kinds, or is one of the user or of a caller.
LEMMA KindsOfSteps ==
  Next => \/ ToolMove \/ ControlMove \/ Response \/ PollMove \/ RecordMove \/ Boundary
          \/ UserStep
          \/ \E c \in Callers : Continue(c) \/ CallerStep(c) \/ \E m \in Msgs : Prompt(c, m)
<1> SUFFICES ASSUME Next
             PROVE  \/ ToolMove \/ ControlMove \/ Response \/ PollMove \/ RecordMove
                    \/ Boundary \/ UserStep
                    \/ \E c \in Callers :
                         Continue(c) \/ CallerStep(c) \/ \E m \in Msgs : Prompt(c, m)
  OBVIOUS
<1>1. CASE LoopStep
  BY <1>1 DEF LoopStep, ToolMove, ControlMove, Response, PollMove, RecordMove, Boundary
<1>2. CASE Answers
  BY <1>2 DEF Answers, ToolMove, ControlMove, Response, PollMove
<1>3. CASE \E k \in Call : TaskStep(k) \/ EmitUpdate(k)
  BY <1>3 DEF TaskStep, ToolMove
<1> QED BY <1>1, <1>2, <1>3 DEF Next

\* A tool's task touches its call and its channel; it neither starts a call nor
\* answers one (execute_tool_call).
LEMMA ToolMoves ==
  ASSUME TypeOK, ToolMove
  PROVE  /\ UNCHANGED <<outerVars, transcript, histVars, loopVars>>
         /\ calls' \in [Call -> CallStates] /\ update' \in SUBSET Call
         /\ \A k \in Call : /\ calls'[k] = "answered" <=> calls[k] = "answered"
                            /\ calls'[k] = "none" <=> calls[k] = "none"
<1> USE DEF TypeOK, CallStates, Mark
<1> PICK k \in Call : \/ ToolPrepared(k) \/ PrepareAborted(k) \/ ToolUpdate(k)
                      \/ EmitUpdate(k) \/ ToolReturns(k) \/ ToolAborted(k) \/ ToolEnds(k)
  BY DEF ToolMove
<1>1. CASE ToolPrepared(k)
  BY <1>1 DEF ToolPrepared
<1>2. CASE PrepareAborted(k)
  BY <1>2 DEF PrepareAborted
<1>3. CASE ToolUpdate(k)
  BY <1>3 DEF ToolUpdate
<1>4. CASE EmitUpdate(k)
  BY <1>4 DEF EmitUpdate
<1>5. CASE ToolReturns(k)
  BY <1>5 DEF ToolReturns
<1>6. CASE ToolAborted(k)
  BY <1>6 DEF ToolAborted
<1>7. CASE ToolEnds(k)
  BY <1>7 DEF ToolEnds
<1> QED BY <1>1, <1>2, <1>3, <1>4, <1>5, <1>6, <1>7

\* Where the loop goes on without a change of its data: forward, to the end of
\* the run, or into its failure (run_loop).
Onward ==
  <<pc, pc'>> \in {<<"turn", "deliver">>, <<"deliver", "streaming">>, <<"tools", "tools">>,
                   <<"turnEnd", "stopHook">>, <<"stopHook", "steerPoll">>,
                   <<"turnEnd", "agentEnd">>, <<"stopHook", "agentEnd">>,
                   <<"continuation", "agentEnd">>}

\* A control step leaves all data alone; if it fails, then because of an abort,
\* with nothing in hand or with a listener.  A call it starts is of the batch, and
\* the calls before it in a sequential one are answered.
ControlEffect ==
  /\ UNCHANGED <<outerVars, transcript, dataVars, ends, edited, update>>
  /\ calls' \in [Call -> CallStates] /\ failed' \in BOOLEAN
  /\ \A k \in Call : calls'[k] = "answered" <=> calls[k] = "answered"
  /\ pc # "tools" => UNCHANGED calls
  /\ \A k \in Call : calls'[k] # "none" =>
       \/ calls[k] # "none"
       \/ k \in Batch /\ (serial => \A j \in Earlier(k) : calls[j] = "answered")
  /\ \/ Onward /\ failed' = failed
     \/ /\ pc \in {"turn", "streaming", "tools", "turnEnd", "stopHook"}
        /\ pc' = "fail"
        /\ pending = <<>> \/ aborted \/ failed'
        /\ failed => failed'
  /\ pc = "deliver" => pending = <<>>
  /\ pc' = "stopHook" => ~aborted

\* That is what the control steps do (run_loop).
LEMMA ControlMoves ==
  ASSUME TypeOK, PendingInv, ControlMove
  PROVE  ControlEffect
<1> USE DEF TypeOK, CallStates, Mark, Goto, Emit, ListenerError, Onward, PendingInv, ControlEffect
<1>1. CASE Turn
  BY <1>1 DEF Turn
<1>2. CASE Request
  BY <1>2 DEF Request
<1>3. CASE StreamFails
  BY <1>3 DEF StreamFails
<1>4. CASE JoinFails
  BY <1>4 DEF JoinFails
<1>5. CASE TurnEnd
  BY <1>5 DEF TurnEnd
<1>6. CASE StopHook
  BY <1>6 DEF StopHook
<1>7. CASE StopHookAborted
  BY <1>7 DEF StopHookAborted
<1>8. CASE ContinuationAborted
  BY <1>8 DEF ContinuationAborted
<1>9. ASSUME NEW k \in Call, ToolStart(k) PROVE ControlEffect
  BY <1>9 DEF ToolStart
<1>10. ASSUME NEW k \in Call, RefusedEnds(k) PROVE ControlEffect
  BY <1>10 DEF RefusedEnds
<1> QED BY <1>1, <1>2, <1>3, <1>4, <1>5, <1>6, <1>7, <1>8, <1>9, <1>10 DEF ControlMove

\* An assistant message ends both lists; unless it is a failure it is the next
\* turn, and its calls, if any, are executed (stream_assistant_response).
ResponseEffect ==
  /\ UNCHANGED <<outerVars, pending, toolVars, ends, edited>>
  /\ pending = <<>>
  /\ pc \in {"deliver", "streaming"}
  /\ failed' \in BOOLEAN
  /\ \/ pc' = "fail" /\ failed'
     \/ pc' \in {"tools", "turnEnd", "agentEnd"} /\ failed' = failed
  /\ \E row \in Rows :
       /\ context' = Append(context, row) /\ transcript' = Append(transcript, row)
       /\ \/ /\ row = Failure /\ pc' \in {"fail", "agentEnd"}
             /\ UNCHANGED <<more, turn, serial>>
          \/ \E n \in 0..MaxCalls :
               /\ row = Assistant(turn + 1, n)
               /\ turn' = turn + 1 /\ turn' \in 1..MaxTurns
               /\ more' \in BOOLEAN /\ serial' \in BOOLEAN
               /\ pc' \in (IF n = 0 THEN {"fail", "turnEnd"} ELSE {"fail", "tools"})

\* That is what every response does.
LEMMA Responses ==
  ASSUME TypeOK, PendingInv, Response
  PROVE  ResponseEffect
<1> USE DEF Goto, Emit, ListenerError, Respond
<1>0. turn \in 0..MaxTurns /\ MaxTurns \in Nat /\ serial \in BOOLEAN /\ failed \in BOOLEAN
  BY DEF TypeOK
<1>1. ASSUME NEW n \in 0..MaxCalls, StreamDone(n)
      PROVE  ResponseEffect
  <2> DEFINE row == Assistant(turn + 1, n)
  <2>1. turn + 1 \in 1..MaxTurns /\ pc = "streaming" /\ pending = <<>> /\ row \in Rows
    BY <1>0, <1>1, AssistantRow DEF StreamDone, PendingInv
  <2>2. /\ context' = Append(context, row) /\ transcript' = Append(transcript, row)
        /\ turn' = turn + 1 /\ more' = FALSE /\ serial' \in BOOLEAN
        /\ pc' \in (IF n = 0 THEN {"fail", "turnEnd"} ELSE {"fail", "tools"})
        /\ UNCHANGED <<outerVars, pending, toolVars, ends, edited>>
        /\ \/ pc' = "fail" /\ failed' = TRUE
           \/ pc' \in {"tools", "turnEnd"} /\ failed' = failed
    BY <1>0, <1>1 DEF StreamDone
  <2> HIDE DEF row
  <2>3. \E m \in 0..MaxCalls :
          /\ row = Assistant(turn + 1, m)
          /\ pc' \in (IF m = 0 THEN {"fail", "turnEnd"} ELSE {"fail", "tools"})
    BY <2>2 DEF row
  <2> QED BY <1>0, <2>1, <2>2, <2>3 DEF ResponseEffect
<1>2. CASE StreamError
  BY <1>0, <1>2, FailureRow DEF StreamError, ResponseEffect, PendingInv
<1>3. CASE StreamAborted
  BY <1>0, <1>3, FailureRow DEF StreamAborted, ResponseEffect, PendingInv
<1> QED BY <1>1, <1>2, <1>3 DEF Response

\* A poll finds the loop with empty hands and gives it a batch of a queue, a
\* continuation or nothing; what it gives begins a turn (run_loop).
PollEffect ==
  /\ UNCHANGED <<transcript, phase, hand, slotVars, context, turn, serial, toolVars,
                 histVars, mode, sent, edits>>
  /\ more' \in BOOLEAN
  /\ pending = <<>>
  /\ pc \in {"prompts", "steerPoll", "followPoll", "continuation"}
  /\ pc' \in {"turn", "followPoll", "continuation", "agentEnd", "fail"}
  /\ skip' \in [Callers -> BOOLEAN]
  /\ pc # "prompts" => UNCHANGED skip
  /\ pc = "prompts" => pc' = "turn"
  /\ \A c \in Callers : c # owner => skip'[c] = skip[c]
  /\ pending' # <<>> => pc' = "turn"
  /\ \/ UNCHANGED queue /\ pending' = <<>>
     \/ UNCHANGED queue /\ pending' = <<Continuation>> /\ pc # "prompts"
     \/ \E q \in Queues :
          /\ queue' = [queue EXCEPT ![q] = Take(q).left]
          /\ pending' = UserRows(Take(q).got)
          /\ pc \in {"prompts", "steerPoll"} => q = "steer"
          /\ pc = "prompts" => ~skip[owner]
          /\ pc = "followPoll" => q = "follow"

\* That is what every poll does.
LEMMA Polls ==
  ASSUME TypeOK, PendingInv, PollMove
  PROVE  PollEffect
<1> USE DEF Goto, PollEffect
<1>0. \A q \in Queues : UserRows(Take(q).got) = <<>> <=> Take(q).got = <<>>
  <2> TAKE q \in Queues
  <2>1. Take(q).got \in Seq(Msgs)
    BY TakeSplits
  <2> QED BY <2>1, UserRowsTyped
<1>1. CASE FirstPoll
  BY <1>1 DEF FirstPoll, Drain, Queues, TypeOK
<1>2. CASE SteerPoll
  BY <1>2 DEF SteerPoll, Drain, Queues, TypeOK, PendingInv, MayStopBefore
<1>3. CASE FollowPoll
  BY <1>3 DEF FollowPoll, Drain, Queues, TypeOK, PendingInv
<1>4. CASE ContinuationHook
  BY <1>4 DEF ContinuationHook, TypeOK, PendingInv
<1> QED BY <1>1, <1>2, <1>3, <1>4 DEF PollMove

\* The first message in hand becomes a row (process_events, run_loop).
DeliverEffect ==
  /\ UNCHANGED <<outerVars, more, turn, serial, toolVars, ends, edited>>
  /\ pending # <<>>
  /\ transcript' = Append(transcript, Head(pending))
  /\ pending' = Tail(pending)
  /\ pc \in {"prompts", "deliver"}
  /\ failed' \in BOOLEAN
  /\ \/ /\ pc' = pc /\ failed' = failed
        /\ context' = IF pc = "deliver" THEN Append(context, Head(pending)) ELSE context
     \/ pc' = "fail" /\ failed' /\ context' = context

\* That is what both do that record a message.
LEMMA Deliveries ==
  ASSUME TypeOK, EmitPrompt \/ Deliver
  PROVE  DeliverEffect
<1> USE DEF Goto, Emit, ListenerError, DeliverEffect, TypeOK
<1>1. CASE EmitPrompt
  BY <1>1 DEF EmitPrompt
<1>2. CASE Deliver
  BY <1>2 DEF Deliver, Shown
<1> QED BY <1>1, <1>2

-----------------------------------------------------------------------------
(* TypeOK *)

\* The user keeps the types (Agent::steer, clear_*, remove_*, abort, reset).
LEMMA UserTyped ==
  ASSUME TypeOK, UserStep
  PROVE  TypeOK'
<1> USE DEF TypeOK, Edit
<1>1. ASSUME NEW q \in Queues, NEW m \in Msgs, Enqueue(q, m)
      PROVE  TypeOK'
  <2>1. Append(queue[q], m) \in Seq(Msgs) /\ Append(sent[q], m) \in Seq(Msgs)
    BY DEF Sources
  <2> QED BY <1>1, <2>1 DEF Enqueue, Send, Sources
<1>2. ASSUME NEW q \in Queues, ClearQueue(q)
      PROVE  TypeOK'
  BY <1>2 DEF ClearQueue
<1>3. ASSUME NEW q \in Queues, NEW i \in DOMAIN queue[q], RemoveQueued(q, i)
      PROVE  TypeOK'
  <2>1. RemoveAt(queue[q], i) \in Seq(Msgs)
    BY RemoveAtProperties
  <2> QED BY <1>3, <2>1 DEF RemoveQueued
<1>4. ASSUME NEW q \in Queues, NEW v \in Modes(q), SetMode(q, v)
      PROVE  TypeOK'
  BY <1>4 DEF SetMode
<1>5. CASE Abort
  BY <1>5 DEF Abort
<1>6. CASE AppendMessages
  BY <1>6, NoteRow DEF AppendMessages
<1>7. CASE Reset
  BY <1>7 DEF Reset
<1> QED BY <1>1, <1>2, <1>3, <1>4, <1>5, <1>6, <1>7 DEF UserStep

\* So do the callers (Agent::prompt, continue_run, run_with_lifecycle).
LEMMA CallerTyped ==
  ASSUME TypeOK, NEW c \in Callers,
         Continue(c) \/ CallerStep(c) \/ \E m \in Msgs : Prompt(c, m)
  PROVE  TypeOK'
<1> USE DEF TypeOK
<1>1. CASE Continue(c)
  BY <1>1 DEF Continue
<1>2. ASSUME NEW m \in Msgs, Prompt(c, m)
      PROVE  TypeOK'
  <2>1. Append(sent["prompt"], m) \in Seq(Msgs) /\ <<m>> \in Seq(Msgs)
    BY DEF Sources
  <2> QED BY <1>2, <2>1 DEF Prompt, Send, Sources
<1>3. CASE TakeQueued(c)
  <2>1. QueuedFrom \in Queues
    BY DEF QueuedFrom, Queues
  <2>2. Take(QueuedFrom).got \in Seq(Msgs) /\ Take(QueuedFrom).left \in Seq(Msgs)
    BY <2>1, TakeSplits
  <2> QED BY <1>3, <2>1, <2>2 DEF TakeQueued, Drain, SkipsPoll
<1>4. CASE ContinueBare(c)
  BY <1>4 DEF ContinueBare
<1>5. CASE Register(c)
  <2>1. UserRows(hand[c]) \in Seq(Rows)
    BY UserRowsTyped
  <2>2. pc' \in Steps /\ ends' \in 0..2 /\ base' \in 0..turn'
    BY <1>5 DEF Register, Steps
  <2>3. /\ phase' \in [Callers -> {"idle", "continuing", "admitted", "running"}]
        /\ hand' \in [Callers -> Seq(Msgs)]
    BY <1>5 DEF Register
  <2> QED BY <1>5, <2>1, <2>2, <2>3 DEF Register
<1>6. CASE Refused(c)
  BY <1>6 DEF Refused
<1> QED BY <1>1, <1>2, <1>3, <1>4, <1>5, <1>6 DEF CallerStep

\* And the loop (run_loop and what it calls).
LEMMA LoopTyped ==
  ASSUME CoreInv,
         ToolMove \/ ControlMove \/ Response \/ PollMove \/ RecordMove \/ Boundary
  PROVE  TypeOK'
<1> USE DEF CoreInv
<1>1. CASE ToolMove
  BY SMTT(30), <1>1, ToolMoves DEF TypeOK, Steps
<1>2. CASE ControlMove
  BY <1>2, ControlMoves DEF ControlEffect, Onward, TypeOK, Steps
<1>3. CASE Response
  <2>1. ResponseEffect
    BY <1>3, Responses
  <2>2. PICK row \in Rows :
          context' = Append(context, row) /\ transcript' = Append(transcript, row)
    BY <2>1 DEF ResponseEffect, TypeOK
  <2>3. context' \in Seq(Rows) /\ transcript' \in Seq(Rows)
    BY <2>2 DEF TypeOK
  <2>4. turn' \in 0..MaxTurns /\ more' \in BOOLEAN /\ serial' \in BOOLEAN /\ base \in 0..turn'
    BY <2>1 DEF ResponseEffect, TypeOK
  <2> QED BY <2>1, <2>3, <2>4 DEF ResponseEffect, TypeOK, Steps
<1>4. CASE PollMove
  <2>1. PollEffect
    BY <1>4, Polls
  <2>2. \A q \in Queues : /\ UserRows(Take(q).got) \in Seq(Rows)
                          /\ Take(q).left \in Seq(Msgs)
    BY TakeSplits, UserRowsTyped DEF TypeOK
  <2>3. <<>> \in Seq(Rows) /\ <<Continuation>> \in Seq(Rows)
    BY NoteRow DEF TypeOK
  <2>4. pending' \in Seq(Rows)
    <3>1. \/ pending' \in {<<>>, <<Continuation>>}
          \/ \E q \in Queues : pending' = UserRows(Take(q).got)
      BY <2>1 DEF PollEffect, TypeOK
    <3> QED BY <2>2, <2>3, <3>1
  <2>5. queue' \in [Queues -> Seq(Msgs)]
    BY <2>1, <2>2 DEF PollEffect, TypeOK
  <2> QED BY <2>1, <2>4, <2>5 DEF PollEffect, TypeOK, Steps
<1>5. CASE EmitPrompt \/ Deliver
  <2>1. DeliverEffect
    BY <1>5, Deliveries
  <2>2. Head(pending) \in Rows /\ Tail(pending) \in Seq(Rows)
    BY <2>1 DEF DeliverEffect, TypeOK
  <2>3. Append(transcript, Head(pending)) \in Seq(Rows)
        /\ Append(context, Head(pending)) \in Seq(Rows)
    BY <2>2 DEF TypeOK
  <2>4. transcript' \in Seq(Rows) /\ context' \in Seq(Rows) /\ pending' \in Seq(Rows)
    BY <2>1, <2>2, <2>3 DEF DeliverEffect, TypeOK
  <2> QED BY <2>1, <2>4 DEF DeliverEffect, TypeOK, Steps
<1>6. ASSUME NEW k \in Call, Answer(k)
      PROVE  TypeOK'
  <2>1. Append(transcript, Result(k)) \in Seq(Rows)
    BY ResultRow DEF TypeOK
  <2>2. calls' \in [Call -> CallStates]
    BY <1>6 DEF Answer, Mark, CallStates, TypeOK
  <2> QED BY <1>6, <2>1, <2>2 DEF Answer, Emit, Goto, ListenerError, TypeOK, Steps
<1>7. CASE ToolsDone
  <2>1. context \o Results \in Seq(Rows)
    BY <1>7, ResultsTyped DEF ToolsDone, TypeOK
  <2> QED BY <1>7, <2>1 DEF ToolsDone, Goto, TypeOK, Steps
<1>8. CASE Boundary
  <2>1. CASE Begin
    <3>1. transcript \o pending \in Seq(Rows)
      BY DEF TypeOK
    <3>2. context' \in Seq(Rows) /\ pc' \in Steps /\ failed' \in BOOLEAN /\ edited' \in BOOLEAN
      BY <2>1, <3>1 DEF Begin, TypeOK, Steps
    <3> QED BY <2>1, <3>2 DEF Begin, TypeOK, Steps
  <2>2. CASE AgentEnd
    <3>1. ends' \in 0..2 /\ pc' \in Steps /\ failed' \in BOOLEAN
      <4>1. ends = 0
        BY <2>2 DEF AgentEnd, EndsInv
      <4>2. ends' = 1 /\ pc' \in {"finish", "fail"}
        BY <2>2, <4>1 DEF AgentEnd
      <4>3. failed' \in BOOLEAN
        BY <2>2 DEF AgentEnd, TypeOK
      <4> QED BY <4>2, <4>3 DEF Steps
    <3> QED BY <2>2, <3>1 DEF AgentEnd, TypeOK, Steps
  <2>3. CASE RunFails
    <3>1. ends' \in 0..2 /\ Append(transcript, Failure) \in Seq(Rows)
      BY <2>3, FailureRow DEF RunFails, EndsInv, TypeOK
    <3> QED BY <2>3, <3>1 DEF RunFails, TypeOK, Steps
  <2>4. CASE Finish
    <3>1. phase' \in [Callers -> {"idle", "continuing", "admitted", "running"}]
      BY <2>4 DEF Finish, TypeOK
    <3> QED BY <2>4, <3>1 DEF Finish, Goto, TypeOK, Steps
  <2> QED BY <1>8, <2>1, <2>2, <2>3, <2>4 DEF Boundary
<1> QED BY <1>1, <1>2, <1>3, <1>4, <1>5, <1>6, <1>7, <1>8 DEF RecordMove

-----------------------------------------------------------------------------
(* The other parts of the core *)

\* What the user does is nothing to the slot, the loop and the tools, but for an
\* abort, which is never taken back (Agent::abort).
UserEffect ==
  /\ UNCHANGED <<callerVars, owner, base, ends, failed, loopVars, toolVars>>
  /\ aborted => aborted'
  /\ aborted' \in BOOLEAN

\* That is what the user's steps do.
LEMMA UserMoves ==
  ASSUME TypeOK, UserStep
  PROVE  UserEffect
<1> USE DEF UserEffect
<1>0. aborted \in BOOLEAN
  BY DEF TypeOK
<1>1. CASE Abort
  BY <1>0, <1>1 DEF Abort
<1>2. CASE AppendMessages \/ Reset
  BY <1>0, <1>2 DEF AppendMessages, Reset
<1>3. ASSUME NEW q \in Queues,
             \/ \E m \in Msgs : Enqueue(q, m)
             \/ ClearQueue(q)
             \/ \E i \in DOMAIN queue[q] : RemoveQueued(q, i)
             \/ \E v \in Modes(q) : SetMode(q, v)
      PROVE  UserEffect
  BY <1>0, <1>3 DEF Enqueue, ClearQueue, RemoveQueued, SetMode
<1> QED BY <1>1, <1>2, <1>3 DEF UserStep

\* Before it has registered a caller changes nothing of the run in the slot.
BeforeRun(c) ==
  Continue(c) \/ TakeQueued(c) \/ ContinueBare(c) \/ Refused(c) \/ \E m \in Msgs : Prompt(c, m)

\* Its phase moves, and it is not running before or after; it holds messages only
\* when it has been let in (Agent::prompt, continue_run).
BeforeRunEffect(c) ==
  /\ UNCHANGED <<transcript, runVars>>
  /\ phase[c] # "running" /\ hand' \in [Callers -> Seq(Msgs)]
  /\ \E p \in {"idle", "continuing", "admitted"} : phase' = [phase EXCEPT ![c] = p]
  /\ hand'[c] # <<>> => phase'[c] = "admitted"
  /\ \A d \in Callers : d # c => hand'[d] = hand[d]

\* That is what these steps do.
LEMMA BeforeRunMoves ==
  ASSUME TypeOK, SlotInv, NEW c \in Callers, BeforeRun(c)
  PROVE  BeforeRunEffect(c)
<1> USE DEF TypeOK, SlotInv, BeforeRunEffect
<1>1. CASE Continue(c)
  BY <1>1 DEF Continue
<1>2. ASSUME NEW m \in Msgs, Prompt(c, m)
      PROVE  BeforeRunEffect(c)
  <2>1. <<m>> \in Seq(Msgs)
    OBVIOUS
  <2> QED BY <1>2, <2>1 DEF Prompt
<1>3. CASE TakeQueued(c)
  <2>1. QueuedFrom \in Queues
    BY DEF QueuedFrom, Queues
  <2>2. Take(QueuedFrom).got \in Seq(Msgs)
    BY <2>1, TakeSplits
  <2> QED BY <1>3, <2>2 DEF TakeQueued
<1>4. CASE ContinueBare(c)
  <2>1. \E p \in {"idle", "admitted"} : phase' = [phase EXCEPT ![c] = p]
    BY <1>4 DEF ContinueBare
  <2> QED BY <1>4, <2>1 DEF ContinueBare
<1>5. CASE Refused(c)
  BY <1>5 DEF Refused
<1> QED BY <1>1, <1>2, <1>3, <1>4, <1>5 DEF BeforeRun

\* What the loop does while a run is on, its start and its end aside.
LoopMove == ToolMove \/ ControlMove \/ Response \/ PollMove \/ RecordMove

\* It never lets go of the slot, and its failures are those of a listener, of an
\* abort or of empty hands (run_loop).
LoopEffect ==
  /\ UNCHANGED <<phase, hand, slotVars, ends>>
  /\ \/ ToolMove /\ pc' = pc /\ turn' = turn
     \/ pc \notin {"off", "fail", "finish"} /\ pc' \notin {"off", "finish", "start"}
  /\ failed => failed'
  /\ pc' \notin {"start", "prompts", "turn", "deliver", "fail"} => pending' = <<>>
  /\ pc' = "fail" /\ ~aborted /\ ~failed' => pending' = <<>>

\* That is what the loop does.
LEMMA LoopMoves ==
  ASSUME CoreInv, LoopMove
  PROVE  LoopEffect
<1> USE DEF CoreInv, LoopEffect
<1>0. failed \in BOOLEAN
  BY DEF TypeOK
<1>1. CASE ToolMove
  BY <1>0, <1>1, ToolMoves DEF PendingInv
<1>2. CASE ControlMove
  <2>1. ControlEffect
    BY <1>2, ControlMoves
  <2>2. CASE Onward /\ failed' = failed
    BY <1>0, <2>1, <2>2 DEF ControlEffect, Onward, PendingInv
  <2>3. CASE pc' = "fail"
    BY <1>0, <2>1, <2>3 DEF ControlEffect, Onward
  <2> QED BY <2>1, <2>2, <2>3 DEF ControlEffect
<1>3. CASE Response
  BY <1>0, <1>3, Responses DEF ResponseEffect
<1>4. CASE PollMove
  BY <1>0, <1>4, Polls DEF PollEffect
<1>5. CASE EmitPrompt \/ Deliver
  BY <1>0, <1>5, Deliveries DEF DeliverEffect
<1>6. ASSUME NEW k \in Call, Answer(k)
      PROVE  LoopEffect
  BY <1>0, <1>6 DEF Answer, Emit, Goto, ListenerError, PendingInv
<1>7. CASE ToolsDone
  BY <1>0, <1>7 DEF ToolsDone, Goto, PendingInv
<1> QED BY <1>1, <1>2, <1>3, <1>4, <1>5, <1>6, <1>7 DEF LoopMove, RecordMove

\* Every step, sorted by what it may touch.
LEMMA SortedSteps ==
  ASSUME [Next]_vars
  PROVE  \/ UNCHANGED vars \/ LoopMove \/ Boundary \/ UserStep
         \/ \E c \in Callers : BeforeRun(c) \/ Register(c)
BY KindsOfSteps DEF LoopMove, BeforeRun, CallerStep

\* The slot, the count of AgentEnds and the messages in the loop's hands stay
\* right.
LEMMA ControlKept ==
  ASSUME CoreInv, [Next]_vars
  PROVE  SlotInv' /\ EndsInv' /\ PendingInv'
<1> USE DEF CoreInv, OneAgentEnd
<1>0. /\ ends \in 0..2 /\ failed \in BOOLEAN /\ aborted \in BOOLEAN
      /\ owner \in Callers \cup {NoCaller}
      /\ phase \in [Callers -> {"idle", "continuing", "admitted", "running"}]
      /\ hand \in [Callers -> Seq(Msgs)]
  BY DEF TypeOK
<1>1. CASE LoopMove
  <2>1. LoopEffect
    BY <1>1, LoopMoves
  <2>2. SlotInv'
    BY <2>1 DEF LoopEffect, SlotInv
  <2>3. EndsInv'
    <3>1. CASE ToolMove
      BY <3>1, ToolMoves DEF EndsInv
    <3>2. CASE ~ToolMove
      BY <2>1, <3>2 DEF LoopEffect, EndsInv
    <3> QED BY <3>1, <3>2
  <2>4. PendingInv'
    BY <2>1 DEF LoopEffect, PendingInv
  <2> QED BY <2>2, <2>3, <2>4
<1>2. CASE Boundary
  <2>1. CASE Begin
    BY <1>0, <2>1 DEF Begin, SlotInv, EndsInv, PendingInv
  <2>2. CASE AgentEnd
    BY <1>0, <2>2 DEF AgentEnd, SlotInv, EndsInv, PendingInv
  <2>3. CASE RunFails
    BY <1>0, <2>3 DEF RunFails, SlotInv, EndsInv, PendingInv
  <2>4. CASE Finish
    BY <1>0, <2>4 DEF Finish, Goto, SlotInv, EndsInv, PendingInv
  <2> QED BY <1>2, <2>1, <2>2, <2>3, <2>4 DEF Boundary
<1>3. CASE UserStep
  BY <1>0, <1>3, UserMoves DEF UserEffect, SlotInv, EndsInv, PendingInv
<1>4. ASSUME NEW c \in Callers, BeforeRun(c)
      PROVE  SlotInv' /\ EndsInv' /\ PendingInv'
  <2>1. BeforeRunEffect(c)
    BY <1>4, BeforeRunMoves
  <2> QED BY <1>0, <2>1 DEF BeforeRunEffect, SlotInv, EndsInv, PendingInv
<1>5. ASSUME NEW c \in Callers, Register(c)
      PROVE  SlotInv' /\ EndsInv' /\ PendingInv'
  BY <1>0, <1>5 DEF Register, SlotInv, EndsInv, PendingInv
<1>6. CASE UNCHANGED vars
  BY <1>6 DEF SlotInv, EndsInv, PendingInv
<1> QED BY <1>1, <1>2, <1>3, <1>4, <1>5, <1>6, SortedSteps

\* The calls of a batch are calls of its turn, and so are those before them.
LEMMA BatchCalls ==
  ASSUME TypeOK, BatchInv, pc = "tools"
  PROVE  /\ Batch \subseteq Call
         /\ \A k \in Batch : Earlier(k) \subseteq Batch /\ k[1] = turn
         /\ \A k \in Batch : k[2] \in 1..Last(context).calls
         /\ Last(context).calls \in 1..MaxCalls
<1>1. PICK n \in 1..MaxCalls : Last(context) = Assistant(turn, n)
  BY DEF BatchInv
<1>2. Last(context).calls = n /\ n \in Nat /\ turn \in 1..MaxTurns
  BY <1>1, AssistantRow DEF BatchInv, TypeOK
<1> QED BY <1>2 DEF Batch, Earlier, Call

\* The call that may be answered is the first unanswered one (execute_tool_calls_parallel).
LEMMA AnsweredInOrder ==
  ASSUME TypeOK, BatchInv, pc = "tools", NEW k \in Batch, Answerable(k),
         NEW a \in 0..Last(context).calls, AnsweredUpTo(a)
  PROVE  k[2] = a + 1
<1>1. /\ k \in Call /\ k[1] = turn /\ k[2] \in Nat \ {0} /\ Last(context).calls \in Nat
      /\ Earlier(k) \subseteq Batch
  BY BatchCalls DEF Call
<1>2. calls[k] = "ended"
  BY DEF Answerable
<1>3. k[2] > a
  BY <1>1, <1>2 DEF AnsweredUpTo
<1>4. \A j \in Earlier(k) : calls[j] = "answered"
  BY <1>2 DEF Answerable, BatchInv
<1>5. CASE k[2] = 1
  BY <1>3, <1>5
<1>6. CASE k[2] # 1
  <2>1. <<k[1], k[2] - 1>> \in Earlier(k)
    BY <1>1, <1>6 DEF Earlier
  <2>2. <<k[1], k[2] - 1>>[2] = k[2] - 1
    OBVIOUS
  <2>3. k[2] - 1 <= a
    BY <1>1, <1>4, <2>1, <2>2 DEF AnsweredUpTo
  <2> QED BY <1>1, <1>3, <2>3
<1> QED BY <1>5, <1>6

\* A new batch has calls of the new turn, none of them started.
LEMMA NewBatch ==
  ASSUME TypeOK, BatchInv, ResponseEffect, pc' = "tools"
  PROVE  /\ turn' = turn + 1 /\ context' # <<>>
         /\ \E n \in 1..MaxCalls : Last(context') = Assistant(turn + 1, n)
         /\ Last(context').calls \in 1..MaxCalls
         /\ \A k \in Batch' : /\ k \in Call /\ calls'[k] = "none"
                             /\ k[2] \in 1..Last(context').calls
<1>0. turn \in Nat /\ context \in Seq(Rows) /\ \A k \in Call : k[1] > turn => calls'[k] = "none"
  BY DEF TypeOK, BatchInv, ResponseEffect
<1>1. PICK n \in 1..MaxCalls : /\ turn' = turn + 1 /\ turn' \in 1..MaxTurns
                               /\ context' = Append(context, Assistant(turn + 1, n))
  BY DEF ResponseEffect
<1>2. Assistant(turn + 1, n) \in Rows /\ Assistant(turn + 1, n).calls = n
  BY <1>1, AssistantRow
<1>3. context' # <<>> /\ Last(context') = Assistant(turn + 1, n)
  BY <1>0, <1>1, <1>2 DEF Last
<1>4. Batch' = {<<turn + 1, i>> : i \in 1..n}
  BY <1>1, <1>2, <1>3 DEF Batch
<1>5. \A k \in Batch' : k \in Call /\ k[1] > turn /\ k[2] \in 1..n
  BY <1>0, <1>1, <1>4 DEF Call
<1> QED BY <1>0, <1>1, <1>2, <1>3, <1>5

\* So does the batch: calls are answered from the first on.
LEMMA BatchKept ==
  ASSUME CoreInv, [Next]_vars
  PROVE  BatchInv'
<1> USE DEF CoreInv
<1>0. turn \in 0..MaxTurns /\ base \in 0..turn /\ context \in Seq(Rows)
      /\ calls \in [Call -> CallStates] /\ \A k \in Call : k[1] \in Nat /\ k[2] \in Nat
  BY DEF TypeOK, Call
<1>1. ASSUME UNCHANGED <<turn, base, context, serial>>, pc' = "tools" => pc = "tools",
             calls' \in [Call -> CallStates],
             \A k \in Call : calls'[k] = "answered" <=> calls[k] = "answered",
             \A k \in Call : calls'[k] # "none" =>
               \/ calls[k] # "none"
               \/ k \in Batch /\ (serial => \A j \in Earlier(k) : calls[j] = "answered")
      PROVE  BatchInv'
  <2>1. Batch' = Batch
    BY <1>1 DEF Batch
  <2>2. \A k \in Call : k[1] > turn => k \notin Batch
    BY <1>0 DEF Batch
  <2>3. \A k \in Call : k[1] > turn' => calls'[k] = "none"
    BY <1>0, <1>1, <2>2 DEF BatchInv
  <2>4. ASSUME pc' = "tools"
        PROVE  /\ \E a \in 0..Last(context').calls : AnsweredUpTo(a)'
               /\ serial' => \A k \in Batch' : calls'[k] # "none" =>
                               \A j \in Earlier(k) : calls'[j] = "answered"
    <3>1. Batch \subseteq Call /\ \A k \in Batch : Earlier(k) \subseteq Batch
      BY <1>0, <1>1, <2>4, BatchCalls
    <3> QED BY <1>1, <2>1, <2>4, <3>1 DEF BatchInv, AnsweredUpTo
  <2> QED BY <1>1, <2>3, <2>4 DEF BatchInv
<1>2. ASSUME UNCHANGED <<turn, calls>>, pc' # "tools"
      PROVE  BatchInv'
  BY <1>2 DEF BatchInv
<1>3. CASE ToolMove
  BY <1>1, <1>3, ToolMoves
<1>4. CASE ControlMove
  <2>1. ControlEffect
    BY <1>4, ControlMoves
  <2>2. pc' = "tools" => pc = "tools"
    BY <2>1 DEF ControlEffect, Onward
  <2> QED BY <1>1, <2>1, <2>2 DEF ControlEffect
<1>5. CASE Response
  <2>1. ResponseEffect
    BY <1>5, Responses
  <2>2. CASE UNCHANGED turn
    BY <1>0, <1>2, <2>1, <2>2 DEF ResponseEffect
  <2>3. CASE turn' = turn + 1
    <3>1. \A k \in Call : k[1] > turn' => calls'[k] = "none"
      BY <1>0, <2>1, <2>3 DEF ResponseEffect, BatchInv
    <3>2. CASE pc' = "tools"
      <4>1. /\ context' # <<>> /\ Last(context').calls \in 1..MaxCalls
            /\ \E n \in 1..MaxCalls : Last(context') = Assistant(turn + 1, n)
            /\ \A k \in Batch' : calls'[k] = "none" /\ k[2] \in 1..Last(context').calls
        BY <2>1, <3>2, NewBatch
      <4>2. AnsweredUpTo(0)'
        BY <4>1 DEF AnsweredUpTo
      <4>3. base' = base
        BY <2>1 DEF ResponseEffect
      <4> QED BY <1>0, <2>3, <3>1, <4>1, <4>2, <4>3 DEF BatchInv
    <3>3. CASE pc' # "tools"
      BY <3>1, <3>3 DEF BatchInv
    <3> QED BY <3>2, <3>3
  <2> QED BY <2>1, <2>2, <2>3 DEF ResponseEffect
<1>6. CASE PollMove
  BY <1>2, <1>6, Polls DEF PollEffect
<1>7. CASE EmitPrompt \/ Deliver
  BY <1>2, <1>7, Deliveries DEF DeliverEffect
<1>8. CASE ToolsDone
  BY <1>2, <1>8 DEF ToolsDone, Goto
<1>9. ASSUME NEW k \in Call, Answer(k)
      PROVE  BatchInv'
  <2>1. /\ pc = "tools" /\ k \in Batch /\ calls[k] = "ended" /\ Answerable(k)
        /\ calls' = [calls EXCEPT ![k] = "answered"]
        /\ UNCHANGED <<turn, base, context, serial>>
    BY <1>9 DEF Answer, Answerable, Mark
  <2>2. PICK a \in 0..Last(context).calls : AnsweredUpTo(a)
    BY <2>1 DEF BatchInv
  <2>3. k[2] = a + 1
    BY <1>0, <2>1, <2>2, AnsweredInOrder
  <2>4. Batch' = Batch /\ Last(context)' = Last(context)
    BY <2>1 DEF Batch
  <2>5. /\ \A j \in Batch : j[1] = turn /\ j[2] \in Nat /\ j = <<j[1], j[2]>>
        /\ k[2] \in 1..Last(context).calls /\ Last(context).calls \in Nat
    BY <1>0, <2>1, BatchCalls DEF Call
  <2>6. \A j \in Batch : j # k => j[2] # a + 1
    BY <1>0, <2>1, <2>3, <2>5
  <2>7. AnsweredUpTo(a + 1)'
    BY <1>0, <2>1, <2>2, <2>3, <2>4, <2>5, <2>6, BatchCalls DEF AnsweredUpTo
  <2>8. a + 1 \in 0..Last(context)'.calls
    BY <2>3, <2>4, <2>5
  <2>9. \A j \in Call : j[1] > turn => calls'[j] = "none"
    BY <1>0, <2>1, <2>5 DEF BatchInv
  <2>10. serial => \A j \in Batch : calls'[j] # "none" =>
                     \A l \in Earlier(j) : calls'[l] = "answered"
    BY <1>0, <2>1, BatchCalls DEF BatchInv
  <2> QED BY <2>1, <2>4, <2>7, <2>8, <2>9, <2>10 DEF BatchInv
<1>10. CASE Boundary
  BY <1>2, <1>10 DEF Boundary, Begin, AgentEnd, RunFails, Finish, Goto
<1>11. CASE UserStep
  BY <1>0, <1>1, <1>11, UserMoves DEF UserEffect
<1>12. ASSUME NEW c \in Callers, BeforeRun(c)
       PROVE  BatchInv'
  BY <1>0, <1>1, <1>12, BeforeRunMoves DEF BeforeRunEffect
<1>13. ASSUME NEW c \in Callers, Register(c)
       PROVE  BatchInv'
  BY <1>2, <1>13 DEF Register
<1>14. CASE UNCHANGED vars
  BY <1>0, <1>1, <1>14
<1> QED BY <1>3, <1>4, <1>5, <1>6, <1>7, <1>8, <1>9, <1>10, <1>11, <1>12, <1>13, <1>14,
           SortedSteps DEF LoopMove, RecordMove

\* The core holds in every state.
LEMMA CoreHolds == Spec => []CoreInv
<1>1. Init => CoreInv
  <2> SUFFICES ASSUME Init
               PROVE  CoreInv
    OBVIOUS
  <2> USE DEF Init
  <2>1. TypeOK
    <3>1. <<>> \in Seq(Msgs) /\ <<>> \in Seq(Rows)
      OBVIOUS
    <3>2. /\ queue \in [Queues -> Seq(Msgs)] /\ sent \in [Sources -> Seq(Msgs)]
          /\ hand \in [Callers -> Seq(Msgs)]
      BY <3>1
    <3>3. edits \in 0..MaxEdits /\ turn \in 0..MaxTurns /\ base \in 0..turn /\ ends \in 0..2
      OBVIOUS
    <3>4. /\ phase \in [Callers -> {"idle", "continuing", "admitted", "running"}]
          /\ skip \in [Callers -> BOOLEAN] /\ calls \in [Call -> CallStates]
          /\ update \subseteq Call /\ pc \in Steps
      BY DEF Steps, CallStates
    <3> QED BY <3>1, <3>2, <3>3, <3>4 DEF TypeOK
  <2>2. SlotInv
    BY DEF SlotInv
  <2>3. EndsInv /\ PendingInv
    BY DEF EndsInv, OneAgentEnd, PendingInv
  <2>4. BatchInv
    BY DEF BatchInv
  <2> QED BY <2>1, <2>2, <2>3, <2>4 DEF CoreInv
<1>2. CoreInv /\ [Next]_vars => CoreInv'
  <2> SUFFICES ASSUME CoreInv, [Next]_vars
               PROVE  CoreInv'
    OBVIOUS
  <2>1. TypeOK'
    <3>1. ASSUME NEW c \in Callers, BeforeRun(c) \/ Register(c)
          PROVE  TypeOK'
      BY <3>1, CallerTyped DEF CoreInv, BeforeRun, CallerStep
    <3>2. CASE UNCHANGED vars
      BY <3>2 DEF CoreInv, TypeOK
    <3> QED BY <3>1, <3>2, SortedSteps, LoopTyped, UserTyped DEF CoreInv, LoopMove
  <2> QED BY <2>1, ControlKept, BatchKept DEF CoreInv
<1> QED BY <1>1, <1>2, PTL DEF Spec

\* Every variable keeps its type: the rows, the queues, the calls and the count of
\* AgentEnds (the types of src/agent.rs and src/agent_loop/).
THEOREM TypeCorrect == Spec => []TypeOK
<1>1. CoreInv => TypeOK
  BY DEF CoreInv
<1> QED BY <1>1, CoreHolds, PTL

\* Whatever way a run ends, its AgentEnd has been delivered once when the slot is
\* given back, and twice only if a listener failed on the first (handle_run_failure).
THEOREM RunEndsOnce == Spec => []OneAgentEnd
<1>1. CoreInv => OneAgentEnd
  BY DEF CoreInv, EndsInv
<1> QED BY <1>1, CoreHolds, PTL

-----------------------------------------------------------------------------
(* NothingTakenIsDropped *)

\* The elements of a batch of prompts.
LEMMA UserRowsElements ==
  ASSUME NEW ms \in Seq(Msgs), NEW m \in Msgs
  PROVE  User(m) \in ToSet(UserRows(ms)) <=> m \in ToSet(ms)
<1>1. /\ DOMAIN UserRows(ms) = DOMAIN ms
      /\ \A i \in DOMAIN ms : UserRows(ms)[i] = User(ms[i]) /\ ms[i] \in Msgs
  BY UserRowsTyped DEF UserRows
<1> QED BY <1>1, UserRow DEF ToSet

\* What is appended is there, and what was there stays.
LEMMA AppendElements ==
  ASSUME NEW S, NEW s \in Seq(S), NEW e \in S
  PROVE  ToSet(Append(s, e)) = ToSet(s) \cup {e}
<1>1. /\ DOMAIN Append(s, e) = 1..(Len(s) + 1) /\ DOMAIN s = 1..Len(s) /\ Len(s) \in Nat
      /\ \A i \in 1..Len(s) : Append(s, e)[i] = s[i]
      /\ Append(s, e)[Len(s) + 1] = e
  OBVIOUS
<1> QED BY <1>1 DEF ToSet

\* An element of a sequence is the first or one of the others.
LEMMA HeadTailElements ==
  ASSUME NEW S, NEW s \in Seq(S), s # <<>>
  PROVE  ToSet(s) = {Head(s)} \cup ToSet(Tail(s))
<1>1. /\ Head(s) = s[1] /\ Len(s) \in Nat \ {0}
      /\ DOMAIN s = 1..Len(s) /\ DOMAIN Tail(s) = 1..(Len(s) - 1)
      /\ \A i \in 1..(Len(s) - 1) : Tail(s)[i] = s[i + 1]
  OBVIOUS
<1>2. ASSUME NEW i \in 1..Len(s)
      PROVE  s[i] \in {Head(s)} \cup ToSet(Tail(s))
  <2>1. CASE i = 1
    BY <1>1, <2>1
  <2>2. CASE i # 1
    <3>1. i - 1 \in 1..(Len(s) - 1) /\ (i - 1) + 1 = i
      BY <1>1, <2>2
    <3> QED BY <1>1, <3>1 DEF ToSet
  <2> QED BY <2>1, <2>2
<1>3. ASSUME NEW i \in 1..(Len(s) - 1)
      PROVE  Tail(s)[i] \in ToSet(s)
  BY <1>1 DEF ToSet
<1>4. Head(s) \in ToSet(s)
  BY <1>1 DEF ToSet
<1> QED BY <1>1, <1>2, <1>3, <1>4 DEF ToSet

\* Where a message that was taken may be after a step.
Kept(m) ==
  \/ m \in Taken' \/ User(m) \in ToSet(transcript')
  \/ aborted \/ failed'
  \/ owner # NoCaller /\ \E c \in Callers : m \in ToSet(hand[c])

\* A message in the hands of a caller goes into the run it registers; only a slot
\* taken by another run makes it lose it (run_with_lifecycle).
LEMMA HandKept ==
  ASSUME CoreInv, [Next]_vars, NEW c \in Callers, NEW m \in Msgs, m \in ToSet(hand[c])
  PROVE  Kept(m)
<1> USE DEF CoreInv
<1>0. /\ hand \in [Callers -> Seq(Msgs)] /\ hand[c] # <<>> /\ phase[c] = "admitted"
      /\ phase \in [Callers -> {"idle", "continuing", "admitted", "running"}]
  BY DEF TypeOK, SlotInv, ToSet
<1>1. CASE hand'[c] = hand[c]
  BY <1>1 DEF Kept, Taken
<1>2. CASE LoopMove \/ UserStep \/ UNCHANGED vars
  BY <1>1, <1>2, LoopMoves, UserMoves DEF LoopEffect, UserEffect
<1>3. CASE Boundary
  BY <1>1, <1>3 DEF Boundary, Begin, AgentEnd, RunFails, Finish
<1>4. ASSUME NEW d \in Callers, BeforeRun(d)
      PROVE  Kept(m)
  <2>1. CASE d # c
    BY <1>1, <1>4, <2>1, BeforeRunMoves DEF BeforeRunEffect
  <2>2. CASE d = c
    BY <1>0, <1>4, <2>2 DEF BeforeRun, Continue, TakeQueued, ContinueBare, Refused, Prompt, Kept
  <2> QED BY <2>1, <2>2
<1>5. ASSUME NEW d \in Callers, Register(d)
      PROVE  Kept(m)
  <2>1. CASE d # c
    BY <1>0, <1>1, <1>5, <2>1 DEF Register
  <2>2. CASE d = c
    <3>1. User(m) \in ToSet(pending')
      BY <1>0, <1>5, <2>2, UserRowsElements DEF Register
    <3> QED BY <3>1 DEF Kept, Taken
  <2> QED BY <2>1, <2>2
<1> QED BY <1>2, <1>3, <1>4, <1>5, SortedSteps

\* A message in the hands of the loop stays there until it is recorded, unless the
\* run was aborted or a listener failed (run_loop, handle_run_failure).
LEMMA PendingKept ==
  ASSUME CoreInv, [Next]_vars, NEW m \in Msgs, User(m) \in ToSet(pending)
  PROVE  Kept(m)
<1> USE DEF CoreInv
<1>0. /\ pending # <<>> /\ pending \in Seq(Rows) /\ transcript \in Seq(Rows)
      /\ failed \in BOOLEAN /\ pc \in {"start", "prompts", "turn", "deliver", "fail"}
  BY DEF TypeOK, PendingInv, ToSet
<1>1. CASE pending' = pending
  BY <1>1 DEF Kept, Taken
<1>2. CASE ToolMove \/ ControlMove \/ UserStep \/ UNCHANGED vars
  BY <1>1, <1>2, ToolMoves, ControlMoves, UserMoves DEF ControlEffect, UserEffect
<1>3. CASE Response \/ PollMove
  BY <1>0, <1>3, Responses, Polls DEF ResponseEffect, PollEffect
<1>4. CASE EmitPrompt \/ Deliver
  <2>1. /\ transcript' = Append(transcript, Head(pending)) /\ pending' = Tail(pending)
        /\ Head(pending) \in Rows
    BY <1>0, <1>4, Deliveries DEF DeliverEffect
  <2>2. User(m) = Head(pending) \/ User(m) \in ToSet(pending')
    BY <1>0, <2>1, HeadTailElements
  <2>3. Head(pending) \in ToSet(transcript')
    BY <1>0, <2>1, AppendElements
  <2> QED BY <2>2, <2>3 DEF Kept, Taken
<1>5. CASE ToolsDone \/ \E k \in Call : Answer(k)
  BY <1>0, <1>5 DEF ToolsDone, Answer
<1>6. CASE Boundary
  <2>1. CASE Begin \/ AgentEnd
    BY <1>1, <2>1 DEF Begin, AgentEnd
  <2>2. CASE RunFails
    BY <1>0, <2>2 DEF RunFails, PendingInv, Kept
  <2>3. CASE Finish
    BY <1>0, <2>3 DEF Finish
  <2> QED BY <1>6, <2>1, <2>2, <2>3 DEF Boundary
<1>7. ASSUME NEW c \in Callers, BeforeRun(c)
      PROVE  Kept(m)
  BY <1>1, <1>7, BeforeRunMoves DEF BeforeRunEffect
<1>8. ASSUME NEW c \in Callers, Register(c)
      PROVE  Kept(m)
  BY <1>0, <1>8 DEF Register, SlotInv
<1> QED BY <1>2, <1>3, <1>4, <1>5, <1>6, <1>7, <1>8, SortedSteps DEF LoopMove, RecordMove

\* A message that a run has taken from a queue or a caller reaches the transcript
\* however the run ends, unless the run was aborted, a listener failed or another
\* run got the slot before the caller's (run_loop, run_with_lifecycle).
THEOREM TakenIsKept == Spec => NothingTakenIsDropped
<1>1. CoreInv /\ [Next]_vars =>
        [\A m \in Taken :
           \/ m \in Taken' \/ User(m) \in ToSet(transcript')
           \/ aborted \/ failed'
           \/ owner # NoCaller /\ \E c \in Callers : m \in ToSet(hand[c])]_vars
  BY HandKept, PendingKept DEF Taken, Kept
<1> QED BY <1>1, CoreHolds, PTL DEF Spec, NothingTakenIsDropped

-----------------------------------------------------------------------------
(* ContextIsTranscript *)

\* The steps at which the loop's own list is the whole conversation.
Between == {"turn", "deliver", "streaming", "turnEnd", "stopHook", "steerPoll",
            "followPoll", "continuation"}

\* The loop's copy runs ahead of the transcript by the prompts that are not emitted
\* yet, and behind by the results of the batch at hand (run_loop).
ContextInv ==
  ~edited =>
    /\ pc = "prompts" => context = transcript \o pending
    /\ pc \in Between => context = transcript
    /\ pc = "tools" => transcript = context \o Results

\* As long as no call of the batch is answered the results are the same.
LEMMA SameResults ==
  ASSUME TypeOK, BatchInv, pc = "tools", UNCHANGED <<turn, context>>,
         \A k \in Call : calls'[k] = "answered" <=> calls[k] = "answered"
  PROVE  Results' = Results
<1>1. Batch' = Batch /\ Batch \subseteq Call
  BY BatchCalls DEF Batch
<1>2. {k \in Batch' : calls'[k] = "answered"} = {k \in Batch : calls[k] = "answered"}
  BY <1>1
<1>3. Cardinality({k \in Batch' : calls'[k] = "answered"})
        = Cardinality({k \in Batch : calls[k] = "answered"})
  BY <1>2
<1> QED BY <1>3 DEF Results

\* A batch begins without results.
LEMMA NoResults ==
  ASSUME \A k \in Batch' : calls'[k] # "answered"
  PROVE  Results' = <<>>
<1>1. {k \in Batch' : calls'[k] = "answered"} = {}
  OBVIOUS
<1>2. Cardinality({k \in Batch' : calls'[k] = "answered"}) = 0
  BY <1>1, FS_EmptySet
<1>3. Results' = [i \in 1..0 |-> Result(<<turn', i>>)]
  BY <1>2 DEF Results
<1> QED BY <1>3

\* The result that is recorded is the next in source order
\* (execute_tool_calls_parallel).
LEMMA NextResult ==
  ASSUME CoreInv, NEW k \in Call, Answer(k)
  PROVE  /\ Results \in Seq(Rows) /\ Result(k) \in Rows
         /\ Results' = Append(Results, Result(k))
<1> USE DEF CoreInv
<1>1. /\ pc = "tools" /\ k \in Batch /\ calls[k] = "ended" /\ Answerable(k)
      /\ calls' = [calls EXCEPT ![k] = "answered"] /\ UNCHANGED <<turn, context>>
  BY DEF Answer, Answerable, Mark
<1>2. PICK a \in 0..Last(context).calls :
        AnsweredUpTo(a) /\ Results = [i \in 1..a |-> Result(<<turn, i>>)]
  BY <1>1, ResultsTyped
<1>3. a \in Nat /\ k = <<turn, a + 1>> /\ Last(context).calls \in Nat
  BY <1>1, <1>2, AnsweredInOrder, BatchCalls DEF Call
<1> DEFINE done == {j \in Batch : calls[j] = "answered"}
<1>4. Batch' = Batch /\ Batch \subseteq Call /\ calls \in [Call -> CallStates]
  BY <1>1, BatchCalls DEF Batch, TypeOK
<1>5. {j \in Batch' : calls'[j] = "answered"} = done \cup {k} /\ k \notin done
  BY <1>1, <1>4
<1>6. IsFiniteSet(done) /\ Cardinality(done) = a
  <2> DEFINE f == [i \in 1..a |-> <<turn, i>>]
  <2>1. done = {<<turn, i>> : i \in 1..a}
    BY <1>2, <1>3 DEF AnsweredUpTo, Batch
  <2>2. f \in Bijection(1..a, done)
    <3>1. f \in [1..a -> done] /\ \A i, j \in 1..a : f[i] = f[j] => i = j
      BY <2>1
    <3>2. \A j \in done : \E i \in 1..a : f[i] = j
      BY <2>1
    <3> QED BY <3>1, <3>2 DEF Bijection, Injection, Surjection, IsInjective
  <2>3. ExistsBijection(1..a, done)
    BY <2>2 DEF ExistsBijection
  <2> QED BY <1>3, <2>3, FS_CountingElements, FS_NatBijection
<1>7. Cardinality(done \cup {k}) = a + 1
  BY <1>3, <1>5, <1>6, FS_AddElement
<1>8. Results' = [i \in 1..(a + 1) |-> Result(<<turn, i>>)]
  BY <1>1, <1>5, <1>7 DEF Results
<1>9. Results \in Seq(Rows) /\ Result(k) \in Rows
  BY <1>1, ResultsTyped, ResultRow
<1> QED BY <1>2, <1>3, <1>8, <1>9

\* The loop's copy stays in step with the transcript.
LEMMA ContextKept ==
  ASSUME CoreInv, ContextInv, [Next]_vars
  PROVE  ContextInv'
<1> USE DEF CoreInv
<1>0. /\ transcript \in Seq(Rows) /\ context \in Seq(Rows) /\ pending \in Seq(Rows)
      /\ edited \in BOOLEAN
  BY DEF TypeOK
<1>1. CASE ToolMove
  BY <1>1, ToolMoves, SameResults DEF ContextInv
<1>2. CASE ControlMove
  <2>1. ControlEffect
    BY <1>2, ControlMoves
  <2>2. pc = "tools" => Results' = Results
    BY <2>1, SameResults DEF ControlEffect
  <2> QED BY <2>1, <2>2 DEF ControlEffect, Onward, ContextInv, Between
<1>3. CASE Response
  <2>1. ResponseEffect
    BY <1>3, Responses
  <2>2. PICK row \in Rows :
          context' = Append(context, row) /\ transcript' = Append(transcript, row)
    BY <2>1 DEF ResponseEffect
  <2>3. ~edited => context' = transcript'
    BY <2>1, <2>2 DEF ResponseEffect, ContextInv, Between
  <2>4. ASSUME pc' = "tools"
        PROVE  Results' = <<>>
    <3>1. \A k \in Batch' : calls'[k] = "none"
      BY <2>1, <2>4, NewBatch
    <3> QED BY <3>1, NoResults
  <2>5. context' \in Seq(Rows) /\ context' \o <<>> = context'
    BY <1>0, <2>2, ConcatEmptySeq
  <2> QED BY <2>1, <2>3, <2>4, <2>5 DEF ResponseEffect, ContextInv, Between
<1>4. CASE PollMove
  <2>1. PollEffect
    BY <1>4, Polls
  <2>2. ~edited => context = transcript
    BY <1>0, <2>1, ConcatEmptySeq DEF PollEffect, ContextInv, Between
  <2> QED BY <2>1, <2>2 DEF PollEffect, ContextInv, Between
<1>5. CASE EmitPrompt \/ Deliver
  <2>1. DeliverEffect
    BY <1>5, Deliveries
  <2>2. /\ Head(pending) \in Rows /\ Tail(pending) \in Seq(Rows)
        /\ pending = <<Head(pending)>> \o Tail(pending)
    BY <1>0, <2>1 DEF DeliverEffect
  <2>3. transcript \o pending = Append(transcript, Head(pending)) \o Tail(pending)
    BY <1>0, <2>2, MovesAcross
  <2> QED BY <2>1, <2>3 DEF DeliverEffect, ContextInv, Between
<1>6. ASSUME NEW k \in Call, Answer(k)
      PROVE  ContextInv'
  <2>1. /\ pc = "tools" /\ pc' \in {"tools", "fail"} /\ UNCHANGED <<context, edited>>
        /\ transcript' = Append(transcript, Result(k))
    BY <1>6 DEF Answer, Emit, Goto, ListenerError
  <2>2. /\ Results \in Seq(Rows) /\ Result(k) \in Rows
        /\ Results' = Append(Results, Result(k))
    BY <1>6, NextResult
  <2>3. Append(context \o Results, Result(k)) = context \o Append(Results, Result(k))
    <3> DEFINE row == Result(k)
               rows == Results
    <3>1. row \in Rows /\ rows \in Seq(Rows) /\ context \in Seq(Rows)
      BY <1>0, <2>2
    <3> HIDE DEF row, rows
    <3>2. Append(context \o rows, row) = context \o Append(rows, row)
      BY ONLY SMTT(30), <3>1, AppendConcat
    <3> QED BY <3>2 DEF row, rows
  <2> QED BY <2>1, <2>2, <2>3 DEF ContextInv, Between
<1>7. CASE ToolsDone
  BY <1>7 DEF ToolsDone, Goto, ContextInv, Between
<1>8. CASE Boundary
  BY <1>8 DEF Boundary, Begin, AgentEnd, RunFails, Finish, Goto, ContextInv, Between
<1>9. CASE UserStep
  <2>1. UserEffect
    BY <1>9, UserMoves
  <2>2. UNCHANGED <<transcript, edited>> \/ edited'
    BY <1>9 DEF UserStep, Enqueue, ClearQueue, RemoveQueued, SetMode, Abort, AppendMessages, Reset
  <2>3. pc = "tools" => Results' = Results
    BY <2>1, SameResults DEF UserEffect
  <2> QED BY <2>1, <2>2, <2>3 DEF UserEffect, ContextInv
<1>10. ASSUME NEW c \in Callers, BeforeRun(c)
       PROVE  ContextInv'
  <2>1. BeforeRunEffect(c)
    BY <1>10, BeforeRunMoves
  <2>2. pc = "tools" => Results' = Results
    BY <2>1, SameResults DEF BeforeRunEffect
  <2> QED BY <2>1, <2>2 DEF BeforeRunEffect, ContextInv
<1>11. ASSUME NEW c \in Callers, Register(c)
       PROVE  ContextInv'
  BY <1>11 DEF Register, ContextInv, Between
<1>12. CASE UNCHANGED vars
  <2>1. Results' = Results
    BY <1>12 DEF Results, Batch
  <2> QED BY <1>12, <2>1 DEF ContextInv
<1> QED BY <1>1, <1>2, <1>3, <1>4, <1>5, <1>6, <1>7, <1>8, <1>9, <1>10, <1>11, <1>12,
           SortedSteps DEF LoopMove, RecordMove

-----------------------------------------------------------------------------
(* CallsAnswered *)

\* Row i of s, if it is an assistant message of the run at hand, is followed by
\* the results of its calls in source order.
AnsweredRow(s, i) ==
  s[i].kind = "assistant" /\ s[i].turn > base =>
    /\ i + s[i].calls <= Len(s)
    /\ \A j \in 1..s[i].calls : s[i + j] = Result(<<s[i].turn, j>>)

\* No row is of a turn to come, what the loop has in hand are messages of users
\* and hooks, and every call of the run is answered but for those of the batch
\* at hand, or of one that an abort cut short (run_loop).
CallsInv ==
  /\ \A i \in 1..Len(transcript) : transcript[i].kind = "assistant" => transcript[i].turn <= turn
  /\ \A i \in 1..Len(pending) : pending[i].kind \in {"user", "custom"}
  /\ ~edited /\ pc \in Between \cup {"prompts"} /\ (pc = "turnEnd" => ~aborted) =>
       \A i \in 1..Len(transcript) : AnsweredRow(transcript, i)
  /\ ~edited /\ pc = "tools" => \A i \in 1..(Len(context) - 1) : AnsweredRow(context, i)

\* A row that is no assistant message of the run with calls leaves the rows before
\* it answered.
LEMMA AnsweredAppend ==
  ASSUME NEW s \in Seq(Rows), NEW row \in Rows, base \in Nat,
         \A i \in 1..Len(s) : AnsweredRow(s, i)
  PROVE  /\ \A i \in 1..Len(s) : AnsweredRow(Append(s, row), i)
         /\ row.kind # "assistant" \/ row.calls = 0 =>
              \A i \in 1..Len(Append(s, row)) : AnsweredRow(Append(s, row), i)
<1> DEFINE t == Append(s, row)
<1>1. /\ t \in Seq(Rows) /\ Len(t) = Len(s) + 1 /\ Len(s) \in Nat
      /\ \A i \in 1..Len(s) : t[i] = s[i]
      /\ t[Len(s) + 1] = row
  OBVIOUS
<1> HIDE DEF t
<1>2. ASSUME NEW i \in 1..Len(s)
      PROVE  AnsweredRow(t, i)
  <2>1. s[i] \in Rows /\ AnsweredRow(s, i) /\ t[i] = s[i]
    BY <1>1
  <2>2. ASSUME s[i].kind = "assistant", s[i].turn > base
        PROVE  /\ i + s[i].calls <= Len(t)
               /\ \A j \in 1..s[i].calls : t[i + j] = Result(<<s[i].turn, j>>)
    <3>1. s[i].calls \in Nat /\ i + s[i].calls <= Len(s)
      BY <2>1, <2>2, RowKinds, UserRow DEF AnsweredRow
    <3>2. \A j \in 1..s[i].calls : i + j \in 1..Len(s) /\ s[i + j] = Result(<<s[i].turn, j>>)
      BY <1>1, <2>1, <2>2, <3>1 DEF AnsweredRow
    <3>3. \A j \in 1..s[i].calls : t[i + j] = s[i + j]
      BY <1>1, <3>2
    <3>4. i + s[i].calls <= Len(t)
      BY <1>1, <3>1
    <3> QED BY <3>2, <3>3, <3>4
  <2> QED BY <2>1, <2>2 DEF AnsweredRow
<1>3. ASSUME row.kind # "assistant" \/ row.calls = 0
      PROVE  AnsweredRow(t, Len(s) + 1)
  BY <1>1, <1>3 DEF AnsweredRow
<1>4. \A i \in 1..Len(t) : i \in 1..Len(s) \/ i = Len(s) + 1
  BY <1>1
<1> QED BY <1>2, <1>3, <1>4 DEF t

\* A row is answered in what follows as it was before: only rows are appended.
LEMMA LastAppend ==
  ASSUME NEW s \in Seq(Rows), NEW row \in Rows
  PROVE  /\ Append(s, row) \in Seq(Rows) /\ Len(Append(s, row)) = Len(s) + 1
         /\ \A i \in 1..Len(s) : Append(s, row)[i] = s[i]
         /\ Append(s, row)[Len(s) + 1] = row
OBVIOUS

\* When the batch is over, and was not cut short, its calls are answered too
\* (execute_tool_calls_parallel, execute_tool_calls_sequential).
LEMMA BatchAnswered ==
  ASSUME CoreInv, pc = "tools", \A k \in Batch : calls[k] = "answered",
         \A i \in 1..(Len(context) - 1) : AnsweredRow(context, i)
  PROVE  \A i \in 1..Len(context \o Results) : AnsweredRow(context \o Results, i)
<1> USE DEF CoreInv
<1>0. context \in Seq(Rows) /\ context # <<>> /\ Len(context) \in Nat \ {0} /\ turn \in Nat
  BY DEF TypeOK, BatchInv
<1>1. PICK n \in 1..MaxCalls : Last(context) = Assistant(turn, n)
  BY DEF BatchInv
<1>2. n \in Nat \ {0} /\ Last(context).calls = n /\ Last(context).turn = turn
  BY <1>1, AssistantRow
<1>3. PICK a \in 0..n : AnsweredUpTo(a) /\ Results = [i \in 1..a |-> Result(<<turn, i>>)]
  BY <1>2, ResultsTyped
<1>4. a = n
  <2>1. <<turn, n>> \in Batch /\ <<turn, n>>[2] = n
    BY <1>2 DEF Batch
  <2>2. n <= a
    BY <2>1, <1>3 DEF AnsweredUpTo
  <2> QED BY <1>2, <1>3, <2>2
<1> DEFINE rs == [i \in 1..n |-> Result(<<turn, i>>)]
           t == context \o rs
<1>5. rs \in Seq(Rows) /\ Len(rs) = n /\ \A i \in 1..n : rs[i] = Result(<<turn, i>>)
  BY <1>2, <1>3, <1>4, ResultsTyped
<1> HIDE DEF rs
<1>6. /\ Len(t) = Len(context) + n
      /\ \A i \in 1..Len(context) : t[i] = context[i]
      /\ \A i \in 1..n : t[Len(context) + i] = rs[i]
  <2>1. /\ Len(t) = Len(context) + Len(rs)
        /\ \A i \in 1..(Len(context) + Len(rs)) :
             t[i] = IF i <= Len(context) THEN context[i] ELSE rs[i - Len(context)]
    <3>1. context \in Seq(Rows) /\ rs \in Seq(Rows)
      BY <1>0, <1>5
    <3> QED BY ONLY <3>1, ConcatProperties
  <2> HIDE DEF t
  <2>2. \A i \in 1..n : Len(context) + i > Len(context) /\ (Len(context) + i) - Len(context) = i
    BY <1>0
  <2> QED BY <1>0, <1>2, <1>5, <2>1, <2>2
<1> HIDE DEF t
<1>7. ASSUME NEW i \in 1..Len(t)
      PROVE  AnsweredRow(t, i)
  <2>1. CASE i \in 1..(Len(context) - 1)
    <3>1. context[i] \in Rows /\ AnsweredRow(context, i) /\ t[i] = context[i]
      BY <1>0, <1>6, <2>1
    <3>2. ASSUME context[i].kind = "assistant", context[i].turn > base
          PROVE  /\ i + context[i].calls <= Len(t)
                 /\ \A j \in 1..context[i].calls :
                      t[i + j] = Result(<<context[i].turn, j>>)
      <4>1. context[i].calls \in Nat /\ i + context[i].calls <= Len(context)
        BY <3>1, <3>2, RowKinds, UserRow DEF AnsweredRow
      <4>2. \A j \in 1..context[i].calls :
              i + j \in 1..Len(context) /\ context[i + j] = Result(<<context[i].turn, j>>)
        BY SMTT(30), <1>0, <2>1, <3>1, <3>2, <4>1 DEF AnsweredRow
      <4>3. \A j \in 1..context[i].calls : t[i + j] = context[i + j]
        BY <1>6, <4>2
      <4>4. i + context[i].calls <= Len(t)
        BY <1>0, <1>2, <1>6, <4>1
      <4> QED BY <4>2, <4>3, <4>4
    <3> QED BY <3>1, <3>2 DEF AnsweredRow
  <2>2. CASE i = Len(context)
    <3>1. t[i] = Assistant(turn, n)
      BY <1>0, <1>1, <1>6, <2>2 DEF Last
    <3> QED BY <1>0, <1>1, <1>2, <1>5, <1>6, <2>2, <3>1 DEF AnsweredRow
  <2>3. CASE i > Len(context)
    <3>1. t[i] = Result(<<turn, i - Len(context)>>)
      BY <1>0, <1>2, <1>5, <1>6, <2>3
    <3>2. t[i].kind # "assistant"
      BY <3>1, ResultRow
    <3> QED BY <3>2 DEF AnsweredRow
  <2> QED BY <1>0, <2>1, <2>2, <2>3
<1> QED BY <1>3, <1>4, <1>7 DEF t, rs

\* Answered calls stay answered.
LEMMA CallsKept ==
  ASSUME CoreInv, ContextInv, CallsInv, [Next]_vars
  PROVE  CallsInv'
<1> USE DEF CoreInv
<1>0. /\ transcript \in Seq(Rows) /\ context \in Seq(Rows) /\ pending \in Seq(Rows)
      /\ turn \in 0..MaxTurns /\ base \in 0..turn /\ base \in Nat
      /\ edited \in BOOLEAN /\ aborted \in BOOLEAN
  BY DEF TypeOK
<1>1. ASSUME UNCHANGED <<transcript, pending, context, turn, base, edited>>,
             aborted => aborted',
             \/ pc' = pc
             \/ pc' \in Between /\ pc \in Between \cup {"prompts"} /\ (pc # "turnEnd" \/ ~aborted)
             \/ pc' \notin Between \cup {"prompts", "tools"}
      PROVE  CallsInv'
  BY <1>1 DEF CallsInv, AnsweredRow, Between
<1>2. CASE ToolMove
  BY <1>1, <1>2, ToolMoves
<1>3. CASE ControlMove
  BY <1>0, <1>1, <1>3, ControlMoves DEF ControlEffect, Onward, Between
<1>4. CASE Response
  <2>1. ResponseEffect
    BY <1>4, Responses
  <2>2. PICK row \in Rows :
          /\ context' = Append(context, row) /\ transcript' = Append(transcript, row)
          /\ \/ row = Failure /\ pc' \in {"fail", "agentEnd"} /\ turn' = turn
             \/ \E n \in 0..MaxCalls :
                  /\ row = Assistant(turn + 1, n) /\ turn' = turn + 1
                  /\ pc' \in (IF n = 0 THEN {"fail", "turnEnd"} ELSE {"fail", "tools"})
    BY <2>1 DEF ResponseEffect
  <2>3. row.kind = "assistant" /\ row.turn <= turn' /\ turn <= turn' /\ turn' \in Nat
        /\ (pc' = "turnEnd" => row.calls = 0)
    BY <1>0, <2>2, FailureRow, AssistantRow
  <2>4. /\ Len(transcript') = Len(transcript) + 1 /\ Len(context') = Len(context) + 1
        /\ \A i \in 1..Len(transcript) : transcript'[i] = transcript[i]
        /\ transcript'[Len(transcript) + 1] = row
    BY <1>0, <2>2, LastAppend
  <2>5. ASSUME NEW i \in 1..Len(transcript'), transcript'[i].kind = "assistant"
        PROVE  transcript'[i].turn <= turn'
    <3>1. CASE i \in 1..Len(transcript)
      <4>1. transcript[i] \in Rows /\ transcript[i].kind = "assistant"
        BY <1>0, <2>4, <2>5, <3>1
      <4>2. transcript[i].turn \in Nat /\ transcript[i].turn <= turn
        BY <3>1, <4>1, RowKinds, UserRow DEF CallsInv
      <4> QED BY <1>0, <2>3, <2>4, <3>1, <4>2
    <3>2. CASE i = Len(transcript) + 1
      BY <2>3, <2>4, <3>2
    <3> QED BY <1>0, <2>4, <3>1, <3>2
  <2>6. /\ ~edited => context = transcript /\ (\A i \in 1..Len(transcript) : AnsweredRow(transcript, i))
        /\ UNCHANGED <<base, edited, pending>> /\ pc' \in {"fail", "agentEnd", "turnEnd", "tools"}
    BY <2>1 DEF ResponseEffect, CallsInv, ContextInv, Between
  <2>7. ASSUME ~edited', pc' = "turnEnd"
        PROVE  \A i \in 1..Len(transcript') : AnsweredRow(transcript, i)'
    <3>1. \A i \in 1..Len(Append(transcript, row)) : AnsweredRow(Append(transcript, row), i)
      BY <1>0, <2>3, <2>6, <2>7, AnsweredAppend
    <3> QED BY <2>2, <2>6, <3>1 DEF AnsweredRow
  <2>8. ASSUME ~edited', pc' = "tools"
        PROVE  \A i \in 1..(Len(context') - 1) : AnsweredRow(context, i)'
    <3>1. \A i \in 1..Len(context) : AnsweredRow(Append(context, row), i)
      BY <1>0, <2>6, <2>8, AnsweredAppend
    <3>2. Len(context') - 1 = Len(context)
      BY <1>0, <2>4
    <3> QED BY <2>2, <2>6, <3>1, <3>2 DEF AnsweredRow
  <2> QED BY <2>5, <2>6, <2>7, <2>8 DEF CallsInv, Between
<1>5. CASE PollMove
  <2>1. PollEffect
    BY <1>5, Polls
  <2>2. \A i \in 1..Len(pending') : pending'[i].kind \in {"user", "custom"}
    <3>1. CASE pending' = <<>> \/ pending' = <<Continuation>>
      BY <3>1, NoteRow
    <3>2. ASSUME NEW q \in Queues, pending' = UserRows(Take(q).got)
          PROVE  \A i \in 1..Len(pending') : pending'[i].kind \in {"user", "custom"}
      <4>1. Take(q).got \in Seq(Msgs)
        BY TakeSplits
      <4> QED BY <3>2, <4>1, UserRowsTyped, UserRow
    <3> QED BY <2>1, <3>1, <3>2 DEF PollEffect
  <2> QED BY <2>1, <2>2 DEF PollEffect, CallsInv, AnsweredRow, Between
<1>6. CASE EmitPrompt \/ Deliver
  <2>1. DeliverEffect
    BY <1>6, Deliveries
  <2>2. /\ Head(pending) \in Rows /\ Head(pending).kind \in {"user", "custom"}
        /\ \A i \in 1..Len(Tail(pending)) : Tail(pending)[i].kind \in {"user", "custom"}
    BY <1>0, <2>1 DEF DeliverEffect, CallsInv
  <2>3. /\ transcript' = Append(transcript, Head(pending)) /\ pending' = Tail(pending)
        /\ UNCHANGED <<turn, base, edited>> /\ pc' \in {pc, "fail"} /\ pc \in {"prompts", "deliver"}
    BY <2>1 DEF DeliverEffect
  <2>4. /\ Len(transcript') = Len(transcript) + 1
        /\ \A i \in 1..Len(transcript) : transcript'[i] = transcript[i]
        /\ transcript'[Len(transcript) + 1] = Head(pending)
    BY <1>0, <2>2, <2>3, LastAppend
  <2>5. \A i \in 1..Len(transcript') : transcript'[i].kind = "assistant" => transcript'[i].turn <= turn'
    BY <1>0, <2>2, <2>3, <2>4 DEF CallsInv
  <2>6. ASSUME ~edited
        PROVE  \A i \in 1..Len(transcript') : AnsweredRow(transcript, i)'
    <3>1. \A i \in 1..Len(transcript) : AnsweredRow(transcript, i)
      BY <2>3, <2>6 DEF CallsInv, Between
    <3>2. \A i \in 1..Len(Append(transcript, Head(pending))) :
            AnsweredRow(Append(transcript, Head(pending)), i)
      BY <1>0, <2>2, <3>1, AnsweredAppend
    <3> QED BY <2>3, <3>2 DEF AnsweredRow
  <2> QED BY <2>2, <2>3, <2>5, <2>6 DEF CallsInv, Between
<1>7. ASSUME NEW k \in Call, Answer(k)
      PROVE  CallsInv'
  <2>1. /\ pc = "tools" /\ pc' \in {"tools", "fail"} /\ Result(k) \in Rows
        /\ UNCHANGED <<context, edited, turn, base, pending>>
        /\ transcript' = Append(transcript, Result(k))
    BY <1>7, ResultRow DEF Answer, Emit, Goto, ListenerError
  <2>2. /\ Len(transcript') = Len(transcript) + 1
        /\ \A i \in 1..Len(transcript) : transcript'[i] = transcript[i]
        /\ transcript'[Len(transcript) + 1].kind = "result"
    BY <1>0, <2>1, LastAppend, ResultRow
  <2>3. \A i \in 1..Len(transcript') : transcript'[i].kind = "assistant" => transcript'[i].turn <= turn'
    BY <1>0, <2>1, <2>2 DEF CallsInv
  <2> QED BY <2>1, <2>3 DEF CallsInv, AnsweredRow, Between
<1>8. CASE ToolsDone
  <2>1. /\ pc = "tools" /\ pc' = "turnEnd" /\ context' = context \o Results
        /\ UNCHANGED <<transcript, edited, turn, base, pending, aborted>>
        /\ ~aborted => \A k \in Batch : calls[k] = "answered"
    BY <1>8 DEF ToolsDone, Goto
  <2>2. ASSUME ~edited, ~aborted
        PROVE  \A i \in 1..Len(transcript) : AnsweredRow(transcript, i)
    BY <2>1, <2>2, BatchAnswered DEF CallsInv, ContextInv
  <2> QED BY <2>1, <2>2 DEF CallsInv, AnsweredRow, Between
<1>9. CASE Boundary
  <2>1. CASE Begin
    <3>1. \A i \in 1..Len(transcript) : AnsweredRow(transcript, i)
      <4>1. base = turn
        BY <2>1 DEF Begin, SlotInv
      <4>2. ASSUME NEW i \in 1..Len(transcript), transcript[i].kind = "assistant"
            PROVE  ~(transcript[i].turn > base)
        <5>1. transcript[i] \in Rows
          BY <1>0
        <5>2. transcript[i].turn \in Nat /\ transcript[i].turn <= turn
          BY <4>2, <5>1, RowKinds, UserRow DEF CallsInv
        <5> QED BY <1>0, <4>1, <5>2
      <4> QED BY <4>2 DEF AnsweredRow
    <3> QED BY <2>1, <3>1 DEF Begin, CallsInv, AnsweredRow, Between
  <2>2. CASE AgentEnd
    BY <1>1, <2>2 DEF AgentEnd, Between
  <2>3. CASE RunFails
    <3>1. /\ transcript' = Append(transcript, Failure) /\ pending' = <<>> /\ pc' = "finish"
          /\ turn' = turn
      BY <2>3 DEF RunFails
    <3>2. /\ Len(transcript') = Len(transcript) + 1
          /\ \A i \in 1..Len(transcript) : transcript'[i] = transcript[i]
          /\ transcript'[Len(transcript) + 1].turn = 0
      BY <1>0, <3>1, LastAppend, FailureRow
    <3>3. \A i \in 1..Len(transcript') : transcript'[i].kind = "assistant" => transcript'[i].turn <= turn'
      BY <1>0, <3>1, <3>2 DEF CallsInv
    <3> QED BY <3>1, <3>3 DEF CallsInv, Between
  <2>4. CASE Finish
    BY <2>4 DEF Finish, Goto, CallsInv, Between
  <2> QED BY <1>9, <2>1, <2>2, <2>3, <2>4 DEF Boundary
<1>10. CASE UserStep
  <2>1. UserEffect
    BY <1>10, UserMoves
  <2>2. CASE UNCHANGED <<transcript, edited>>
    BY <1>1, <2>1, <2>2 DEF UserEffect
  <2>3. CASE AppendMessages
    <3>1. transcript' = Append(transcript, Note) /\ edited'
      BY <2>3 DEF AppendMessages
    <3>2. /\ Len(transcript') = Len(transcript) + 1
          /\ \A i \in 1..Len(transcript) : transcript'[i] = transcript[i]
          /\ transcript'[Len(transcript) + 1].kind = "note"
      BY <1>0, <3>1, LastAppend, NoteRow
    <3>3. \A i \in 1..Len(transcript') : transcript'[i].kind = "assistant" => transcript'[i].turn <= turn'
      BY <1>0, <2>1, <3>1, <3>2 DEF CallsInv, UserEffect
    <3> QED BY <2>1, <3>1, <3>3 DEF CallsInv, UserEffect
  <2>4. CASE Reset
    BY <2>1, <2>4 DEF Reset, CallsInv, UserEffect
  <2> QED BY <1>10, <2>2, <2>3, <2>4 DEF UserStep, Enqueue, ClearQueue, RemoveQueued, SetMode, Abort
<1>11. ASSUME NEW c \in Callers, BeforeRun(c)
       PROVE  CallsInv'
  BY <1>1, <1>11, BeforeRunMoves DEF BeforeRunEffect
<1>12. ASSUME NEW c \in Callers, Register(c)
       PROVE  CallsInv'
  <2>1. hand[c] \in Seq(Msgs)
    BY DEF TypeOK
  <2>2. \A i \in 1..Len(UserRows(hand[c])) : UserRows(hand[c])[i].kind = "user"
    BY <2>1, UserRowsTyped, UserRow
  <2> QED BY <1>12, <2>2 DEF Register, CallsInv, Between
<1>13. CASE UNCHANGED vars
  BY <1>0, <1>1, <1>13
<1> QED BY <1>2, <1>3, <1>4, <1>5, <1>6, <1>7, <1>8, <1>9, <1>10, <1>11, <1>12, <1>13,
           SortedSteps DEF LoopMove, RecordMove

\* The conversation holds together in every state.
LEMMA ConversationHolds == Spec => [](ContextInv /\ CallsInv)
<1>1. Init => ContextInv /\ CallsInv
  BY DEF Init, ContextInv, CallsInv, Between
<1>2. CoreInv /\ ContextInv /\ CallsInv /\ [Next]_vars => ContextInv' /\ CallsInv'
  BY ContextKept, CallsKept
<1> QED BY <1>1, <1>2, CoreHolds, PTL DEF Spec

\* The model is asked about exactly what the user sees, unless somebody else changed
\* the transcript during the run (run_loop, process_events).
THEOREM ModelSeesTranscript == Spec => []ContextIsTranscript
<1>1. ContextInv => ContextIsTranscript
  BY DEF ContextInv, ContextIsTranscript, Between
<1> QED BY <1>1, ConversationHolds, PTL

\* No request leaves with a call of this run unanswered, and the results stand
\* behind their message in source order (src/agent_loop/tools.rs).
THEOREM EveryCallAnswered == Spec => []CallsAnswered
<1>1. CoreInv /\ CallsInv => CallsAnswered
  <2> SUFFICES ASSUME CoreInv, CallsInv, pc = "streaming", ~edited,
                      NEW i \in 1..Len(transcript), transcript[i].kind = "assistant",
                      transcript[i].turn > base
               PROVE  SubSeq(transcript, i + 1, i + transcript[i].calls)
                        = [j \in 1..transcript[i].calls |-> Result(<<transcript[i].turn, j>>)]
    BY DEF CallsAnswered
  <2> DEFINE row == transcript[i]
  <2>1. row \in Rows /\ transcript \in Seq(Rows) /\ i \in Nat /\ row.kind = "assistant"
    BY DEF CoreInv, TypeOK
  <2>2. row.calls \in Nat
    BY <2>1, RowKinds, UserRow
  <2>3. AnsweredRow(transcript, i)
    BY DEF CallsInv, Between
  <2>4. /\ i + row.calls <= Len(transcript)
        /\ \A j \in 1..row.calls : transcript[i + j] = Result(<<row.turn, j>>)
    BY <2>1, <2>3 DEF AnsweredRow
  <2> DEFINE n == row.calls
             sub == SubSeq(transcript, i + 1, i + n)
  <2>5. n \in Nat /\ i + 1 \in Int /\ i + n \in Int
        /\ \A l \in (i + 1)..(i + n) : transcript[l] \in Rows
    BY <2>1, <2>2, <2>4
  <2> HIDE DEF n
  <2>6. /\ sub \in Seq(Rows)
        /\ Len(sub) = IF i + 1 <= i + n THEN (i + n) - (i + 1) + 1 ELSE 0
        /\ \A j \in 1..((i + n) - (i + 1) + 1) : sub[j] = transcript[(i + 1) + j - 1]
    BY <2>5, SubSeqProperties
  <2> HIDE DEF sub
  <2>7. Len(sub) = n /\ \A j \in 1..n : sub[j] = transcript[i + j]
    BY <2>1, <2>5, <2>6
  <2>8. sub = [j \in 1..n |-> sub[j]]
    BY <2>6, <2>7
  <2> QED BY <2>4, <2>7, <2>8 DEF n, sub
<1> QED BY <1>1, CoreHolds, ConversationHolds, PTL

=============================================================================
