------------------------------ MODULE TurnQueue ------------------------------
(***************************************************************************)
(* The live queue of a worker: the two lanes of queued input, the turn      *)
(* runner that drains them (crates/pa-daemon/src/worker/turn.rs, queue.rs), *)
(* the commands that fill, edit, suspend and resume them (input.rs,         *)
(* commands.rs, lifecycle.rs, ../queue_commands.rs), manual compaction      *)
(* (../compaction.rs) and prompt admissions (../prompt_admission.rs).       *)
(*                                                                         *)
(* The worker spawns every command, so a step is one section of the core    *)
(* lock, or one use of a Notify; the sections of two commands interleave.   *)
(* Every prompt is a prompt_and_wait with an admission id.  What a turn     *)
(* does is left to the engine; the recovery journal is QueueJournal.        *)
(***************************************************************************)
EXTENDS Naturals, FiniteSets, SequencesExt

CONSTANTS
  Inputs,     \* the inputs of a run, each sent once
  Slots,      \* commands that may be in dispatch at the same time
  Loads,      \* what the clients of one run may send, see LoadAssumption
  AllSteering, AllFollowUps, \* queue mode "all" of a lane, else "one-at-a-time"
  MaxArrivals \* rows change lanes only until a lane was entered so often

Lanes == {"steering", "followUp"}

\* The lane of a prompt is its streamingBehavior, "none" for a plain prompt.
AllSources ==
  [cmd : {"prompt"}, lane : Lanes \cup {"none"}]
    \cup [cmd : {"queue", "message", "inject"}, lane : Lanes]
AllCommands ==
  {"abort", "abort_send", "abort_clear", "clear", "delete", "relane", "resume",
   "compact", "cancel", "pause", "wait", "kill", "shutdown"}

\* The inputs and the slots in use, the sources of the inputs, the commands.
ASSUME LoadAssumption ==
  Loads \subseteq [inputs : SUBSET Inputs, slots : SUBSET Slots,
                   sources : SUBSET AllSources, commands : SUBSET AllCommands]
ASSUME ModeAssumption == AllSteering \in BOOLEAN /\ AllFollowUps \in BOOLEAN
ASSUME BoundAssumption == MaxArrivals \in Nat

VARIABLES
  lanes,    \* lanes[l]: the queued items, front first
  core,     \* the flags of SessionCore
  paused,   \* an input pause is held (InputPause)
  runner,   \* the turn runner: where it is, its batch and the lane it came from
  permit,   \* the permit that work_notify.notify_one stored
  task,     \* task[i]: the command that carries input i
  op,       \* op[o]: any other command in dispatch
  adm,      \* adm[i]: WorkerAdmissions
  fate,     \* fate[i]: what the input was told
  arrivals, \* how often an input entered a lane so far
  load      \* the load of this run: it never changes

vars == <<lanes, core, paused, runner, permit, task, op, adm, fate, arrivals>>

Policies == {"queued", "injected", "direct"}
Items == [id : Inputs, policy : Policies, visible : BOOLEAN, armed : BOOLEAN, at : Nat]

CoreFlags == {"busy", "suspended", "compacting", "abort", "forced", "created", "closing"}

NoOp == [pc |-> "idle"]
OpStates ==
  [pc : {"idle", "suspend", "resume", "wake", "drain", "ready", "compacting", "compacted",
         "close", "watch", "unregistered", "settle"}]
    \cup [pc : {"abort", "withdraw", "flow"}, send : BOOLEAN]
    \cup [pc : {"drop", "stop"}, target : Inputs]
    \cup [pc : {"waiting", "settling", "asleep"}, woken : BOOLEAN]

TypeOK ==
  /\ lanes \in [Lanes -> Seq(Items)]
  /\ core \in [CoreFlags -> BOOLEAN]
  /\ runner \in [pc : {"check", "picked", "turn", "settle", "park", "asleep", "leave", "gone"},
                 batch : Seq(Items), lane : Lanes]
  /\ paused \in BOOLEAN /\ permit \in BOOLEAN
  /\ task \in [Inputs -> [pc : {"new", "register", "resume", "enqueue", "notify", "end"},
                          cmd : {"prompt", "queue", "message", "inject"}, lane : Lanes \cup {"none"}]]
  /\ op \in [Slots -> OpStates]
  /\ adm \in [Inputs -> {"none", "waiting", "owned", "cancelled"}]
  /\ fate \in [Inputs -> {"new", "settled", "withdrawn", "refused"}]
  /\ arrivals \in Nat

Init ==
  /\ lanes = [l \in Lanes |-> <<>>]
  /\ core = [f \in CoreFlags |-> f = "created"]
  /\ paused = FALSE /\ permit = FALSE /\ arrivals = 0
  /\ runner = [pc |-> "check", batch |-> <<>>, lane |-> "steering"]
  /\ load \in Loads
  /\ task \in [Inputs -> [pc : {"new", "end"}, cmd : {s.cmd : s \in load.sources},
                          lane : {s.lane : s \in load.sources}]]
  /\ \A i \in Inputs : [cmd |-> task[i].cmd, lane |-> task[i].lane] \in load.sources
  /\ \A i \in Inputs : task[i].pc = "new" <=> i \in load.inputs
  /\ op = [o \in Slots |-> NoOp]
  /\ adm = [i \in Inputs |-> "none"] /\ fate = [i \in Inputs |-> "new"]

-----------------------------------------------------------------------------
(* Helpers *)

IdsOf(q) == {x.id : x \in ToSet(q)}
QueuedIn(l) == IdsOf(lanes[l])
Queued == QueuedIn("steering") \cup QueuedIn("followUp")
Batch == IdsOf(runner.batch)

Open == core.created /\ ~core.closing

Rank(x) == IF x.policy = "injected" THEN 0 ELSE 1

InsertedAfter(q, n, x) == SubSeq(q, 1, n) \o <<x>> \o SubSeq(q, n + 1, Len(q))

\* Mutant: a new item passes those of its own rank.
Enqueued_Lifo(q, x) ==
  InsertedAfter(q, CHOOSE n \in 0..Len(q) :
                     /\ n = 0 \/ Rank(q[n]) > Rank(x)
                     /\ \A j \in (n + 1)..Len(q) : Rank(q[j]) <= Rank(x), x)

\* enqueue_priority: in front of the lower-priority suffix only.
Enqueued(q, x) ==
  InsertedAfter(q, CHOOSE n \in 0..Len(q) :
                     /\ n = 0 \/ Rank(q[n]) >= Rank(x)
                     /\ \A j \in (n + 1)..Len(q) : Rank(q[j]) < Rank(x), x)

Goto(i, pc) == task' = [task EXCEPT ![i].pc = pc]
OpGoto(o, pc) == op' = [op EXCEPT ![o] = [pc |-> pc]]
OpEnds(o) == OpGoto(o, "idle")

\* The k-th place of P.
Nth(P, k) == CHOOSE j \in P : Cardinality({h \in P : h < j}) = k - 1

\* The inputs of S leave their lanes without a turn; the rest keeps its order.
Without(q, S) ==
  LET kept == {j \in DOMAIN q : q[j].id \notin S}
  IN [k \in 1..Cardinality(kept) |-> q[Nth(kept, k)]]
Withdraw(S) ==
  /\ lanes' = [l \in Lanes |-> Without(lanes[l], S)]
  /\ fate' = [i \in Inputs |-> IF i \in S THEN "withdrawn" ELSE fate[i]]

\* Mutant: every command keeps the notification, whatever it is at.
IdleNotified_Stored == [o \in Slots |-> [pc |-> op[o].pc, woken |-> TRUE]]

\* idle_notify.notify_waiters: who is not registered yet is not woken.
IdleNotified ==
  [o \in Slots |-> IF op[o].pc \in {"waiting", "settling", "asleep"}
                   THEN [op[o] EXCEPT !.woken = TRUE] ELSE op[o]]

-----------------------------------------------------------------------------
(* Input: handle_prompt, handle_queue, handle_worker_deliver_message, goals *)

\* A plain prompt on a suspended idle session is refused; one that names a
\* streaming behaviour resumes it.
PromptGate(i) ==
  /\ task[i].pc = "new" /\ task[i].cmd = "prompt" /\ Open
  /\ \/ /\ core.suspended /\ ~core.busy /\ task[i].lane = "none"
        /\ fate' = [fate EXCEPT ![i] = "refused"]
        /\ Goto(i, "end")
        /\ UNCHANGED core
     \/ /\ ~(core.suspended /\ ~core.busy /\ task[i].lane = "none")
        /\ core' = [core EXCEPT !.suspended = @ /\ core.busy]
        /\ Goto(i, "register")
        /\ UNCHANGED fate
  /\ UNCHANGED <<lanes, paused, runner, permit, op, adm, arrivals>>

Register(i) ==
  /\ task[i].pc = "register"
  /\ adm' = [adm EXCEPT ![i] = "waiting"]
  /\ Goto(i, "enqueue")
  /\ UNCHANGED <<lanes, core, paused, runner, permit, op, fate, arrivals>>

\* handle_queue resumes first.
QueueResume(i) ==
  /\ task[i].pc = "new" /\ task[i].cmd = "queue" /\ Open
  /\ core' = [core EXCEPT !.suspended = FALSE]
  /\ permit' = TRUE
  /\ Goto(i, "enqueue")
  /\ UNCHANGED <<lanes, paused, runner, op, adm, fate, arrivals>>

\* A message resumes nothing; only a working session parks it.
MessageGate(i) ==
  /\ task[i].pc = "new" /\ task[i].cmd = "message" /\ Open
  /\ IF core.suspended /\ ~core.busy /\ ~core.compacting
     THEN Goto(i, "end") /\ fate' = [fate EXCEPT ![i] = "refused"]
     ELSE Goto(i, "enqueue") /\ UNCHANGED fate
  /\ UNCHANGED <<lanes, core, paused, runner, permit, op, adm, arrivals>>

\* The engine mints a continuation only for a session that is not closed.
InjectGate(i) ==
  /\ task[i].pc = "new" /\ task[i].cmd = "inject" /\ Open
  /\ Goto(i, "enqueue")
  /\ UNCHANGED <<lanes, core, paused, runner, permit, op, adm, fate, arrivals>>

\* An idle session's prompt is the next run; behind work it is a queued row.
ItemOf(i) ==
  [id |-> i, armed |-> FALSE, at |-> arrivals + 1,
   policy |-> CASE task[i].cmd = "prompt" -> IF core.busy THEN "queued" ELSE "direct"
                [] task[i].cmd = "queue" -> "queued"
                [] OTHER -> "injected",
   visible |-> CASE task[i].cmd = "prompt" -> core.busy
                 [] OTHER -> task[i].cmd # "inject"]
LaneOf(i) ==
  IF task[i].cmd # "prompt" \/ task[i].lane = "steering" THEN task[i].lane
  ELSE IF core.busy THEN "followUp" ELSE "steering"

Enqueue(i) ==
  /\ task[i].pc = "enqueue"
  /\ lanes' = [lanes EXCEPT ![LaneOf(i)] = Enqueued(@, ItemOf(i))]
  /\ arrivals' = arrivals + 1
  /\ Goto(i, "notify")
  /\ UNCHANGED <<core, paused, runner, permit, op, adm, fate>>

\* The checkpoint is written, then the runner is notified.
NotifyWork(i) ==
  /\ task[i].pc = "notify"
  /\ permit' = TRUE
  /\ Goto(i, "end")
  /\ UNCHANGED <<lanes, core, paused, runner, op, adm, fate, arrivals>>

-----------------------------------------------------------------------------
(* The turn runner *)

Parked == paused \/ core.suspended \/ core.compacting

\* Mutant: an armed batch is delivered by the mode of its lane.
Prefix_ByMode(q, forced, all) ==
  IF q[1].policy = "queued" /\ all
  THEN CHOOSE n \in 1..Len(q) :
         /\ \A j \in 2..n : q[j].policy = "queued"
         /\ n = Len(q) \/ q[n + 1].policy # "queued"
  ELSE 1

\* gather_delivery_batch: how many items of the front one turn delivers.
Prefix(q, forced, all) ==
  LET joins(x) == x.policy = "queued" /\ (forced => x.armed) IN
  IF q[1].policy = "queued" /\ (forced \/ all)
  THEN CHOOSE n \in 1..Len(q) :
         /\ \A j \in 2..n : joins(q[j])
         /\ n = Len(q) \/ ~joins(q[n + 1])
  ELSE 1

\* The runner takes a batch from the front of lane l.
PickUp(l) ==
  LET q == lanes[l]
      forced == l = "steering" /\ core.forced /\ q[1].armed
      n == Prefix(q, forced, IF l = "steering" THEN AllSteering ELSE AllFollowUps)
      disarmed == l = "steering" /\ ~\E j \in 1..Len(q) : q[j].armed
  IN /\ runner' = [pc |-> "picked", batch |-> SubSeq(q, 1, n), lane |-> l]
     /\ lanes' = [lanes EXCEPT ![l] = SubSeq(q, n + 1, Len(q))]
     /\ core' = [core EXCEPT !.busy = TRUE, !.abort = FALSE, !.forced = @ /\ ~disarmed]

\* Mutant: a shutdown does not stop the runner.
RunnerCheck_Restless ==
  /\ runner.pc = "check"
  /\ \/ ~Parked /\ lanes["steering"] # <<>> /\ PickUp("steering")
     \/ ~Parked /\ lanes["steering"] = <<>> /\ lanes["followUp"] # <<>> /\ PickUp("followUp")
     \/ /\ Parked \/ \A l \in Lanes : lanes[l] = <<>>
        /\ core' = [core EXCEPT !.busy = FALSE]
        /\ runner' = [runner EXCEPT !.pc = "park"]
        /\ UNCHANGED lanes
  /\ UNCHANGED <<paused, permit, task, op, adm, fate, arrivals>>

\* The loop head: shut down, parked, or a batch, steering before follow-ups.
RunnerCheck ==
  /\ runner.pc = "check"
  /\ \/ /\ core.closing
        /\ runner' = [runner EXCEPT !.pc = "leave"]
        /\ UNCHANGED <<lanes, core>>
     \/ /\ ~core.closing /\ ~Parked
        /\ \/ lanes["steering"] # <<>> /\ PickUp("steering")
           \/ lanes["steering"] = <<>> /\ lanes["followUp"] # <<>> /\ PickUp("followUp")
     \/ /\ ~core.closing
        /\ Parked \/ \A l \in Lanes : lanes[l] = <<>>
        /\ core' = [core EXCEPT !.busy = FALSE]
        /\ runner' = [runner EXCEPT !.pc = "park"]
        /\ UNCHANGED lanes
  /\ UNCHANGED <<paused, permit, task, op, adm, fate, arrivals>>

\* run_turn begins: the admissions of the batch commit.
TurnStarts ==
  /\ runner.pc = "picked"
  /\ adm' = [i \in Inputs |-> IF i \in Batch /\ adm[i] = "waiting" THEN "owned" ELSE adm[i]]
  /\ runner' = [runner EXCEPT !.pc = "turn"]
  /\ UNCHANGED <<lanes, core, paused, permit, task, op, fate, arrivals>>

\* Mutant: the waiting prompts are answered before the idle flip.
TurnEnds_AnswersEarly ==
  /\ runner.pc = "turn"
  /\ core' = core
  /\ fate' = [i \in Inputs |-> IF i \in Batch THEN "settled" ELSE fate[i]]
  /\ runner' = [runner EXCEPT !.pc = "settle"]
  /\ UNCHANGED <<lanes, paused, permit, task, op, adm, arrivals>>

\* The engine is done, one way or the other.
TurnEnds ==
  /\ runner.pc = "turn"
  /\ core' = [core EXCEPT !.busy = FALSE]
  /\ runner' = [runner EXCEPT !.pc = "settle"]
  /\ UNCHANGED <<lanes, paused, permit, task, op, adm, fate, arrivals>>

\* The checkpoint is written, waiters are told, admissions clear, and the
\* prompts of the batch are answered.
TurnSettles ==
  /\ runner.pc = "settle"
  /\ op' = IdleNotified
  /\ adm' = [i \in Inputs |-> IF i \in Batch THEN "none" ELSE adm[i]]
  /\ fate' = [i \in Inputs |-> IF i \in Batch THEN "settled" ELSE fate[i]]
  /\ runner' = [runner EXCEPT !.pc = "check", !.batch = <<>>]
  /\ UNCHANGED <<lanes, core, paused, permit, task, arrivals>>

\* No work: waiters are told, then the runner sleeps until it is notified.
RunnerParks ==
  /\ runner.pc \in {"park", "leave"}
  /\ op' = IdleNotified
  /\ runner' = [runner EXCEPT !.pc = IF @ = "park" THEN "asleep" ELSE "gone"]
  /\ UNCHANGED <<lanes, core, paused, permit, task, adm, fate, arrivals>>

RunnerWakes ==
  /\ runner.pc = "asleep" /\ permit
  /\ permit' = FALSE
  /\ runner' = [runner EXCEPT !.pc = "check"]
  /\ UNCHANGED <<lanes, core, paused, task, op, adm, fate, arrivals>>

Runner == RunnerCheck \/ TurnStarts \/ TurnEnds \/ TurnSettles \/ RunnerParks \/ RunnerWakes

-----------------------------------------------------------------------------
(* Commands *)

\* A command of this kind arrives in a free slot; most ask require_created.
Arrives(o, cmd) ==
  /\ cmd \in load.commands /\ o \in load.slots /\ op[o] = NoOp
  /\ cmd \in {"abort", "abort_send", "wait", "kill", "shutdown"} \/ Open

\* arm_forced_all_steering and the two sections of request_abort; without
\* the arm when an input pause is held or a shutdown is pending.
Abort(o) ==
  /\ Arrives(o, "abort") /\ op' = [op EXCEPT ![o] = [pc |-> "abort", send |-> FALSE]]
  /\ UNCHANGED <<lanes, core, paused, runner, permit, task, adm, fate, arrivals>>

Armable(x) == x.visible /\ x.policy = "queued"
Armed(q) == [j \in DOMAIN q |-> [q[j] EXCEPT !.armed = @ \/ Armable(q[j])]]

AbortSend(o) ==
  LET resumes == ~paused /\ ~core.closing
      arms == resumes /\ \E x \in ToSet(lanes["steering"]) : Armable(x)
  IN
  /\ Arrives(o, "abort_send")
  /\ op' = [op EXCEPT ![o] = [pc |-> "abort", send |-> resumes]]
  /\ core' = [core EXCEPT !.forced = @ \/ arms]
  /\ lanes' = IF ~arms THEN lanes
              ELSE [lanes EXCEPT !["steering"] = Armed(@)]
  /\ UNCHANGED <<paused, runner, permit, task, adm, fate, arrivals>>

AbortSuspends(o) ==
  /\ op[o].pc = "abort"
  /\ core' = [core EXCEPT !.abort = TRUE, !.suspended = TRUE]
  /\ op' = [op EXCEPT ![o].pc = "withdraw"]
  /\ UNCHANGED <<lanes, paused, runner, permit, task, adm, fate, arrivals>>

\* Mutant: the cancelled items stay in their lanes.
AbortWithdraws_Keeps(o) ==
  LET S == {x.id : x \in {y \in ToSet(lanes["steering"] \o lanes["followUp"]) : ~y.visible}} IN
  /\ op[o].pc = "withdraw"
  /\ fate' = [i \in Inputs |-> IF i \in S THEN "withdrawn" ELSE fate[i]]
  /\ op' = [op EXCEPT ![o] = IF @.send THEN [@ EXCEPT !.pc = "flow"] ELSE NoOp]
  /\ UNCHANGED <<lanes, core, paused, runner, permit, task, adm, arrivals>>

\* What is not a queue row is answered "Prompt aborted before delivery."
AbortWithdraws(o) ==
  LET S == {x.id : x \in {y \in ToSet(lanes["steering"] \o lanes["followUp"]) : ~y.visible}} IN
  /\ op[o].pc = "withdraw"
  /\ Withdraw(S)
  /\ adm' = [i \in Inputs |-> IF i \in S /\ adm[i] = "waiting" THEN "cancelled" ELSE adm[i]]
  /\ op' = [op EXCEPT ![o] = IF @.send THEN [@ EXCEPT !.pc = "flow"] ELSE NoOp]
  /\ UNCHANGED <<core, paused, runner, permit, task, arrivals>>

\* abort_and_send_queued goes on when the queue is not empty.
AbortFlows(o) ==
  /\ op[o].pc = "flow"
  /\ IF Queued = {} THEN OpEnds(o) ELSE OpGoto(o, "resume")
  /\ UNCHANGED <<lanes, core, paused, runner, permit, task, adm, fate, arrivals>>

\* resume_queued_input.
ResumeQueuedInput(o) ==
  /\ op[o].pc = "resume"
  /\ core' = [core EXCEPT !.suspended = FALSE]
  /\ permit' = TRUE
  /\ OpEnds(o)
  /\ UNCHANGED <<lanes, paused, runner, task, adm, fate, arrivals>>

ResumeQueue(o) ==
  /\ Arrives(o, "resume") /\ OpGoto(o, "resume")
  /\ UNCHANGED <<lanes, core, paused, runner, permit, task, adm, fate, arrivals>>

\* clear_queue hands the texts back; abort_and_clear_queue then suspends.
ClearQueue(o) ==
  /\ \/ Arrives(o, "clear") /\ UNCHANGED op
     \/ Arrives(o, "abort_clear") /\ OpGoto(o, "suspend")
  /\ Withdraw(Queued)
  /\ UNCHANGED <<core, paused, runner, permit, task, adm, arrivals>>

ClearSuspends(o) ==
  /\ op[o].pc = "suspend"
  /\ core' = [core EXCEPT !.abort = TRUE, !.suspended = TRUE]
  /\ OpEnds(o)
  /\ UNCHANGED <<lanes, paused, runner, permit, task, adm, fate, arrivals>>

\* mutate_queued_message: delete a row, or move it to the other lane's back,
\* where it arrives last.
MutateDelete(o, i) ==
  /\ Arrives(o, "delete") /\ i \in Queued
  /\ Withdraw({i})
  /\ OpGoto(o, "resume")
  /\ UNCHANGED <<core, paused, runner, permit, task, adm, arrivals>>

MutateLane(o, i) ==
  /\ Arrives(o, "relane") /\ arrivals < MaxArrivals
  /\ arrivals' = arrivals + 1
  /\ \E from, to \in Lanes : \E x \in ToSet(lanes[from]) :
       /\ from # to /\ x.id = i /\ x.policy # "injected"
       /\ lanes' = [lanes EXCEPT ![from] = Without(@, {i}), ![to] = Append(@, [x EXCEPT !.at = arrivals + 1])]
  /\ OpGoto(o, "resume")
  /\ UNCHANGED <<core, paused, runner, permit, task, adm, fate>>

\* cancel_prompt_admission: a waiting prompt is marked and then dropped, an
\* owned one is stopped when cancelOwned asks for it.
Cancel(o, i) ==
  /\ Arrives(o, "cancel")
  /\ \/ /\ adm[i] \in {"waiting", "cancelled"}
        /\ adm' = [adm EXCEPT ![i] = "cancelled"]
        /\ op' = [op EXCEPT ![o] = [pc |-> "drop", target |-> i]]
     \/ /\ adm[i] = "owned"
        /\ op' = [op EXCEPT ![o] = [pc |-> "stop", target |-> i]]
        /\ UNCHANGED adm
  /\ UNCHANGED <<lanes, core, paused, runner, permit, task, fate, arrivals>>

\* drop_queued_admitted_prompt, if it is still queued.
CancelDrops(o) ==
  /\ op[o].pc = "drop"
  /\ Withdraw({op[o].target} \cap Queued)
  /\ OpEnds(o)
  /\ UNCHANGED <<core, paused, runner, permit, task, adm, arrivals>>

CancelStops(o) ==
  /\ op[o].pc = "stop"
  /\ core' = [core EXCEPT !.abort = TRUE]
  /\ OpEnds(o)
  /\ UNCHANGED <<lanes, paused, runner, permit, task, adm, fate, arrivals>>

\* An input pause is taken, or lifted and the runner notified.
Pause(o) ==
  /\ Arrives(o, "pause")
  /\ paused' = ~paused
  /\ IF paused THEN OpGoto(o, "wake") ELSE UNCHANGED op
  /\ UNCHANGED <<lanes, core, runner, permit, task, adm, fate, arrivals>>

Wake(o) ==
  /\ op[o].pc = "wake"
  /\ permit' = TRUE
  /\ OpEnds(o)
  /\ UNCHANGED <<lanes, core, paused, runner, task, adm, fate, arrivals>>

-----------------------------------------------------------------------------
(* compact *)

Compact(o) ==
  /\ Arrives(o, "compact")
  /\ core' = [core EXCEPT !.suspended = TRUE]
  /\ OpGoto(o, "drain")
  /\ UNCHANGED <<lanes, paused, runner, permit, task, adm, fate, arrivals>>

\* wait_for_turn_end looks again every 50 ms.
CompactDrains(o) ==
  /\ op[o].pc = "drain"
  /\ IF core.busy THEN core' = [core EXCEPT !.abort = TRUE] /\ UNCHANGED op
     ELSE OpGoto(o, "ready") /\ UNCHANGED core
  /\ UNCHANGED <<lanes, paused, runner, permit, task, adm, fate, arrivals>>

CompactBegins(o) ==
  /\ op[o].pc = "ready"
  /\ core' = [core EXCEPT !.compacting = TRUE]
  /\ OpGoto(o, "compacting")
  /\ UNCHANGED <<lanes, paused, runner, permit, task, adm, fate, arrivals>>

\* The summary is persisted, or the run failed or was aborted.
CompactEnds(o) ==
  /\ op[o].pc = "compacting"
  /\ core' = [core EXCEPT !.compacting = FALSE]
  /\ OpGoto(o, "compacted")
  /\ UNCHANGED <<lanes, paused, runner, permit, task, adm, fate, arrivals>>

\* Mutant: no wake at the tail of a compaction.
CompactNotifies_Silent(o) ==
  /\ op[o].pc = "compacted"
  /\ \E pc \in {"idle", "resume"} : op' = [IdleNotified EXCEPT ![o] = [pc |-> pc]]
  /\ UNCHANGED <<lanes, core, paused, runner, permit, task, adm, fate, arrivals>>

\* Mutant: who waits for the session is not told.
CompactNotifies_WorkOnly(o) ==
  /\ op[o].pc = "compacted"
  /\ permit' = TRUE
  /\ \E pc \in {"idle", "resume"} : OpGoto(o, pc)
  /\ UNCHANGED <<lanes, core, paused, runner, task, adm, fate, arrivals>>

\* Both notifies; a session with an active goal is resumed.
CompactNotifies(o) ==
  /\ op[o].pc = "compacted"
  /\ permit' = TRUE
  /\ \E pc \in {"idle", "resume"} : op' = [IdleNotified EXCEPT ![o] = [pc |-> pc]]
  /\ UNCHANGED <<lanes, core, paused, runner, task, adm, fate, arrivals>>

-----------------------------------------------------------------------------
(* Waiting for the session: wait_for_idle, kill, shutdown *)

WaitForIdle(o) ==
  /\ Arrives(o, "wait") /\ OpGoto(o, "watch")
  /\ UNCHANGED <<lanes, core, paused, runner, permit, task, adm, fate, arrivals>>

WaitWakes(o) ==
  /\ op[o].pc = "waiting" /\ op[o].woken
  /\ OpGoto(o, "watch")
  /\ UNCHANGED <<lanes, core, paused, runner, permit, task, adm, fate, arrivals>>

\* The look and the registration are two steps.
WaitLooks(o) ==
  /\ op[o].pc = "watch"
  /\ IF ~core.busy /\ Queued = {} THEN OpEnds(o) ELSE OpGoto(o, "unregistered")
  /\ UNCHANGED <<lanes, core, paused, runner, permit, task, adm, fate, arrivals>>

WaitRegisters(o) ==
  /\ op[o].pc = "unregistered"
  /\ op' = [op EXCEPT ![o] = [pc |-> "waiting", woken |-> FALSE]]
  /\ UNCHANGED <<lanes, core, paused, runner, permit, task, adm, fate, arrivals>>

Kill(o) ==
  /\ Arrives(o, "kill")
  /\ core' = [core EXCEPT !.created = FALSE]
  /\ OpGoto(o, "close")
  /\ UNCHANGED <<lanes, paused, runner, permit, task, adm, fate, arrivals>>

KillClears(o) ==
  /\ op[o].pc = "close"
  /\ core' = [core EXCEPT !.abort = TRUE]
  /\ Withdraw(Queued)
  /\ permit' = TRUE
  /\ OpGoto(o, "settle")
  /\ UNCHANGED <<paused, runner, task, adm, arrivals>>

Shutdown(o) ==
  /\ Arrives(o, "shutdown")
  /\ core' = [core EXCEPT !.closing = TRUE, !.abort = TRUE]
  /\ permit' = TRUE
  /\ OpGoto(o, "settle")
  /\ UNCHANGED <<lanes, paused, runner, task, adm, fate, arrivals>>

\* await_session_work_settled registers, then looks.
SettleRegisters(o) ==
  /\ \/ op[o].pc = "settle"
     \/ op[o].pc = "asleep" /\ op[o].woken
  /\ op' = [op EXCEPT ![o] = [pc |-> "settling", woken |-> FALSE]]
  /\ UNCHANGED <<lanes, core, paused, runner, permit, task, adm, fate, arrivals>>

SettleLooks(o) ==
  /\ op[o].pc = "settling"
  /\ IF ~core.busy /\ ~core.compacting THEN OpEnds(o)
     ELSE op' = [op EXCEPT ![o].pc = "asleep"]
  /\ UNCHANGED <<lanes, core, paused, runner, permit, task, adm, fate, arrivals>>

-----------------------------------------------------------------------------

Input(i) ==
  \/ PromptGate(i) \/ QueueResume(i) \/ MessageGate(i) \/ InjectGate(i)
  \/ Register(i) \/ Enqueue(i) \/ NotifyWork(i)

Arrival(o) ==
  \/ Abort(o) \/ AbortSend(o) \/ ClearQueue(o) \/ ResumeQueue(o)
  \/ \E i \in Inputs : MutateDelete(o, i) \/ MutateLane(o, i) \/ Cancel(o, i)
  \/ Pause(o) \/ Compact(o) \/ WaitForIdle(o) \/ Kill(o) \/ Shutdown(o)

\* A command in dispatch takes its next step.
Step(o) ==
  \/ AbortSuspends(o) \/ AbortWithdraws(o) \/ AbortFlows(o) \/ ResumeQueuedInput(o)
  \/ ClearSuspends(o) \/ CancelDrops(o) \/ CancelStops(o) \/ Wake(o)
  \/ CompactDrains(o) \/ CompactBegins(o) \/ CompactEnds(o) \/ CompactNotifies(o)
  \/ WaitLooks(o) \/ WaitRegisters(o) \/ WaitWakes(o)
  \/ KillClears(o) \/ SettleRegisters(o) \/ SettleLooks(o)

Next ==
  \/ Runner
  \/ \E i \in Inputs : Input(i)
  \/ \E o \in Slots : Arrival(o) \/ Step(o)

Spec == Init /\ [][Next /\ UNCHANGED load]_<<vars, load>>

\* Spawned tasks run, and the engine ends every turn and every compaction (an
\* abort cancels the provider's stream: AgentRun).  Clients owe nothing.
Fairness ==
  /\ WF_vars(Runner)
  /\ \A i \in Inputs : WF_vars((Register(i) \/ Enqueue(i) \/ NotifyWork(i)))
  /\ \A o \in Slots : WF_vars(Step(o))

FairSpec == Spec /\ Fairness

-----------------------------------------------------------------------------
(* Properties *)

\* Seen from a client, each input is queued, run and answered as PromptLedger
\* says: no step runs it twice, answers it twice, or runs what was withdrawn.
Told == [i \in Inputs |-> IF fate[i] = "new" /\ i \in Batch THEN "running"
                          ELSE IF fate[i] = "new" /\ i \in Queued THEN "queued" ELSE fate[i]]
Ledger == INSTANCE PromptLedger WITH fate <- Told
RunsOnce == Ledger!LedgerSpec

\* Delivery keeps the order of arrival: while a turn runs, no input that came
\* earlier to its lane and is not of lower priority is still waiting there.
InOrder ==
  \A x \in ToSet(runner.batch), y \in ToSet(lanes[runner.lane]) :
    Rank(y) >= Rank(x) => x.at < y.at

\* The rows armed by one abort_and_send_queued go out in one turn, whatever
\* the mode of the lane is and whatever rows arrive before they go.  (A prompt
\* of an idle session that stands between rows, or a row that changed lanes
\* since, does split them: no load has either.)
ForcedTogether ==
  [][runner.pc = "check" /\ (\E x \in ToSet(runner'.batch) : x.armed) =>
       \A y \in ToSet(lanes'["steering"]) : ~y.armed]_vars

\* The answer of prompt_and_wait comes after the idle flip: the next request
\* of a client that waited never meets the flag of its own turn.
AnswersObserveIdle ==
  [][\A i \in Inputs : fate[i] # "settled" /\ fate'[i] = "settled" => ~core'.busy]_vars

\* Once the shutdown is answered no turn runs, and none will.
ShutdownStopsTurns ==
  core.closing /\ (\A o \in Slots : op[o] = NoOp) => runner.pc \notin {"picked", "turn"}

\* No wake is lost: what is queued is run or withdrawn, or the queue parks.
QueueDrains ==
  \A i \in Inputs : i \in Queued ~> (i \notin Queued \/ Parked \/ core.closing)

\* A command that does not wait for a client ends: aborts, compactions, and
\* the closes that wait for turn and compaction.
Ending(o) == op[o].pc \notin {"idle", "watch", "unregistered", "waiting"}
CommandsEnd == \A o \in Slots : Ending(o) ~> ~Ending(o)

-----------------------------------------------------------------------------
(* What comments of the code claim and the code does not keep *)

\* "A waiting or already-cancelled admission: the queued prompt (if any)
\* never runs": nothing runs whose cancellation was answered "cancelled".
CancelledNeverRuns ==
  \A i \in Batch : adm[i] = "cancelled" => \E o \in Slots : op[o].pc = "drop" /\ op[o].target = i

\* "the abort must resolve its waiting response instead of parking it": when
\* no abort is at work, no invisible input sits behind the suspension.
NothingInvisibleParks ==
  core.suspended /\ (\A o \in Slots : op[o] = NoOp) =>
    \A l \in Lanes : \A x \in ToSet(lanes[l]) : x.visible

\* "request the abort and wait for the turn to settle": no turn in the window
\* of a compaction.
CompactionExcludesTurns ==
  (\E o \in Slots : op[o].pc = "compacting") => runner.pc \notin {"picked", "turn"}

\* "so `isCompacting` spans the whole window".
CompactingSpansWindow == \A o \in Slots : op[o].pc = "compacting" => core.compacting

\* "the kernel teardown must not race a live run": when a close is answered
\* and no command is left, no turn runs.
ClosedIsQuiet ==
  ~core.created /\ (\A o \in Slots : op[o] = NoOp) => runner.pc \notin {"picked", "turn"}

\* "settle the headless run first (same idle wait as `wait_for_idle`), then
\* answer": a waiter of a session that stays idle is answered.
Idle == ~core.busy /\ Queued = {}
Waits(o) == op[o].pc \in {"watch", "unregistered", "waiting"}
WaitersAnswered == \A o \in Slots : (Waits(o) /\ Idle) ~> (~Waits(o) \/ ~Idle)

\* "A committed prompt with `cancelOwned` aborts its running turn": its own.
OwnedCancelHitsItsTurn ==
  [][\A o \in Slots : CancelStops(o) /\ Batch # {} => op[o].target \in Batch]_vars

=============================================================================
