# A verification project for prime-agent

TLA+ models of the parts of prime-agent where processes, tasks and files race,
with TLC runs on small instances and TLAPS proofs for all instances.  Source
paths below are relative to `src/crates/`.

## 1. The system

`prime-agent` is a coding agent.  A **supervisor** daemon (one per agent
directory and socket) accepts clients, keeps a registry of **session workers**
(one process per open session), restarts the ones that crash and replaces
itself for an update.  A worker hosts one **agent** (crate `pa-agent`): a turn
loop that streams a model's response, runs its tool calls and takes steering and
follow-up messages in between.  Sessions are append-only files; a **lease**
directory makes sure that one process at a time writes one.  The command line
(`pa-cli`) starts and updates the daemon, the terminal UI (`pa-tui`) is one of
its clients, `pa-ai` talks to model providers and `pa-core` holds sessions,
cron, kernel, auth and tools.

| component | state | operations | interacts with | what is hard |
|---|---|---|---|---|
| session lease, `pa-daemon/src/lease.rs` | `<key>.lock/owner.json`, `<key>.lock.guard`, the `SessionLease` objects in memory | acquire, append, release, Drop | every process that opens the session; the file system | kill -9 between two calls, stale guards, check-then-remove by path, unknown liveness |
| agent loop, `pa-agent/src` | two message queues, the transcript, the run slot, the loop's own context, tool tasks | prompt, continue_run, steer, follow_up, clear, remove, abort, reset, append_messages; the turn loop | the provider's stream, tools, hooks, listeners | abort at any await, listeners that fail, parallel tools, polls that race the user |
| update transaction, `pa-daemon/src/update_prepare.rs`, `supervisor/update_restart.rs`, `update_stop.rs` | one transaction under a mutex, `prepared/<id>/`, the drain latch, stop verdicts | prepare, commit, abandon, expiry | coordinator process, client dispatch, workers | coordinator death, deadlines against late answers, leftover deletions, refused stops |
| update coordinator, `pa-cli/src/update_flow` | its phase and `status.json` | prepare, marker check, commit, activation, restore report | both supervisors | dying in any phase, RPC timeouts |
| worker supervision, `supervisor/{supervision,worker_lifecycle,launch_budget}.rs` | one monitor per worker, `intentional_stop`, back-off | launch, watch, relaunch, stop, passivate | registry, update | a stop racing the relaunch |
| client dispatch, `supervisor/{clients,accept_loop,routing}.rs` | connections, admission gate, command in flight | hello, dispatch, attach, routing to workers | all of the above | gate read before the command is counted |
| input pauses, `input_pause_lease.rs`, `session_input_pause.rs` | lease table, per-connection epoch, worker pause | acquire, release, detach, disconnect | supervisor and worker | disconnect during the acquiring round trip |
| worker queue and turns, `worker/*.rs`, `queue_commands.rs`, `prompt_admission.rs`, `journal.rs` | queued prompts, admitted ids, journal | prompt, edit, promote, abort, replay | agent loop, supervisor | retried prompts, crash between journal and effect |
| peer tickets, `peer_tickets.rs` | issued tickets, expiry | issue, redeem | two processes | single use against expiry |
| signal shutdown, restore, registration | shutdown flags, roster, adopted pids | drain, restore, adopt | update, supervision | shutdown racing a commit |
| rlm children, messaging, streaming | ledger, mailboxes, subscriber queues | spawn, send, stream | workers | parent death, slow subscribers |
| cron, `pa-core/src/cron` | job store, claims | add, claim, run, finish | several processes | double claims, missed runs |
| kernel manager, providers, UI, CLI, telemetry | | | | mostly I/O and formats |

What makes them correct, in one line each: at most one process writes a session
and a killed one does not block it for ever (lease); no message is lost,
duplicated or reordered, the model sees what the user sees, and a run always
ends, once (agent); an update either takes place with every worker stopped and
its files on disk, or the supervisor serves again as before (update); a worker
has exactly one monitor (supervision); a pause does not outlive its owner
(pauses); a prompt id starts at most one turn, and a crash neither loses nor
repeats it (queue); a ticket is redeemed at most once (tickets); a due job runs
once (cron).

`PROJECT.json` lists the components with their status, the hazards with the
line at which each bites, and the properties that cover them.

## 2. Modules

| module | models |
|---|---|
| `SessionLease` | one session file's lease, file-system call by file-system call |
| `SessionLeaseProofs` | its inductive invariant and the theorems |
| `AgentRun` | one agent: queues, run slot, turn loop, tool calls |
| `AgentRunProofs` | its inductive invariants; the types, the end of a run, what the model sees |
| `AgentMessagesProofs` | on top of them, the way of a message from a queue into the transcript |
| `UpdatePrepare` | the update transaction with coordinators, clients, workers and monitors |
| `UpdatePrepareProofs` | its inductive invariants and theorems |
| `InputPause` | the input pauses: supervisor table, connections, worker tables |
| `InputPauseProofs` | its inductive invariant and theorems |
| `InputPauseClientProofs` | on top of it, what a client relies on while nothing fails |
| `TurnQueue` | a worker's queue: lanes, turn runner, all ways in and out, compaction, closes |
| `PromptLedger` | the abstract specification of the queue, which `TurnQueue` implements |
| `TurnQueueProofs` | its inductive invariants, the refinement of `PromptLedger` step by step |
| `QueueJournal` | what the queue leaves on disk: checkpoints, kills, restore |
| `QueueJournalProofs` | its inductive invariant and theorems |
| `MCSessionLease`, `MCAgentRun`, `MCUpdatePrepare`, `MCInputPause`, `MCTurnQueue`, `MCQueueJournal` | instances: who runs which thread, what clients send, symmetry sets, one state constraint |

### SessionLease

A thread of a process is an element of `Actors`, a process *incarnation* an
element of `Procs`: a restart is another member, which is what the
start-identity check of `owner_alive` achieves for a recycled pid.  `pc[a]` is
the next file-system call of thread `a`; `guard` and `lease` are the two
directories.  `GuardCreate`, `GuardExhausted`, `GuardLooksStale`,
`StealReadOwner`, `StealRemove` and `Unlock` are `with_lease_guard`; looking at
the guard's age, reading the owner and removing the guard are separate steps, as
the code makes separate calls and removes *by path*.  `AcqRename`,
`AcqReadOwner`, `AcqReclaim` are the loop of `acquire_runtime_session_lease`,
`RelReadOwner`/`RelReclaim` the release, `AppReadOwner`/`AppWrite` the append.
`Crash(p)` removes what is in the memory of `p` and leaves the directories.
Time is counted in ticks: a guard is stale after more than `StaleAfter` ticks,
an open waits `StaleAfter + Slack`.  With `Prompt = TRUE` a tick cannot pass
while a thread has something to do, that is, no thread stalls for longer than
the stale window; with `Prompt = FALSE` it may stall for ever.  `torn` is a
history variable: it records that some thread removed the guard of another that
was still inside its section.

### AgentRun

`queue`/`mode` are the two `PendingMessageQueue`s, `owner`/`aborted` the run in
the slot and its signal, `transcript` is `Shared.state.messages`, and `pc`,
`pending`, `context`, `more`, `turn` are the loop's locals.  A message is a
model value and is sent once; a row of the transcript is a record of its kind.
Each step of the loop between two awaits is one action, named after what the
loop does there (`FirstPoll`, `Turn`, `Deliver`, `Request`, `StreamDone`,
`ToolStart`, ..., `AgentEnd`, `RunFails`, `Finish`).  An emission is one action
with the reduction of `process_events`: `Emit` is the alternative of a listener
error, which sends the run to `handle_run_failure`.  Hooks, tools and the stream
answer anything, or never.  A tool call goes through `calls[k]`; the task of a
call that a failed run left behind (`Detached`) goes on during the next run, as
a dropped `JoinHandle` does.  `update` holds the calls with an update in the
channel of their emitter task.

### UpdatePrepare

`tx` is `PrepareCoordinator.inner`.  Every handler is a task with its own place:
`prep[u]` the prepare handler, `stop[u]` the commit handler, `coord[u]` the
coordinator, `cmd[c]` a client command in `dispatch_client`, `watch[w]` the
monitors of a worker, `sweep` the directories that the watchdog (or the
dispatch) has aborted and not deleted yet.  A step is one lock section, one file
or one RPC.  `RollBack` is the handler's failure path: abort, delete, answer, in
that order.  `StopAcked`/`StopRefused`/`ExitWaited` make the verdict of one
worker; `late` holds shutdown requests that were given up and may still be
carried out.  Deadlines are countdowns; the ids are one per coordinator
because a coordinator makes a uuid and has one request outstanding.

### Loads

`InputPause`, `TurnQueue` and `QueueJournal` have a constant `Loads`, a set of
records that say what one run contains: who takes part, which commands clients
send, which faults strike.  `Init` chooses `load` from it and no step changes it,
so one TLC run checks each property under every load and a counterexample names
the load it needs.  A property that only holds without some command or fault
says so by looking at `load` (`Calm`, `Steady`).

### InputPause

`leases` is `InputPauseLeases.table`, `lock` the task that holds its mutex over
an await, `conn[c]` a connection (its loop, its epoch, its detach marks, what it
is attached to), `held[w]` the `InputPauseTable` of a worker and `net[w]` the
requests on their way to it.  Every command of a connection runs in a task of
its own (`task[p]`), and the connection's loop runs the cleanup of its
disconnect, so its name is also a task's.  An acquire is `AcquireCheck`,
`AcquireLook` (the table, for the key), `AcquireSend`, the worker's step or
`AcquireGiveUp`, `AcquireCompare` (the epoch) and `AcquireRecord` (the table
again): the two sides of each await.  A detach and a cleanup are a
snapshot of the table and a `Sweep` over it.  The `faults` of a load are what may
go wrong: the worker does not answer in time and may act later, it refuses, its
process is replaced or leaves the registry, a write to the client fails.  A
`polite` client waits for an answer before it sends again.  `granted` is a
history variable: what a client was told it holds and has not given back.

### TurnQueue and PromptLedger

The worker spawns each command, so a step is one section of the core lock or one
use of a `Notify`, and any two commands interleave.  `lanes` and `core` are the
fields of `SessionCore`; an item records its priority (`policy`), whether it is
a queue row (`visible`), whether `abort_and_send_queued` armed it, and its number
of arrival (`at`), which a change of lane renews, as it moves the row to the back.  `runner` is `TurnRunner::run`: `check`, `picked`, `turn`, `settle`,
`park`, `asleep`.  `permit` is the stored permit of `work_notify.notify_one`,
and `idle_notify.notify_waiters` sets `woken` of the commands that have
registered by then and of no other.  `task[i]` carries an input to its lane: a
prompt, a queue command (steer, follow-up), a message of another session or a
continuation that the engine injects.  `op[o]` is any other command, `adm` the
worker's `WorkerAdmissions`, `fate[i]` what the sender was told.

`PromptLedger` says for a client what a queue is: an input is queued once, is run by
one turn or withdrawn, and one turn runs at a time.  `TurnQueue` implements it
under `Ledger == INSTANCE PromptLedger WITH fate <- Told`, where `Told` reads a
queued input off the lanes and a running one off the runner's batch.

### QueueJournal

The order of the lanes is `TurnQueue`'s; here they are one set.  `disk` is the
worker recovery journal as its loader reads it (latest snapshot, latest verdict)
with the fact that its last line is a fragment, `mem` the same in
`WorkerRecoveryJournal`.  A checkpoint (`checkpoint_queue_recovery`) is two steps
under the recovery lock: `Locks` takes it and reads the lanes and `core.busy` under
the core lock; `Saves` writes what was read and lets go.  `lock` holds what the
checkpoint under way is for and what it has read.  In between, whatever needs
the core lock alone goes on: inputs enter, a turn begins or ends, rows are withdrawn.
`Checkpoint` is `record_queue_checkpoint`: one append of snapshot and verdict, an
unchanged verdict left out, and a compaction from memory when the verdict is idle.
`Write` has the outcomes of an append: all of it, or, in a load with `errors`, any
prefix and perhaps a fragment.  `Enqueue`, `Admit` and `AdmitAnswers` are the steps
of a prompt, `TurnEnds`, `TurnSettles` and `TurnAnswers` those of a turn's tail,
`Clear`, `ClearSettles` and `ClearAnswers` those of a withdrawal.  `Clear` drops the
channels of the rows it takes, so their senders hear of it there ("withdrawn"), before
the row has left the disk; the command that withdrew them is answered in
`ClearAnswers` ("cleared").
`Crash` drops all that is in memory, a checkpoint between its two steps included;
`Boot` restores the lanes from the latest snapshot and records the create.

## 3. Runs

| run | instance | shows |
|---|---|---|
| `lease_pair` | 2 processes, prompt threads, stale after 1 tick, slack 2, fairness | `OneRuntimePerFile` with crashes anywhere; `LoneOpenSucceeds`: whatever the dead left behind, the last live process opens the session at its first attempt |
| `lease_faults` | 3 processes, 4 threads (two in one process), unbounded stalls, I/O errors, one process of unknown liveness | `HeldIsOnDisk`, `CommitsAreSerialized`, `LiveOwnerKept` as long as no live holder's guard has been taken |
| `lease_two_runtimes` | 3 prompt processes | violation: two runtimes on one file |
| `lease_wedged_guard` | 2 prompt processes that keep trying | violation: a stale guard that is never reclaimed |
| `agent_safety` | 2 callers, 2 messages, 1 turn with up to 2 tool calls, both execution modes, failing listeners | no message twice, the request is the transcript, calls answered in source order, one `AgentEnd`, nothing taken is dropped |
| `agent_steering` | 1 caller, 2 messages, one-at-a-time steering, one clear/remove/reset/append | order of the queues, one steering message per turn, an abort ends the run |
| `agent_end_last` | 1 caller, 1 message, 1 tool call | violation: an update between `AgentEnd` and the release of the slot |
| `update_restart` | 1 update id prepared again and again, 2 clients, an own and an adopted worker, fairness | files on disk from Snapshotted on; exit only with every launched worker down; every transaction ends, every prepare request is answered |
| `update_abandon` | 1 client, 2 workers, budget 1 | violation: a worker that is up and has no monitor |
| `pause_leases` | 5 loads (66 thousand states), fairness | what a client was told it holds it holds; a detach or disconnect lifts it; one pause per key; no pause unknown to the supervisor; commands and cleanups end |
| `turn_queue` | 6 loads (309 thousand states), fairness | `TurnQueue` implements `PromptLedger` (`RunsOnce`); order within a priority; an armed batch goes out whole; an answered prompt finds the session idle; no wake-up is lost; commands end; no turn after a shutdown |
| `journal_restart` | 5 loads (617 thousand states), fairness | accepted rows that wait are on disk, settled and cleared ones are not; live work reads as interrupted; only a shutdown turns the journal idle over accepted work; accepted inputs run, through restarts |

The loads of `pause_leases`: two clients of one session; one client of two
sessions; a client that pipelines commands; one that retries over timeouts and
replaced workers; one acquire against every fault.  Those of `turn_queue`:
`Withdrawals`, two prompts or follow-ups against one abort, delete or cancel at a
time; `Orders`, two steers, messages or continuations under abort and send;
`Moves`, two steers or continuations against changes of their lanes; `Races`, one prompt against two concurrent commands of cancel, clear, abort,
abort and send; `Gates`, a follow-up against two of compact, abort and clear,
pause, relane, resume; `Closes`, a prompt against two of shutdown, kill, compact
and wait.  Those of
`journal_restart`: three lives of a worker; a third input; snapshots of an
update; failing writes with two inputs, and with one input and every command.

**Bounds.**  Leases: two tokens are enough for a live owner and one dead one,
and a token is reused only when nothing refers to it; three processes are a dead
holder and two thieves, the shortest cast for the theft of a fresh guard; two
threads of one process give an append racing its own release.  `lease_faults`
does not expand states behind a torn guard, where its properties claim
nothing (each is of the form `~torn => ...`).  Agent: an assistant message with two
calls shows every order of their ends, two messages every order of two queues;
one turn per agent still has the polls before and after it, and a second
prompt or `continue_run` begins another run on the same transcript.  With two callers every look at the slot races another.
Update: one id that is prepared again shows an
abandoned attempt beside a new one, a prepare
budget of two ticks leaves room for a failure and a second attempt,
two workers give one that stops and one that refuses, one launched and one
adopted.  Under one id there is one commit; a second update after an abandoned one is
beyond what TLC finishes with fairness in five minutes, and the theorems of section 4
have any number of ids.  Pauses: two acquires are an acquire and its retry, or a pause beside
another's; a third follows a release; one detach per connection leaves an acquire
before, during and after it (`MaxAcquires`, `MaxDetaches`, `Tasks` in dispatch).
Queue: every race of the code is between two inputs or between an input and a
command; two `Slots` let two commands race each other and the runner; rows change lanes
until there were `MaxArrivals` = 3 arrivals, so one moves behind the other.  Journal:
two ends of the process (`MaxEnds`, and `ends` of a load) are a restart of a
restart; a third input gives a queued one and an arriving one beside the turn.
`MaxTurns`, `MaxCalls`,
`MaxEdits`, `PrepareBudget`, `MarkerBudget`, `Tokens` are the bounds;
`CHECK_DEADLOCK FALSE` is set where the system may stop (all processes killed;
the supervisor has exited; all connections closed; every input answered and the
runner asleep, or the session shut down).

**Fairness.**  `SessionLease!FairSpec`: threads are scheduled and time passes;
`RetrySpec` adds that processes keep opening the session, without which nobody
would look at a guard.  `AgentRun!FairSpec`: the loop, callers and, of an
aborted run, the tool tasks are scheduled by the runtime; streams, hooks, tools
and the user owe nothing.  `UpdatePrepare!FairSpec`: the one-second timer of the
watchdog, the clock and the spawned handlers, each of whose awaits is under a
timeout; nothing is assumed of coordinators, clients, workers.
`InputPause!FairSpec`: tasks are scheduled; a step that waits for the table's
mutex is strongly fair, since tokio's mutex serves its waiters in order; workers
answer in loads without timeouts (`InTime`).
`TurnQueue!FairSpec`: the runner and commands in dispatch are scheduled and the
engine ends every turn and compaction; a waiter looks again once it is woken;
clients owe nothing.  `QueueJournal!FairSpec`: the same, and a session that went
down is opened again.

### What the violations say

Four runs are expected to find a violation:

* `lease_two_runtimes`: the removal of a stale guard is by path and later than
  the look at its age.  Of two openers that both saw the guard of a killed
  process, the second removes the guard the first has just made, and its
  `reclaim_stale` takes the first one's live lease (lease.rs:311-317).
* `lease_wedged_guard`: the lease owner stands in for the guard's holder.  The
  guard of a dead contender of a live owner stays (lease.rs:311-315); appends
  and releases of the owner fail from then on.
* `agent_end_last`: the race with the abort drops the handle of the update
  emitter and so detaches it (tool_call.rs:177-185); it delivers after the
  event types.rs:533 calls the last, while the run has not cleared its slot yet.
  With a free slot `process_events` refuses it (agent.rs:420-422).
* `update_abandon`: `intentional_stop` is reset after the monitor of an adopted
  worker has seen it and returned (supervision.rs:79-84,
  update_restart.rs:379-384).

The other instances whose name is not in the table are refutations to be
repeated by hand, `tlc -config pause_inflight.cfg MCInputPause.tla` for one.  Each
checks one property that states what a comment of the code says and finds a
counterexample, most in a few steps; they are kept because a passing run cannot claim
these properties, and because the properties of the passing runs are worded
around them.

* `update_adopted_exit`: the log line "all {stopped} worker(s) stopped; exiting for
  the update" (update_restart.rs:401-404) of adopted workers.  With two ids the poll
  of one that was stopped, and restored after an abandoned update, relaunches it a
  second time beside the restoration; a second update stops the first of the two and
  exits while the other starts.
* `pause_late_lease`: an acquire that comes back after the disconnect's snapshot
  of the table is recorded for a closed connection (input_pause_lease.rs:231).
* `pause_inflight`: the epoch is compared before the await on the table, so a
  detach in between does not invalidate the acquire (input_pause_lease.rs:230).
* `pause_dropped_lease`: a detach drops the record of a pause whose release failed
  (input_pause_lease.rs:401).
* `pause_write_error`: a failed write leaves the loop past its cleanup, the pauses
  of the connection stay (clients.rs:245).
* `pause_detach_name`: the detach filter compares the text of the selector, so a
  session called by another of its names stays paused (input_pause_lease.rs:372).
* `turn_cancel`: mark and drop of a cancelled admission are two steps, and commit
  takes a cancelled one (turn.rs:416, prompt_admission.rs:561-565).
* `turn_cancel_owned`: `owned` is read in one lock section and the abort flag set
  in the next, when another turn may run (prompt_admission.rs:645-652).
* `turn_wait_idle`: `wait_for_idle` looks and then registers (lifecycle.rs:636-642).
* `turn_compact_overlap`: a steer resumes the session between the last look at
  `busy` and the flag `compacting` (compaction.rs:89, 187).
* `turn_compact_twice`: two compactions share one flag (compaction.rs:151).
* `turn_abort_wedge`: a direct prompt that passed its gate before an abort and
  is queued after it parks, invisible and unanswered (input.rs:54-133).
* `turn_kill`: a prompt that passed `require_created` is queued after the sweep of
  a kill and runs (input.rs:16, commands.rs:706).
* `journal_late_verdict`: the admission checkpoint lands after its turn's settle
  and marks an idle session busy (input.rs:137).
* `journal_abort`: an abort withdraws rows without a checkpoint; after a kill they
  run although their client was told otherwise (commands.rs:417).
* `journal_stale_snapshot`: `update_snapshot` reads under one lock and writes under
  another; a row admitted in between leaves the disk (lifecycle.rs:25-58).
* `journal_torn`: a fragment swallows the snapshot line of the next batch, whose
  verdict lands (journal.rs:62).

## 4. Proofs

`SessionLeaseProofs` proves, for any sets of processes, threads and tokens, any
windows and either setting of `Prompt` and `IOErrors`:

* `TypeCorrect`: `Spec => []TypeOK`
* `HeldLeaseIsOnDisk`: until a live holder's guard is removed, the lease of a
  live runtime is the one on disk
* `OneRuntimeWhileUntorn`: until then at most one runtime hosts the file
* `SerializedCommits`: until then the thread that writes owns the lease and is
  alone in its section
* `LiveOwnerIsKept`: until then no step takes a live owner's lease

The assumptions are the named `ASSUME`s of `SessionLease` (threads belong to
processes, the null values are no records, windows are naturals, modes are Booleans).
None of the safety properties is inductive.  `HeldIsOnDisk` needs to know that a
thread about to reclaim has read an owner that is still there and dead, or its
own (`ReadsHold`); this survives the steps of others only because the thread in
its section made the guard that is there now (`SectionOwnsGuard`), and that
needs to know which call a thread is in (`CallShape`); and an object in memory
belongs to a live process (`HeldAlive`), so that a dead owner is nobody's.
`IInv` is their conjunction.  There is one lemma per group of actions: calls,
taking the guard, removing it, the section of acquire, those of release and
append, drop, crash, tick.  The hypothesis `~torn` is not a convenience: the runs
`lease_two_runtimes` and `lease_pair` show that it fails, and when.

Together the proofs and the two violating runs say where the exclusion of the
lease comes from and the single way to lose it.

`UpdatePrepareProofs` proves, for any number of updates, clients and workers and
any budgets:

* `TypeCorrect`: `Spec => []TypeOK`, with the latch equal to the number of
  commands in flight
* `PreparedFilesStay`: from Snapshotted on an active transaction has its files
* `ExitsOnlyWhenAllStopped`: the exit is decided only when every worker that this
  supervisor launched is gone

The assumptions are the `ASSUME`s of `UpdatePrepare`: the budgets are positive,
the clients finitely many (the latch is a cardinality), `NoTx` is no
transaction.  `PreparedIsDurable` rests on three facts (`DurableInv`): which
states of the handler go with which state of the transaction (`Phases`); an id
whose directory is still to be deleted is neither active nor going to be, its
handler either done or out of time (`SweepsAreFinal`); what a handler wrote is
there until it advances (`WrittenSoFar`).  `ExitOnlyAfterStop` needs that no
launched worker is in two stops at once (`OneStop`: snapshots are collected only from
workers that are up and not being stopped), what each verdict says of the worker's
process, stop flag and monitor (`VerdictsHold`), that its monitors wait for a child
(`OnlyChildren`), and the link between commit handler and transaction
(`CommitShape`).  TLC checked this invariant (`StopInv`) with two ids, a launched and
an adopted worker.  There is one lemma per group of actions: prepare
handler, coordinator, commit, workers, environment.

The theorem claims nothing of adopted workers, and `update_adopted_exit` shows why.
The poll of an adopted worker may miss the stop flag altogether; when the update
is then abandoned, the poll and the restoration both relaunch the worker, and a
second update may stop the first of the two and leave while the other starts.
This takes a relaunch that lasts as long as the whole second update.

`InputPauseProofs` proves, for any connections, workers, selectors, keys, bounds
and loads:

* `TypeCorrect`: `Spec => []TypeOK`
* `KeyPausesOnce`: whatever fails, no session is paused twice for one key of a
  connection
* `EveryPauseIsKnown`: in a load without faults, every pause a worker holds is in
  the supervisor's table or about to be recorded, polite clients or not

The assumptions are the `ASSUME`s of `InputPause`.  `HeldIsKnown` is far from
inductive: records leave the table by id, in a release and in a sweep that may
have begun before the pause was lifted by another, so the proof has to say what
an id is.  An id stands for one pause at one worker wherever it appears, in the
table, at a worker or with a task (`IdsAgree`); the id of an acquire that no worker
has carried out is with its task only (`IdsFresh`); a sweep that is about to drop a
record has lifted its pause (`DroppedIsLifted`), which needs that a task that waits
has its request on its way (`NothingIsLost`, `NetShape`: a request says what its
task waits for).  A cleanup starts once (`CleanupShape`).  `IdsMove` and `TaskStep`
are the lemmas on which most actions rest; the acquire of a worker is the long case.

`InputPauseClientProofs` goes on from there to the clients of a calm load, where
nothing fails and a client waits for each answer (`Calm`; other clients may do as
much at the same time as they like):

* `GrantIsHeld`: what a client was told it holds a worker holds, until the client
  gives it back
* `ClosedIsReleased`: once a connection is closed and its cleanup over, no worker is
  paused for it
* `LeaversAreReleased`: nor is a session for a client that detached from it.  This one
  assumes that sessions are called by their ids (`L.sels \subseteq Workers` for every
  load), which is so in every load of `pause_leases`; `pause_detach_name` shows that
  it fails for a client that calls one session by two names.

The invariant `CalmInv` is one of each connection (`ClientInv`), so each action has one
lemma for the connection it serves and a frame (`OtherClient`) for the rest.  A
connection has one task at most, and its own cleanup when it has left (`AloneAt`).
A record in the table is held at its worker until the sweep that lifted the pause
drops the record, and an answer that is not recorded yet is held (`LeasesHeld`,
`AnswersHeld`).  A task that is going to lift a pause lifts one that its client has
given back (`GivenBack`); the snapshot of a sweep needs `IdsAgree` for this, to tell
that a record under another session's name is another pause.  The sweep of a cleanup
has every record of its connection (`Gathered`).  `Marked` says why a detach leaves
nothing: an acquire is refused under a marked name, so what the table still holds of
a marked session the task of the detach is about to take.  It is stated for ids only, for by names it is false.

`QueueJournalProofs` proves, for any inputs, any loads and any number of kills:

* `TypeCorrect`: `Spec => []TypeOK`
* `IdleWasEarned`: whatever writes fail or tear, only a shutdown turns the verdict
  on disk idle over accepted work
* `InterruptedWorkShows`: without write failures, the verdict on disk is busy as
  long as accepted work waits or runs
* `AcceptedSurvives`, `AnsweredStaysGone`: without write failures and update
  snapshots, an accepted input that waits is on disk, and one that was settled, or
  whose clear was answered, is not

The assumptions are `LoadAssumption` and `BoundAssumption`.  What is written is old:
an idle verdict may land over a lane that an input has just entered.  So the
invariant says what is still true of what a checkpoint read when it comes to write
it.  It has every accepted row that still waits, and the row it is about to accept
(`LockCovers`); when it read idle there is no accepted work yet, since a row that came
in since can only be accepted by a checkpoint that waits for this one (`LockEarns`);
it has no row that was answered since (`LockIsOpen`); and the step that holds the lock
is still where it took it, so that the rows it will answer are not among those it
writes (`LockFits`).  `AnsweredIsForgotten` needs besides that no row in the lanes was
answered (`QueuedIsOpen`).  `WorkReadsInterrupted` needs that the verdict a checkpoint
leaves out as unchanged is really on disk (`MemIsDisk`: without write failures
memory and file agree while the process runs), and the durability of accepted
rows across a kill needs what a dead process holds, nothing (`DownIsEmpty`).
`IInv` is the conjunction; TLC checked it as an invariant of `journal_restart`'s
instance before it was proved.

`AgentRunProofs` proves, for any callers, messages, turns, calls, edits, modes and
listeners:

* `TypeCorrect`: `Spec => []TypeOK`
* `RunEndsOnce`: a run delivers one `AgentEnd`, and a second only when a listener
  failed on the first
* `TakenIsKept`: no step drops a message taken from a queue, unless the run was
  aborted, a listener failed or the caller lost the slot
* `ModelSeesTranscript`: the loop's context is the transcript when a request goes
  out, unless a reset or an append has changed the transcript during the run
* `EveryCallAnswered`: under the same condition every call of the run before a
  request has its result, in source order

Even the types need more than themselves: that a tool's result exists when it is
read depends on the shape of the batch.  `CoreInv` is inductive and the base of
everything else: the run in the slot is the loop that is on and its caller the
only one that runs (`SlotInv`), no `AgentEnd` before the end (`EndsInv`), where the
loop may hold messages (`PendingInv`), and how far the batch at hand is answered
(`BatchInv`).  `ContextInv` says by how much the loop's own copy may differ from the
transcript between two requests: ahead by prompts that are not emitted yet, behind
by results of the batch.  `CallsInv` says of every call of the run that it is
answered, is of the batch at hand, or was cut short by an abort.

`AgentMessagesProofs` proves, on top of `CoreInv`:

* `InOnePlace`: a message is in one place, queue, caller, pending list or transcript,
  and is recorded once, for any number of callers
* `InSentOrder`: with one caller, a queue's messages are recorded in the order in
  which they were sent
* `SteeredOneByOne`: in one-at-a-time mode no two steering messages follow one another
  in the transcript, for any number of callers

`MessageInv` is about positions: what waits has been sent and is nowhere else
(`PlacedOnce`, `SentOnce`, `SentFirst`).  The hypothesis of `InSentOrder` is needed: two
`continue_run` callers may each hold messages they took from the queue, and enter
the slot in the other order.

`TurnQueueProofs` proves, for any inputs, slots, loads and queue modes:

* `TypeCorrect`: `Spec => []TypeOK`
* `QueueKeepsLedger`: `Spec => RunsOnce`, the refinement of `PromptLedger`
* `DeliveredInOrder`: what a turn has taken came before what still waits in that
  lane with the same or a higher priority
* `ShutdownEndsTurns`: no turn after a shutdown was answered
* `AnsweredWhenIdle`: a prompt is answered when the session is idle again
* `ArmedGoTogether`: in loads of rows that change no lane, the armed rows go out
  in one batch

The assumptions are `LoadAssumption`, `ModeAssumption` and `BoundAssumption`.  Every
step of the queue is one of the ledger or a stutter: `Enqueue` queues, a pick-up
starts, the settle settles, the gates refuse, `Withdraw` withdraws.  What makes the map a
refinement is `PlaceInv`: an input is in one lane at one position or in the batch,
and its carrier has not begun or is done (`OnePlace`); what is there has been told
nothing (`Untold`); and the flag `busy` and the batch agree with the place of the
runner (`RunnerShape`), which also carries `AnsweredWhenIdle`.  A shutdown registers and then
looks, so a settle between the two wakes it (`ShutdownWaits`).  `OrderInv` numbers the
arrivals: a lane is ordered by rank and then by number, `EnqueuedIs` and `WithoutIs`
say that an insertion and a withdrawal keep that.  That the n-th remaining item
exists needs an induction over the naturals, which `EveryNatural` derives from the
well-foundedness of a finite set of numbers, without an operator parameter.
`ForceInv` says that what is armed is a row of the steering lane, in front of
what is injected, and that the flag `forced` is still set.  The hypothesis of `ArmedGoTogether` is needed: a direct prompt
that stands between armed rows, or an armed row that moved to the other lane and
back, splits the batch (`gather_delivery_batch` stops at the first item of another
kind).

Of each of these modules the inductive invariants were checked by TLC, as invariants of
the runs' instances, before they were proved.

Only model-checked: liveness (fairness is out of the prover's reach), that is
`LoneOpenSucceeds`, `AbortEnds`, `TransactionEnds`, `PrepareAnswered`, `CommandsEnd`,
`QueueDrains`, `AcceptedRuns`; `ForcedTogether` with prompts or lane changes in a load;
`OneRuntimePerFile` without the hypothesis for two processes.

## 5. Not modelled, and why

Formats, wording and logging everywhere; model providers, UI, CLI parsing and
telemetry (no protocol state).  In `SessionLease`: the failure of creating a
candidate and Windows' rename-contention retries, which only repeat a step; the
count of fast attempts, any number of which may be spent.  In `AgentRun`: model
and tool-set changes, streaming deltas, `set_messages`/`mutate_messages`, panics; a
message is one emission, so a listener that fails on its `MessageStart` ends the run
with the row recorded, where the code ends it before (agent.rs:388-397,
run.rs:65-71).  No property tells the two apart.
In `UpdatePrepare`: a repeated commit in `Stopping`, which would run the stop a second
time (a coordinator of this repository sends one, phases.rs:69-90), the signal drain,
the successor, second monitors competing for one worker.  `relaunch_worker` is one
step; its own looks at `is_stopping` (supervision.rs:206, 293-307) and the cap on failed
relaunches (supervision.rs:107-162) are left out, and the end of a child is one step
with its monitor's look at the flag.

In `InputPause`: the client id as a part of the key (a connection has one),
attach beyond the set of attached sessions, and the worker's own detach arm,
which releases by client id while routed pauses are owned by the connection id.
In `TurnQueue`: what a turn does (the engine; `AgentRun` has the loop); every
prompt is a `prompt_and_wait` with an admission id; images, text edits, moves
within a lane, queue-mode changes, the pinned priority, passivation, kernel
release, the purge of autonomous rows; bash notices, which enter as injected rows do; the
second of two consecutive `notify_one`s of a resume; a `notify_waiters` of the
engine that comes inside a turn (queue.rs:557), which stores no permit and is modelled
as one that does.  Merged into one step each: the two notifies at the end of a
compaction (compaction.rs:162, lifecycle.rs:428); the idle notify, the clearing of the
admission and the answers of a settle.  A goal's follow-up (queue.rs:560-624) has no
look at `closed` of its own; the model gives it the gate of the other injected rows.  A direct prompt that sits in the lane when a
batch is armed and suspended may be delivered between its rows; the load of
`turn_queue` with abort and send over three kinds of rows has no prompts for that
reason.  The supervisor's table of waiting admissions.  In
`QueueJournal`: the command recovery journal; the loss of
synced or unsynced data in a crash of the operating system (a kill of the
process is modelled); a last record that is complete and lacks its newline;
restored suspension.  Boot is one step, the restore of the lanes (create.rs:486-494,
565) and the record of the create (create.rs:671): nobody reaches the worker before its
create has returned.  The writes of a shutdown and of a snapshot are one step each:
they hold the recovery lock and read nothing of the lanes under it.  No checkpoint is written when a row is picked up, so an
input in its turn at a kill is run again or reported broken, by design of the code.

Two hazards the models contain but no run claims anything about: a mutating
command that passed the gate before the transaction began may run while it is
`Fenced` (clients.rs:507, 529), and files written while the watchdog aborts a
`Fenced` transaction stay behind (update_restart.rs:280).

## 6. Plan

1. Done: `SessionLease`, `UpdatePrepare`, `AgentRun`, `InputPause`, `TurnQueue` with
   `PromptLedger`, and `QueueJournal`, each with proofs.
2. `UpdatePrepare` extended by the signal drain; abstract specification of the
   transaction (serving, preparing, exited), refined by it.
3. `CommandJournal`: the ids of client commands through a crash.
4. `PeerTickets`, `CronScheduler`: single use and single claim across processes.
5. An abstract lease (free or owned, owned by the living only until released),
   refined by `SessionLease` while untorn.
6. Proofs: the refinements of items 2 and 5, once their abstract specifications are stated.
