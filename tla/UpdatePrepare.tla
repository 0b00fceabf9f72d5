--------------------------- MODULE UpdatePrepare ---------------------------
(***************************************************************************)
(* The supervisor's update restart (crates/pa-daemon/src/update_prepare.rs *)
(* and supervisor/update_restart.rs) with the clients, the update          *)
(* coordinators of pa-cli, the workers and the workers' monitors around    *)
(* it.                                                                     *)
(*                                                                         *)
(* The transaction lives under one mutex; its prepare handler, its commit  *)
(* handler, the watchdog, the client dispatches and the monitors are tasks *)
(* of a multi-threaded runtime.  A step is what a task does between two    *)
(* points where another task can come in: one lock section, one file, one  *)
(* RPC.  An update id is a fresh uuid of one coordinator, and a            *)
(* coordinator has one request outstanding, so a handler is named by its   *)
(* id.                                                                     *)
(***************************************************************************)
EXTENDS Naturals, FiniteSets

CONSTANTS
  Updates,        \* update ids, one per coordinator
  Clients,        \* dispatch slots for mutating client commands
  Workers,        \* resident session workers
  Adopted,        \* those taken over from an earlier supervisor
  NoTx,           \* PrepareCoordinator.inner = None: Serving
  PrepareBudget,  \* prepare_ms, in ticks
  MarkerBudget    \* prepared_expiry_ms, in ticks

ASSUME BudgetAssumption == PrepareBudget \in Nat \ {0} /\ MarkerBudget \in Nat \ {0}
ASSUME AdoptedAssumption == Adopted \subseteq Workers
ASSUME ClientsAssumption == IsFiniteSet(Clients)

VARIABLES
  tx,       \* the active transaction, or NoTx
  left,     \* left[u]: ticks until prepare_deadline_ms
  mark,     \* mark[u]: ticks until the marker's expires_at
  sweep,    \* aborted ids whose directory the watchdog has still to delete
  disk,     \* disk[u]: the files of prepared/<u>/
  prep,     \* prep[u]: where the prepare handler of u is
  coord,    \* coord[u]: the phase of the coordinator of u
  latch,    \* MutationDrainLatch.active
  cmd,      \* cmd[c]: a mutating client command in dispatch_client
  stop,     \* stop[u]: where the commit handler of u is
  verdict,  \* verdict[u][w]: the stop of worker w as that handler sees it
  proc,     \* proc[w]: the process the descriptor names
  late,     \* workers that still have an abandoned shutdown request queued
  intent,   \* resident.intentional_stop
  watch,    \* watch[w]: the monitors of w: of a child, or polling an adopted pid
  exiting   \* accept_exit: exit_for_update has run

timers == <<left, mark>>
client == <<latch, cmd>>
fleet == <<verdict, proc, late, intent, watch>>
vars == <<tx, timers, sweep, disk, prep, coord, client, stop, fleet, exiting>>

PrepareStates == {"Draining", "Fenced", "Snapshotted", "Prepared", "Stopping"}

Transactions == [id : Updates, state : PrepareStates]

ASSUME NoTxAssumption == NoTx \notin Transactions

Files == {"roster", "marker"}

Kinds == {"drain", "plain"}

\* The mutating commands being executed.
InFlight == {c \in Clients : cmd[c] = "running"}

TypeOK ==
  /\ tx \in Transactions \cup {NoTx}
  /\ left \in [Updates -> 0..PrepareBudget]
  /\ mark \in [Updates -> 0..MarkerBudget]
  /\ sweep \subseteq Updates
  /\ disk \in [Updates -> SUBSET Files]
  /\ prep \in [Updates -> {"idle", "draining", "drained", "collecting", "roster", "marker",
                           "written", "acking", "sweeping", "failed"}]
  /\ coord \in [Updates -> {"preparing", "waiting", "prepared", "ready", "committing", "over"}]
  /\ latch \in Nat /\ latch = Cardinality(InFlight)
  /\ cmd \in [Clients -> {"idle", "admitted", "running"}]
  /\ stop \in [Updates -> {"idle", "stopping", "closing", "restoring"}]
  /\ verdict \in [Updates -> [Workers -> {"none", "asked", "acked", "Stopped", "Refused",
                                           "relaunching"}]]
  /\ proc \in [Workers -> {"up", "ending", "down"}]
  /\ late \subseteq Workers
  /\ intent \in [Workers -> BOOLEAN]
  /\ watch \in [Workers -> SUBSET {"child", "poll"}]
  /\ exiting \in BOOLEAN

Init ==
  /\ tx = NoTx
  /\ left = [u \in Updates |-> 0]
  /\ mark = [u \in Updates |-> 0]
  /\ sweep = {}
  /\ disk = [u \in Updates |-> {}]
  /\ prep = [u \in Updates |-> "idle"]
  /\ coord = [u \in Updates |-> "preparing"]
  /\ latch = 0
  /\ cmd = [c \in Clients |-> "idle"]
  /\ stop = [u \in Updates |-> "idle"]
  /\ verdict = [u \in Updates |-> [w \in Workers |-> "none"]]
  /\ proc = [w \in Workers |-> "up"]
  /\ late = {}
  /\ intent = [w \in Workers |-> FALSE]
  /\ watch = [w \in Workers |-> IF w \in Adopted THEN {"poll"} ELSE {"child"}]
  /\ exiting = FALSE

-----------------------------------------------------------------------------
(* The transaction (update_prepare.rs). *)

Active(u, state) == tx = [id |-> u, state |-> state]

InState(states) == tx # NoTx /\ tx.state \in states

\* check_expiry.  Mutant: the marker's own expiry is not looked at.
Expired_HardDeadlineOnly ==
  InState({"Draining", "Fenced", "Snapshotted"}) /\ left[tx.id] = 0

Expired ==
  \/ InState({"Draining", "Fenced", "Snapshotted"}) /\ left[tx.id] = 0
  \/ InState({"Prepared"}) /\ mark[tx.id] = 0

HasArtifacts == InState({"Snapshotted", "Prepared", "Stopping"})

\* A driver operation: the transition if it is legal, PrepareOp::NotActive if
\* the transaction of u is gone or elsewhere.
Advance(u, from, to) == Active(u, from) /\ tx' = [tx EXCEPT !.state = to]

NotActive(u, from) == ~Active(u, from) /\ UNCHANGED tx

\* abort_if_expired and its finish_update_abort: the one-second watchdog, or
\* the dispatch of any later command.  The directory goes in a step of its own.
AbortIfExpired ==
  /\ Expired
  /\ tx' = NoTx
  /\ sweep' = IF HasArtifacts THEN sweep \cup {tx.id} ELSE sweep
  /\ UNCHANGED <<timers, disk, prep, coord, client, stop, fleet, exiting>>

FinishAbort(u) ==
  /\ u \in sweep
  /\ sweep' = sweep \ {u}
  /\ disk' = [disk EXCEPT ![u] = {}]
  /\ UNCHANGED <<tx, timers, prep, coord, client, stop, fleet, exiting>>

\* Time passes for every running deadline.
Tick ==
  /\ \E u \in Updates : left[u] > 0 \/ mark[u] > 0
  /\ left' = [u \in Updates |-> IF left[u] > 0 THEN left[u] - 1 ELSE 0]
  /\ mark' = [u \in Updates |-> IF mark[u] > 0 THEN mark[u] - 1 ELSE 0]
  /\ UNCHANGED <<tx, sweep, disk, prep, coord, client, stop, fleet, exiting>>

-----------------------------------------------------------------------------
(* Mutating client commands (dispatch_client). *)

\* update_gate_refuses, over a command the read-only table does not list
GateRefuses(kind) ==
  InState(PrepareStates) /\ ~(InState({"Draining"}) /\ kind = "drain")

\* The gate reads the transaction's state ...
CommandAdmitted(c) ==
  /\ cmd[c] = "idle"
  /\ \E kind \in Kinds : ~GateRefuses(kind)
  /\ cmd' = [cmd EXCEPT ![c] = "admitted"]
  /\ UNCHANGED <<tx, timers, sweep, disk, prep, coord, latch, stop, fleet, exiting>>

\* ... and only then is the command counted.  Mutant: begin() is lost.
CommandBegins_Uncounted(c) ==
  /\ cmd[c] = "admitted"
  /\ cmd' = [cmd EXCEPT ![c] = "running"]
  /\ UNCHANGED <<tx, timers, sweep, disk, prep, coord, latch, stop, fleet, exiting>>

CommandBegins(c) ==
  /\ cmd[c] = "admitted"
  /\ cmd' = [cmd EXCEPT ![c] = "running"]
  /\ latch' = latch + 1
  /\ UNCHANGED <<tx, timers, sweep, disk, prep, coord, stop, fleet, exiting>>

CommandEnds(c) ==
  /\ cmd[c] = "running"
  /\ cmd' = [cmd EXCEPT ![c] = "idle"]
  /\ latch' = latch - 1
  /\ UNCHANGED <<tx, timers, sweep, disk, prep, coord, stop, fleet, exiting>>

-----------------------------------------------------------------------------
(* The prepare handler (handle_prepare_update_restart). *)

\* BeginOutcome::Started
PrepareStarts(u) ==
  /\ coord[u] = "preparing"
  /\ tx = NoTx
  /\ tx' = [id |-> u, state |-> "Draining"]
  /\ left' = [left EXCEPT ![u] = PrepareBudget]
  /\ prep' = [prep EXCEPT ![u] = "draining"]
  /\ coord' = [coord EXCEPT ![u] = "waiting"]
  /\ UNCHANGED <<mark, sweep, disk, client, stop, fleet, exiting>>

\* BeginOutcome::Refused: another id is active, the coordinator gives up.
\* (AlreadyActive answers a second request for an id; its coordinator has only
\* one outstanding and sends no other once the transaction was left behind.)
PrepareRefused(u) ==
  /\ coord[u] = "preparing"
  /\ InState(PrepareStates) /\ tx.id # u
  /\ coord' = [coord EXCEPT ![u] = "over"]
  /\ UNCHANGED <<tx, timers, sweep, disk, prep, client, stop, fleet, exiting>>

\* Any failure: abort(u), which leaves Stopping and other transactions alone,
\* then the deletion if there are artifacts, and only then the answer.
\* Mutant: the handler answers first and leaves the directory to a task.
RollBack_AnswersFirst(u) ==
  /\ IF InState(PrepareStates \ {"Stopping"}) /\ tx.id = u
       THEN /\ tx' = NoTx
            /\ sweep' = sweep \cup {u}
       ELSE UNCHANGED <<tx, sweep>>
  /\ prep' = [prep EXCEPT ![u] = "failed"]
  /\ UNCHANGED <<timers, disk, coord, client, stop, fleet, exiting>>

RollBack(u) ==
  /\ IF InState(PrepareStates \ {"Stopping"}) /\ tx.id = u
       THEN /\ tx' = NoTx
            /\ prep' = [prep EXCEPT ![u] = IF HasArtifacts THEN "sweeping" ELSE "failed"]
       ELSE /\ prep' = [prep EXCEPT ![u] = "failed"]
            /\ UNCHANGED tx
  /\ UNCHANGED <<timers, sweep, disk, coord, client, stop, fleet, exiting>>

\* wait_for_drain sees the latch at zero, or the deadline with it above zero.
DrainSeen(u) ==
  /\ prep[u] = "draining"
  /\ latch = 0
  /\ prep' = [prep EXCEPT ![u] = "drained"]
  /\ UNCHANGED <<tx, timers, sweep, disk, coord, client, stop, fleet, exiting>>

\* Mutant: the deadline counts only once the drain is over.
DrainTimedOut_WhenDrained(u) ==
  /\ prep[u] = "draining"
  /\ left[u] = 0 /\ latch = 0
  /\ RollBack(u)

DrainTimedOut(u) ==
  /\ prep[u] = "draining"
  /\ left[u] = 0 /\ latch > 0
  /\ RollBack(u)

\* drain_complete; the watchdog may have been first, and then the handler just
\* answers.
DrainComplete(u) ==
  /\ prep[u] = "drained"
  /\ \/ /\ Advance(u, "Draining", "Fenced")
        /\ prep' = [prep EXCEPT ![u] = "collecting"]
     \/ /\ NotActive(u, "Draining")
        /\ prep' = [prep EXCEPT ![u] = "failed"]
  /\ UNCHANGED <<timers, sweep, disk, coord, client, stop, fleet, exiting>>

\* Every resident answers update_snapshot; expires_at is taken here, before
\* the files are written.
Collected(u) ==
  /\ prep[u] = "collecting"
  /\ \A w \in Workers : proc[w] = "up" /\ ~intent[w]
  /\ mark' = [mark EXCEPT ![u] = MarkerBudget]
  /\ prep' = [prep EXCEPT ![u] = "roster"]
  /\ UNCHANGED <<tx, left, sweep, disk, coord, client, stop, fleet, exiting>>

\* A resident is stopping or disconnected, refuses, or outlasts the RPC.
CollectFails(u) ==
  /\ prep[u] = "collecting"
  /\ RollBack(u)

\* write_prepared_artifacts: two atomic file writes, roster first.
WriteArtifact(u) ==
  /\ prep[u] \in Files
  /\ disk' = [disk EXCEPT ![u] = @ \cup {prep[u]}]
  /\ prep' = [prep EXCEPT ![u] = IF @ = "roster" THEN "marker" ELSE "written"]
  /\ UNCHANGED <<tx, timers, sweep, coord, client, stop, fleet, exiting>>

WriteFails(u) ==
  /\ prep[u] \in Files
  /\ RollBack(u)

SnapshotWritten(u) ==
  /\ prep[u] = "written"
  /\ \/ /\ Advance(u, "Fenced", "Snapshotted")
        /\ prep' = [prep EXCEPT ![u] = "acking"]
        /\ UNCHANGED <<timers, sweep, disk, coord, client, stop, fleet, exiting>>
     \/ ~Active(u, "Fenced") /\ RollBack(u)

PrepareAcked(u) ==
  /\ prep[u] = "acking"
  /\ \/ /\ Advance(u, "Snapshotted", "Prepared")
        /\ prep' = [prep EXCEPT ![u] = "idle"]
        /\ coord' = [coord EXCEPT ![u] = IF @ = "waiting" THEN "prepared" ELSE @]
        /\ UNCHANGED <<timers, sweep, disk, client, stop, fleet, exiting>>
     \/ ~Active(u, "Snapshotted") /\ RollBack(u)

RollBackSweeps(u) ==
  /\ prep[u] = "sweeping"
  /\ disk' = [disk EXCEPT ![u] = {}]
  /\ prep' = [prep EXCEPT ![u] = "failed"]
  /\ UNCHANGED <<tx, timers, sweep, coord, client, stop, fleet, exiting>>

\* The failure answer.  The coordinator polls again while its own budget
\* lasts, which began before the supervisor's did.
PrepareFailed(u) ==
  /\ prep[u] = "failed"
  /\ prep' = [prep EXCEPT ![u] = "idle"]
  /\ \E next \in {"preparing", "over"} :
       /\ left[u] = 0 => next = "over"
       /\ coord' = [coord EXCEPT ![u] = IF @ = "waiting" THEN next ELSE @]
  /\ UNCHANGED <<tx, timers, sweep, disk, client, stop, fleet, exiting>>

-----------------------------------------------------------------------------
(* The coordinator (pa-cli update_flow). *)

\* Its RPC times out, its budget ends, or it is killed.
CoordinatorGivesUp(u) ==
  /\ coord[u] \in {"preparing", "waiting", "prepared", "ready"}
  /\ coord' = [coord EXCEPT ![u] = "over"]
  /\ UNCHANGED <<tx, timers, sweep, disk, prep, client, stop, fleet, exiting>>

\* check_marker_fresh
MarkerChecked(u) ==
  /\ coord[u] = "prepared"
  /\ coord' = [coord EXCEPT ![u] =
                 IF "marker" \in disk[u] /\ mark[u] > 0 THEN "ready" ELSE "over"]
  /\ UNCHANGED <<tx, timers, sweep, disk, prep, client, stop, fleet, exiting>>

-----------------------------------------------------------------------------
(* The commit handler (handle_commit_update_restart). *)

\* commit, and request_shutdown to every resident at once.  The dispatch has
\* run AbortIfExpired before, but the marker may expire between the two.
CommitStarts(u) ==
  /\ coord[u] = "ready"
  /\ Advance(u, "Prepared", "Stopping")
  /\ coord' = [coord EXCEPT ![u] = "committing"]
  /\ stop' = [stop EXCEPT ![u] = "stopping"]
  /\ verdict' = [verdict EXCEPT ![u] = [w \in Workers |-> "asked"]]
  /\ intent' = [w \in Workers |-> TRUE]
  /\ UNCHANGED <<timers, sweep, disk, prep, client, proc, late, watch, exiting>>

CommitRefused(u) ==
  /\ coord[u] = "ready"
  /\ NotActive(u, "Prepared")
  /\ coord' = [coord EXCEPT ![u] = "over"]
  /\ UNCHANGED <<timers, sweep, disk, prep, client, stop, fleet, exiting>>

\* The worker flushes, acknowledges and is on its way out.
StopAcked(u, w) ==
  /\ verdict[u][w] = "asked"
  /\ proc[w] = "up"
  /\ verdict' = [verdict EXCEPT ![u][w] = "acked"]
  /\ proc' = [proc EXCEPT ![w] = "ending"]
  /\ UNCHANGED <<tx, timers, sweep, disk, prep, coord, client, stop, late, intent, watch, exiting>>

\* No connection, an error answer, or no answer in worker_stop_ms; a request
\* that was delivered may still be carried out.
StopRefused(u, w) ==
  /\ verdict[u][w] = "asked"
  /\ verdict' = [verdict EXCEPT ![u][w] = "Refused"]
  /\ \/ proc[w] = "up" /\ late' = late \cup {w}
     \/ UNCHANGED late
  /\ UNCHANGED <<tx, timers, sweep, disk, prep, coord, client, stop, proc, intent, watch, exiting>>

\* wait_exit.  Mutant: the exit window's end counts as an exit.
ExitWaited_NeverRefuses(u, w) ==
  /\ verdict[u][w] = "acked"
  /\ verdict' = [verdict EXCEPT ![u][w] = "Stopped"]
  /\ UNCHANGED <<tx, timers, sweep, disk, prep, coord, client, stop, proc, late, intent, watch, exiting>>

ExitWaited(u, w) ==
  /\ verdict[u][w] = "acked"
  /\ verdict' = [verdict EXCEPT ![u][w] = IF proc[w] = "down" THEN "Stopped" ELSE "Refused"]
  /\ UNCHANGED <<tx, timers, sweep, disk, prep, coord, client, stop, proc, late, intent, watch, exiting>>

\* All stopped: the close frame goes out and the exit is 100 ms away.
AllStopped(u) ==
  /\ stop[u] = "stopping"
  /\ \A w \in Workers : verdict[u][w] = "Stopped"
  /\ stop' = [stop EXCEPT ![u] = "closing"]
  /\ UNCHANGED <<tx, timers, sweep, disk, prep, coord, client, fleet, exiting>>

ExitForUpdate(u) ==
  /\ stop[u] = "closing"
  /\ exiting' = TRUE
  /\ UNCHANGED <<tx, timers, sweep, disk, prep, coord, client, stop, fleet>>

\* Any refusal: abandon_stopping and its deletion ...
Abandon(u) ==
  /\ stop[u] = "stopping"
  /\ \A w \in Workers : verdict[u][w] \in {"Stopped", "Refused"}
  /\ \E w \in Workers : verdict[u][w] = "Refused"
  /\ stop' = [stop EXCEPT ![u] = "restoring"]
  /\ IF Active(u, "Stopping")
       THEN tx' = NoTx /\ disk' = [disk EXCEPT ![u] = {}]
       ELSE UNCHANGED <<tx, disk>>
  /\ UNCHANGED <<timers, sweep, prep, coord, client, fleet, exiting>>

\* ... then worker by worker: the stop flag is taken back, and a stopped one
\* is relaunched and given a new monitor.
Restore(u, w) ==
  /\ stop[u] = "restoring"
  /\ verdict[u][w] \in {"Stopped", "Refused"}
  /\ verdict' = [verdict EXCEPT ![u][w] = IF @ = "Stopped" THEN "relaunching" ELSE "none"]
  /\ intent' = [intent EXCEPT ![w] = FALSE]
  /\ UNCHANGED <<tx, timers, sweep, disk, prep, coord, client, stop, proc, late, watch, exiting>>

\* A relaunch that fails is logged, and nobody tries again.
RestoreRelaunches(u, w) ==
  /\ verdict[u][w] = "relaunching"
  /\ verdict' = [verdict EXCEPT ![u][w] = "none"]
  /\ \/ proc' = [proc EXCEPT ![w] = "up"] /\ watch' = [watch EXCEPT ![w] = @ \cup {"child"}]
     \/ UNCHANGED <<proc, watch>>
  /\ UNCHANGED <<tx, timers, sweep, disk, prep, coord, client, stop, late, intent, exiting>>

Restored(u) ==
  /\ stop[u] = "restoring"
  /\ \A w \in Workers : verdict[u][w] = "none"
  /\ stop' = [stop EXCEPT ![u] = "idle"]
  /\ coord' = [coord EXCEPT ![u] = "over"]
  /\ UNCHANGED <<tx, timers, sweep, disk, prep, client, fleet, exiting>>

-----------------------------------------------------------------------------
(* The workers and their monitors (watch_worker). *)

\* A process ends; the monitor that waits on its child stands down if the stop
\* was intentional, and otherwise takes it for a crash.
Gone(w) ==
  /\ proc' = [proc EXCEPT ![w] = "down"]
  /\ late' = late \ {w}
  /\ watch' = [watch EXCEPT ![w] = IF intent[w] THEN @ \ {"child"} ELSE @]

Crash(w) ==
  /\ proc[w] = "up"
  /\ Gone(w)
  /\ UNCHANGED <<tx, timers, sweep, disk, prep, coord, client, stop, verdict, intent, exiting>>

Leave(w) ==
  /\ proc[w] = "ending"
  /\ Gone(w)
  /\ UNCHANGED <<tx, timers, sweep, disk, prep, coord, client, stop, verdict, intent, exiting>>

\* An abandoned shutdown request is carried out after all.
LateStop(w) ==
  /\ w \in late /\ proc[w] = "up"
  /\ proc' = [proc EXCEPT ![w] = "ending"]
  /\ late' = late \ {w}
  /\ UNCHANGED <<tx, timers, sweep, disk, prep, coord, client, stop, verdict, intent, watch, exiting>>

\* The poll of an adopted pid looks at the flag before it looks at the pid.
PollStandsDown(w) ==
  /\ "poll" \in watch[w] /\ intent[w]
  /\ watch' = [watch EXCEPT ![w] = @ \ {"poll"}]
  /\ UNCHANGED <<tx, timers, sweep, disk, prep, coord, client, stop, verdict, proc, late, intent, exiting>>

\* The crash path: back off, relaunch_worker unless is_stopping, watch the new
\* child.  (Monitors of one kind are not counted apart, and what a second monitor
\* does beside a worker that is up again is not followed.)
Relaunch(w) ==
  /\ watch[w] # {} /\ proc[w] = "down" /\ ~intent[w]
  /\ proc' = [proc EXCEPT ![w] = "up"]
  /\ watch' = [watch EXCEPT ![w] = {"child"}]
  /\ UNCHANGED <<tx, timers, sweep, disk, prep, coord, client, stop, verdict, late, intent, exiting>>

-----------------------------------------------------------------------------

PrepareStep(u) ==
  \/ DrainSeen(u) \/ DrainTimedOut(u) \/ DrainComplete(u)
  \/ Collected(u) \/ CollectFails(u)
  \/ WriteArtifact(u) \/ WriteFails(u)
  \/ SnapshotWritten(u) \/ PrepareAcked(u)
  \/ RollBackSweeps(u) \/ PrepareFailed(u)

CoordinatorStep(u) ==
  \/ PrepareStarts(u) \/ PrepareRefused(u)
  \/ MarkerChecked(u) \/ CoordinatorGivesUp(u)
  \/ CommitStarts(u) \/ CommitRefused(u)

CommitStep(u) ==
  \/ AllStopped(u) \/ ExitForUpdate(u) \/ Abandon(u) \/ Restored(u)
  \/ \E w \in Workers : Restore(u, w) \/ RestoreRelaunches(u, w)

VerdictStep(u) == \E w \in Workers : StopAcked(u, w) \/ StopRefused(u, w) \/ ExitWaited(u, w)

WorkerStep(w) ==
  \/ Crash(w) \/ Leave(w) \/ LateStop(w) \/ PollStandsDown(w) \/ Relaunch(w)

ClientStep(c) == CommandAdmitted(c) \/ CommandBegins(c) \/ CommandEnds(c)

\* exit_for_update ends the process.
Next ==
  /\ ~exiting
  /\ \/ Tick \/ AbortIfExpired
     \/ \E u \in Updates : \/ FinishAbort(u) \/ PrepareStep(u) \/ CoordinatorStep(u)
                        \/ VerdictStep(u) \/ CommitStep(u)
     \/ \E w \in Workers : WorkerStep(w)
     \/ \E c \in Clients : ClientStep(c)

Spec == Init /\ [][Next]_vars

\* The watchdog's timer fires, time passes, and the spawned handlers are run
\* to their end, each await of theirs being under a timeout.  Nothing is
\* assumed of the coordinators, the clients or the workers.
FairSpec ==
  /\ Spec
  /\ WF_vars(~exiting /\ Tick)
  /\ WF_vars(~exiting /\ AbortIfExpired)
  /\ \A u \in Updates : /\ WF_vars(~exiting /\ FinishAbort(u))
                        /\ WF_vars(~exiting /\ PrepareStep(u))
                        /\ WF_vars(~exiting /\ VerdictStep(u))
                        /\ WF_vars(~exiting /\ CommitStep(u))

-----------------------------------------------------------------------------
(* The parts of the inductive invariants. *)

\* Where the handler and the coordinator of the active transaction can be.
Phases ==
  \A u \in Updates :
    /\ coord[u] = "preparing" => prep[u] = "idle" /\ (tx # NoTx => tx.id # u)
    /\ Active(u, "Draining") => prep[u] \in {"draining", "drained"}
    /\ Active(u, "Fenced") => prep[u] \in {"collecting", "roster", "marker", "written"}
    /\ Active(u, "Snapshotted") => prep[u] = "acking"
    /\ Active(u, "Prepared") \/ Active(u, "Stopping") => prep[u] = "idle"

\* An id whose directory is still to be deleted is not prepared again.
SweepsAreFinal ==
  \A u \in sweep :
    /\ tx # NoTx => tx.id # u
    /\ coord[u] # "preparing"
    /\ prep[u] \in {"idle", "acking", "failed"}
    /\ prep[u] # "idle" => left[u] = 0

\* What a handler has written is still there.
WrittenSoFar ==
  \A u \in Updates :
    /\ prep[u] = "marker" => disk[u] = {"roster"} \/ disk[u] = Files
    /\ prep[u] = "written" => disk[u] = Files

\* The commit handler of the Stopping transaction, and its verdicts.
CommitShape ==
  \A u \in Updates :
    /\ stop[u] \in {"stopping", "closing"} <=> Active(u, "Stopping")
    /\ stop[u] = "closing" => \A w \in Workers : verdict[u][w] = "Stopped"

\* The transaction of u has every worker's snapshot, and no commit yet.
HasSnapshots(u) ==
  \/ Active(u, "Fenced") /\ prep[u] # "collecting"
  \/ Active(u, "Snapshotted")
  \/ Active(u, "Prepared")

\* The workers that this supervisor launched, and watches as its children.
Launched == Workers \ Adopted

\* A transaction that has got its snapshots finds no stop of a launched worker
\* under way, and such a worker is never in two stops at once.
OneStop ==
  \A u, v \in Updates, w \in Launched :
    /\ HasSnapshots(u) => verdict[v][w] = "none"
    /\ verdict[u][w] # "none" /\ verdict[v][w] # "none" => u = v

\* What a verdict says of a launched worker, and of its monitor.
VerdictsHold ==
  \A u \in Updates, w \in Launched :
    /\ verdict[u][w] \in {"asked", "acked", "Stopped", "Refused"} => intent[w]
    /\ verdict[u][w] = "acked" => proc[w] # "up"
    /\ verdict[u][w] \in {"Stopped", "relaunching"} => proc[w] = "down"
    /\ verdict[u][w] \in {"acked", "Stopped", "relaunching"} /\ proc[w] = "down"
         => watch[w] = {}

\* No monitor of a launched worker polls it.
OnlyChildren == \A w \in Launched : watch[w] \subseteq {"child"}

-----------------------------------------------------------------------------
(* Properties. *)

\* From Snapshotted until the exit or the abandonment the transaction has both
\* its files on disk (update_prepare.rs:70-81, update_restart.rs:280-291): no
\* deletion left over from an earlier attempt under the same id can hit them.
PreparedIsDurable == HasArtifacts => disk[tx.id] = Files

\* The inductive invariant behind PreparedIsDurable.
DurableInv == TypeOK /\ Phases /\ SweepsAreFinal /\ WrittenSoFar /\ PreparedIsDurable

\* The inductive invariant behind ExitOnlyAfterStop.
StopInv == TypeOK /\ CommitShape /\ OneStop /\ VerdictsHold /\ OnlyChildren

\* When the exit is decided, every worker that this supervisor launched is gone
\* and stays gone: no monitor brings one back under the departing supervisor
\* (update_restart.rs:401-460).  The poll of an adopted worker may outlive an
\* abandoned update, and does bring it back under a second one.
ExitOnlyAfterStop ==
  \A u \in Updates : stop[u] = "closing" => \A w \in Launched : proc[w] = "down"

\* "all {stopped} worker(s) stopped; exiting for the update"
\* (update_restart.rs:401-404), of every worker.  Two updates and an adopted
\* worker refute it.
ExitAfterEveryStop ==
  \A u \in Updates : stop[u] = "closing" => \A w \in Workers : proc[w] = "down"

\* Whatever becomes of its coordinator, a transaction ends: the supervisor
\* serves again or exits for the update (update_prepare.rs:5-14, the
\* watchdog of update_restart.rs:519-530).
TransactionEnds == tx # NoTx ~> (tx = NoTx \/ exiting)

\* A prepare request is answered within the budgets
\* (update_restart.rs:63-68).
PrepareAnswered ==
  \A u \in Updates : prep[u] # "idle" ~> (prep[u] = "idle" \/ exiting)

\* "Restore normal supervision: the stop request may still land late, in
\* which case the monitor treats the exit as a crash and relaunches"
\* (update_restart.rs:379-382): after an abandoned update each worker that is
\* up has its one monitor again.
SupervisionRestored ==
  (\A u \in Updates : stop[u] = "idle")
    => \A w \in Workers : proc[w] = "up" => Cardinality(watch[w]) = 1

=============================================================================
