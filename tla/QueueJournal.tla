---------------------------- MODULE QueueJournal ----------------------------
(***************************************************************************)
(* What a worker's queue leaves behind when its process dies: the worker    *)
(* recovery journal (crates/pa-daemon/src/journal.rs), the checkpoints that *)
(* write it (worker/queue.rs and their callers) and the boot that reads it  *)
(* (worker/create.rs, supervisor/adoption.rs).                              *)
(*                                                                         *)
(* TurnQueue has the order and the lanes of the queue; here both lanes are  *)
(* one set.  A checkpoint is two steps under the recovery lock: it reads    *)
(* the lanes under the core lock, lets go of that, and writes what it read, *)
(* while inputs arrive, rows leave and turns begin and end.                 *)
(***************************************************************************)
EXTENDS Naturals, FiniteSets

CONSTANTS
  Inputs,      \* the inputs of a run, each sent once
  MaxEnds,     \* bound on the ends of the process, kills and shutdowns
  Loads        \* what may happen in one run, see LoadAssumption

AllCommands == {"clear", "abort", "snapshot", "shutdown"}

\* The inputs and commands in use, how often the process ends, and whether a
\* write may fail, with any part of it on disk.
ASSUME LoadAssumption ==
  Loads \subseteq [inputs : SUBSET Inputs, commands : SUBSET AllCommands,
                   ends : 0..MaxEnds, errors : BOOLEAN]
ASSUME BoundAssumption == MaxEnds \in Nat

VARIABLES
  up,       \* the process runs
  queue,    \* the inputs in the lanes
  direct,   \* those that entered an idle session, invisible to clients
  runner,   \* the turn runner: its step, the turn in flight, core.busy
  task,     \* task[i]: where the command that carries input i is
  op,       \* the other command in dispatch
  lock,     \* the checkpoint that holds the recovery lock: what it is for,
            \* whose rows it speaks for, the lanes and the verdict it read
  mem,      \* the journal in memory: latest verdict, latest snapshot
  disk,     \* the same in the file, and whether its last line is a fragment
  told,     \* told[i]: the last thing a client was told of i
  ends,     \* kills and shutdowns so far
  load      \* the load of this run: it never changes

vars == <<up, queue, direct, runner, task, op, lock, mem, disk, told, ends>>

Verdicts ==
  [busy : BOOLEAN, op : {"none", "create", "accepted", "turn_end", "cleared", "shutdown"}]

TypeOK ==
  /\ up \in BOOLEAN /\ queue \subseteq Inputs /\ direct \subseteq Inputs
  /\ runner \in [pc : {"idle", "turn", "ended"}, batch : SUBSET Inputs, busy : BOOLEAN]
  /\ task \in [Inputs -> {"new", "queued", "done"}]
  /\ op \in [pc : {"idle", "clear", "snapshot"}, lanes : SUBSET Inputs]
  /\ lock \in [op : {"none", "accepted", "turn_end", "cleared"}, rows : SUBSET Inputs,
              lanes : SUBSET Inputs, busy : BOOLEAN]
  /\ mem \in [verdict : Verdicts, snap : SUBSET Inputs]
  /\ disk \in [verdict : Verdicts, snap : SUBSET Inputs, torn : BOOLEAN]
  /\ told \in [Inputs -> {"nothing", "accepted", "settled", "withdrawn", "cleared",
                         "aborted", "broken"}]
  /\ ends \in 0..MaxEnds
  /\ queue \cap runner.batch = {}

Asleep == [pc |-> "idle", batch |-> {}, busy |-> FALSE]
NoOp == [pc |-> "idle", lanes |-> {}]
Free == [op |-> "none", rows |-> {}, lanes |-> {}, busy |-> FALSE]
NoVerdict == [busy |-> FALSE, op |-> "none"]

\* The worker of a new session, its journal open and still empty.
Init ==
  /\ up = FALSE /\ queue = {} /\ direct = {} /\ runner = Asleep /\ op = NoOp
  /\ lock = Free /\ ends = 0
  /\ load \in Loads
  /\ task = [i \in Inputs |-> IF i \in load.inputs THEN "new" ELSE "done"]
  /\ told = [i \in Inputs |-> "nothing"]
  /\ mem = [verdict |-> NoVerdict, snap |-> {}]
  /\ disk = [verdict |-> NoVerdict, snap |-> {}, torn |-> FALSE]

-----------------------------------------------------------------------------
(* The journal *)

\* A write appends lines of these kinds, a snapshot first; its values are what
\* memory will hold, m.  The loader skips what it cannot parse, and the last
\* line of a kind wins: a line appended to a fragment is lost with it.
First(kinds) == IF "snap" \in kinds THEN {"snap"} ELSE kinds
Landed(kinds, m) ==
  LET read == IF disk.torn THEN kinds \ First(kinds) ELSE kinds IN
  [snap |-> IF "snap" \in read THEN m.snap ELSE disk.snap,
   verdict |-> IF "verdict" \in read THEN m.verdict ELSE disk.verdict,
   torn |-> FALSE]

\* An all-idle journal is rewritten from memory; a rename publishes it.
Compacted(m) == [snap |-> m.snap, verdict |-> m.verdict, torn |-> FALSE]

\* The file when all the lines are written: a failed rewrite leaves the append.
Published(kinds, m, compacts) ==
  IF compacts THEN {Compacted(m)} \cup {f \in {Landed(kinds, m)} : load.errors}
  ELSE {Landed(kinds, m)}

\* append_records wrote everything, and memory follows; or it failed with some
\* of the lines and perhaps a fragment on disk.
Write(kinds, m, compacts) ==
  \/ /\ mem' = m
     /\ disk' \in Published(kinds, m, compacts)
  \/ /\ load.errors /\ mem' = mem
     /\ \E done \in {{}, First(kinds), kinds} :
          \/ disk' = IF done = {} THEN disk ELSE Landed(done, m)
          \/ done # kinds /\ disk' = [Landed(done, m) EXCEPT !.torn = TRUE]

\* record: an unchanged verdict is not written.
Record(v) ==
  IF v = mem.verdict THEN UNCHANGED <<mem, disk>>
  ELSE Write({"verdict"}, [mem EXCEPT !.verdict = v], ~v.busy)

\* Mutant: an unchanged verdict keeps the snapshot from being written.
Checkpoint_IfChanged(lanes, v) ==
  IF v = mem.verdict THEN UNCHANGED <<mem, disk>>
  ELSE Write({"snap", "verdict"}, [verdict |-> v, snap |-> lanes], ~v.busy)

\* record_queue_checkpoint: snapshot and verdict in one write.
Checkpoint(lanes, v) ==
  LET changed == v # mem.verdict IN
  Write(IF changed THEN {"snap", "verdict"} ELSE {"snap"},
        [verdict |-> v, snap |-> lanes], changed /\ ~v.busy)

\* Mutant: the turn alone makes the verdict.
Settled_ByTurn(lanes) == runner.busy

\* A settled verdict is busy while a turn is in flight or rows are queued.
Settled(lanes) == runner.busy \/ lanes # {}

\* checkpoint_queue_recovery takes the recovery lock, reads the lanes and
\* core.busy under the core lock and computes the verdict.
Locks(o, rows, busy) ==
  /\ lock = Free
  /\ lock' = [op |-> o, rows |-> rows, lanes |-> queue, busy |-> busy]

\* It writes what it read and lets the recovery lock go.
Saves(o) ==
  /\ lock.op = o
  /\ Checkpoint(lock.lanes, [busy |-> lock.busy, op |-> o])
  /\ lock' = Free

\* The client of each of these rows hears of it.
Tell(rows, what) == told' = [i \in Inputs |-> IF i \in rows THEN what ELSE told[i]]

-----------------------------------------------------------------------------
(* The commands of a running worker *)

\* An input enters its lane.
Enqueue(i) ==
  /\ up /\ task[i] = "new"
  /\ queue' = queue \cup {i}
  /\ direct' = IF runner.busy THEN direct ELSE direct \cup {i}
  /\ task' = [task EXCEPT ![i] = "queued"]
  /\ UNCHANGED <<up, runner, op, lock, mem, disk, told, ends>>

\* Mutant: a checkpoint already on its way stands for this one.
Admit_Coalesced(i) ==
  /\ up /\ task[i] = "queued"
  /\ IF lock = Free
     THEN Locks("accepted", {i}, TRUE) /\ UNCHANGED <<task, told>>
     ELSE /\ told' = [told EXCEPT ![i] = IF @ = "nothing" THEN "accepted" ELSE @]
          /\ task' = [task EXCEPT ![i] = "done"]
          /\ UNCHANGED lock
  /\ UNCHANGED <<up, queue, direct, runner, op, mem, disk, ends>>

\* The admission checkpoint of the command that carries i, then its answer.
Admit(i) ==
  /\ up /\ task[i] = "queued"
  /\ Locks("accepted", {i}, TRUE)
  /\ UNCHANGED <<up, queue, direct, runner, task, op, mem, disk, told, ends>>

AdmitAnswers(i) ==
  /\ up /\ i \in lock.rows
  /\ Saves("accepted")
  /\ told' = [told EXCEPT ![i] = IF @ = "nothing" THEN "accepted" ELSE @]
  /\ task' = [task EXCEPT ![i] = "done"]
  /\ UNCHANGED <<up, queue, direct, runner, op, ends>>

\* Mutant: the row stays in its lane while its turn runs.
PickUp_Peeks(i) ==
  /\ up /\ runner.pc = "idle" /\ i \in queue
  /\ runner' = [pc |-> "turn", batch |-> {i}, busy |-> TRUE]
  /\ UNCHANGED <<up, queue, direct, task, op, lock, mem, disk, told, ends>>

\* Without a checkpoint.
PickUp(i) ==
  /\ up /\ runner.pc = "idle" /\ i \in queue
  /\ queue' = queue \ {i}
  /\ runner' = [pc |-> "turn", batch |-> {i}, busy |-> TRUE]
  /\ UNCHANGED <<up, direct, task, op, lock, mem, disk, told, ends>>

TurnEnds ==
  /\ up /\ runner.pc = "turn"
  /\ runner' = [runner EXCEPT !.pc = "ended", !.busy = FALSE]
  /\ UNCHANGED <<up, queue, direct, task, op, lock, mem, disk, told, ends>>

\* The settle checkpoint of the turn, then the answers of its rows.
TurnSettles ==
  /\ up /\ runner.pc = "ended"
  /\ Locks("turn_end", runner.batch, Settled(queue))
  /\ UNCHANGED <<up, queue, direct, runner, task, op, mem, disk, told, ends>>

TurnAnswers ==
  /\ up /\ Saves("turn_end")
  /\ Tell(lock.rows, "settled")
  /\ runner' = Asleep
  /\ UNCHANGED <<up, queue, direct, task, op, ends>>

Arrives(c) == up /\ c \in load.commands /\ op = NoOp

\* clear_queue, a delete, a cancelled admission: the rows go, and with them the
\* channels their senders wait on.
Clear ==
  /\ Arrives("clear")
  /\ \E S \in SUBSET queue :
       /\ S # {} /\ queue' = queue \ S
       /\ Tell(S, "withdrawn")
       /\ op' = [pc |-> "clear", lanes |-> S]
  /\ UNCHANGED <<up, direct, runner, task, lock, mem, disk, ends>>

\* Then the checkpoint, and the answer of the command itself.
ClearSettles ==
  /\ up /\ op.pc = "clear"
  /\ Locks("cleared", op.lanes, Settled(queue))
  /\ UNCHANGED <<up, queue, direct, runner, task, op, mem, disk, told, ends>>

\* Mutant: the snapshot on disk is left alone, the verdict alone is written.
ClearAnswers_VerdictOnly ==
  /\ up /\ lock.op = "cleared"
  /\ Record([busy |-> lock.busy, op |-> "cleared"]) /\ lock' = Free
  /\ Tell(lock.rows, "cleared")
  /\ op' = NoOp
  /\ UNCHANGED <<up, queue, direct, runner, task, ends>>

ClearAnswers ==
  /\ up /\ Saves("cleared")
  /\ Tell(lock.rows, "cleared")
  /\ op' = NoOp
  /\ UNCHANGED <<up, queue, direct, runner, task, ends>>

\* request_abort answers the invisible rows and writes no checkpoint.
Abort ==
  /\ Arrives("abort")
  /\ queue' = queue \ direct
  /\ Tell(queue \cap direct, "aborted")
  /\ UNCHANGED <<up, direct, runner, task, op, lock, mem, disk, ends>>

\* update_snapshot reads the lanes before it takes the recovery lock.
SnapshotReads ==
  /\ Arrives("snapshot")
  /\ op' = [pc |-> "snapshot", lanes |-> queue]
  /\ UNCHANGED <<up, queue, direct, runner, task, lock, mem, disk, told, ends>>

SnapshotWrites ==
  /\ up /\ op.pc = "snapshot" /\ lock = Free
  /\ Write({"snap"}, [mem EXCEPT !.snap = op.lanes], FALSE)
  /\ op' = NoOp
  /\ UNCHANGED <<up, queue, direct, runner, task, lock, told, ends>>

-----------------------------------------------------------------------------
(* The end of the process, and the next one *)

Gone ==
  /\ up' = FALSE /\ queue' = {} /\ runner' = Asleep /\ op' = NoOp /\ lock' = Free
  /\ task' = [i \in Inputs |-> IF task[i] = "queued" THEN "done" ELSE task[i]]

\* A shutdown closed the admission and waited for the turn.
Shutdown ==
  /\ Arrives("shutdown") /\ runner = Asleep /\ lock = Free /\ ends < load.ends
  /\ ends' = ends + 1
  /\ Record([busy |-> FALSE, op |-> "shutdown"])
  /\ Gone
  /\ UNCHANGED <<direct, told>>

\* A kill breaks the turn in flight; what a checkpoint read and had not
\* written is lost, and so is the answer of its command.
Crash ==
  /\ up /\ ends < load.ends
  /\ ends' = ends + 1
  /\ Tell(runner.batch, "broken")
  /\ Gone
  /\ UNCHANGED <<direct, mem, disk>>

\* Mutant: a new worker starts with empty lanes.
Restored_None == {}

\* The lanes of the last snapshot.
Restored == disk.snap

\* The worker is launched, by its supervisor or by a client that opens the
\* session: it restores the lanes, then records the create.
Boot ==
  /\ ~up /\ up' = TRUE /\ queue' = Restored
  /\ LET loaded == [verdict |-> disk.verdict, snap |-> disk.snap]
         v == [busy |-> TRUE, op |-> "create"]
     IN \/ /\ mem' = [loaded EXCEPT !.verdict = v]
           /\ disk' = IF v = disk.verdict THEN disk
                      ELSE Landed({"verdict"}, [loaded EXCEPT !.verdict = v])
        \/ load.errors /\ mem' = loaded /\ disk' \in {disk, [disk EXCEPT !.torn = TRUE]}
  /\ UNCHANGED <<direct, runner, task, op, lock, told, ends>>

-----------------------------------------------------------------------------

Runner == (\E i \in Inputs : PickUp(i)) \/ TurnEnds \/ TurnSettles \/ TurnAnswers

Next ==
  \/ \E i \in Inputs : Enqueue(i) \/ Admit(i) \/ AdmitAnswers(i)
  \/ Runner
  \/ Clear \/ ClearSettles \/ ClearAnswers \/ Abort \/ SnapshotReads \/ SnapshotWrites
  \/ Shutdown \/ Crash \/ Boot

Spec == Init /\ [][Next /\ UNCHANGED load]_<<vars, load>>

\* Tasks run, turns end, and a session that went down is opened again.
FairSpec ==
  /\ Spec
  /\ WF_vars(Runner) /\ WF_vars(Boot)
  /\ WF_vars(ClearSettles) /\ WF_vars(ClearAnswers) /\ WF_vars(SnapshotWrites)
  /\ \A i \in Inputs : WF_vars(Admit(i)) /\ WF_vars(AdmitAnswers(i))

-----------------------------------------------------------------------------
(* Properties *)

\* The load writes the lanes only as they are, and no write fails.
Steady == "snapshot" \notin load.commands /\ ~load.errors

\* What was accepted survives a kill: while it is queued it is on disk.
AcceptedIsDurable ==
  Steady /\ up => \A i \in queue : told[i] = "accepted" => i \in disk.snap

\* Once a turn or a clear has answered, no later process runs its rows: the
\* snapshot that lacks them was written first, and none that was read before
\* they left is written after it.  The sender of a withdrawn row hears of it
\* earlier and is promised nothing.
AnsweredIsForgotten ==
  Steady => \A i \in disk.snap : told[i] \notin {"settled", "cleared"}

\* Accepted work that is live: it waits in a lane, or its turn runs.
AcceptedWork ==
  \E i \in queue \cup runner.batch : told[i] = "accepted" /\ (i \in queue \/ runner.busy)

\* A kill over accepted work reads as interrupted work, so that a supervisor
\* that boots later brings the worker back.
WorkReadsInterrupted ==
  ~load.errors /\ up /\ AcceptedWork => disk.verdict.busy

\* Whatever writes fail, only a shutdown turns the journal idle over accepted
\* work.  The verdict may be older than its write: a row that came in between
\* is accepted by a checkpoint that has to wait for it.
IdleIsEarned ==
  [][disk.verdict.busy /\ ~disk'.verdict.busy
       => ~AcceptedWork \/ disk'.verdict.op = "shutdown"]_vars

\* Through kills and restarts, what was accepted is run and answered, unless
\* it was in its turn when the process was killed.
AcceptedRuns ==
  \A i \in Inputs : (Steady /\ told[i] = "accepted") ~> told[i] # "accepted"

-----------------------------------------------------------------------------
(* What comments of the code claim and the code does not keep *)

\* "a turn that settled with empty lanes leaves the session idle, so an
\* unclean kill from here on must NOT read as interrupted work".
Quiet ==
  /\ up /\ op = NoOp /\ lock = Free /\ runner = Asleep /\ queue = {}
  /\ \A i \in Inputs : task[i] # "queued"
IdleReadsIdle ==
  Quiet /\ (\A i \in Inputs : told[i] \in {"nothing", "settled"}) =>
    disk.verdict.op \in {"none", "create"} \/ ~disk.verdict.busy

\* "no persist can interleave between this read and the appends": a snapshot
\* never loses a row that an earlier one has and that still waits.
PersistsInOrder == [][\A i \in disk.snap \cap queue : i \in queue' => i \in disk'.snap]_vars

\* "the drop cannot leave [...] its snapshot rows promising a revive work that
\* was cancelled".
CancelledRowsGo == \A i \in disk.snap : told[i] # "aborted"

\* "The verdict never publishes over a snapshot that did not persist".
VerdictHasSnapshot ==
  [][disk'.verdict # disk.verdict /\ disk'.verdict.op \in {"accepted", "turn_end", "cleared"}
       => disk'.snap = lock.lanes]_vars

=============================================================================
