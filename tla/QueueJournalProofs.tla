------------------------- MODULE QueueJournalProofs -------------------------
(***************************************************************************)
(* What QueueJournal keeps for every set of inputs, every load and any      *)
(* number of kills: its types, that only a shutdown turns its verdict idle  *)
(* over accepted work, and, while no write fails, that such work reads as   *)
(* interrupted, that accepted rows are on disk and answered ones are not.   *)
(* A checkpoint is two steps: the invariant carries what is still true of   *)
(* the lanes and the verdict it read when it comes to write them.           *)
(***************************************************************************)
EXTENDS QueueJournal, TLAPS

Memory == [verdict : Verdicts, snap : SUBSET Inputs]
File == [verdict : Verdicts, snap : SUBSET Inputs, torn : BOOLEAN]

\* A worker that is down has no lanes, no turn, no command and no checkpoint.
DownIsEmpty == ~up => queue = {} /\ runner = Asleep /\ op = NoOp /\ lock = Free

\* What has not been sent is nowhere, and nobody was told anything of it.
NewIsNowhere ==
  \A i \in Inputs : task[i] = "new" =>
    /\ told[i] = "nothing"
    /\ i \notin queue \cup runner.batch \cup op.lanes \cup mem.snap \cup disk.snap
    /\ i \notin lock.rows \cup lock.lanes

\* A snapshot in dispatch was asked for; a clear holds rows that left.
OpIsAsked ==
  /\ op.pc = "snapshot" => "snapshot" \in load.commands
  /\ op.pc = "clear" => op.lanes \cap queue = {}

\* While no write fails, memory is what the file reads as.
MemIsDisk ==
  ~load.errors => mem.verdict = disk.verdict /\ mem.snap = disk.snap /\ ~disk.torn

\* The holder of the recovery lock is in its step still, and the rows it will
\* answer are not among the lanes it read.
LockFits ==
  /\ lock.op = "none" => lock = Free
  /\ lock.op = "accepted" => lock.busy
  /\ lock.op = "turn_end" =>
       runner.pc = "ended" /\ lock.rows = runner.batch /\ runner.batch \cap lock.lanes = {}
  /\ lock.op = "cleared" =>
       op.pc = "clear" /\ lock.rows = op.lanes /\ op.lanes \cap lock.lanes = {}

\* What waits was not answered.
QueuedIsOpen ==
  Steady => \A i \in queue : told[i] \notin {"settled", "cleared"}

\* What a checkpoint read, however old: every accepted row that still waits and
\* the row it will accept, no accepted work when it read idle, and no row that
\* was answered since.
LockCovers ==
  lock.op # "none" =>
    \A i \in queue : told[i] = "accepted" \/ i \in lock.rows => i \in lock.lanes
LockEarns == lock.op # "none" /\ ~lock.busy => ~AcceptedWork
LockIsOpen == Steady => \A i \in lock.lanes : told[i] \notin {"settled", "cleared"}

Shape ==
  /\ TypeOK /\ load \in Loads
  /\ DownIsEmpty /\ NewIsNowhere /\ OpIsAsked /\ MemIsDisk /\ LockFits
Kept ==
  /\ WorkReadsInterrupted /\ AcceptedIsDurable /\ AnsweredIsForgotten /\ QueuedIsOpen
  /\ LockCovers /\ LockEarns /\ LockIsOpen
IInv == Shape /\ Kept

-----------------------------------------------------------------------------
(* The journal *)

\* What one write may change, and what it changes when it does not fail
\* (append_records, rewrite_records).
LEMMA WriteEffect ==
  ASSUME mem \in Memory, disk \in File,
         NEW kinds \in {{"snap"}, {"verdict"}, {"snap", "verdict"}},
         NEW STATE m, m \in Memory, NEW STATE compacts, compacts \in BOOLEAN,
         Write(kinds, m, compacts)
  PROVE  /\ mem' \in {mem, m} /\ disk' \in File
         /\ disk'.verdict \in {disk.verdict, m.verdict}
         /\ disk'.snap \in {disk.snap, m.snap}
         /\ "verdict" \notin kinds /\ ~compacts => disk'.verdict = disk.verdict
         /\ ~load.errors /\ ~disk.torn =>
              /\ mem' = m /\ ~disk'.torn
              /\ "verdict" \in kinds \/ m.verdict = disk.verdict => disk'.verdict = m.verdict
              /\ "snap" \in kinds \/ m.snap = disk.snap => disk'.snap = m.snap
<1> DEFINE L(done) == Landed(done, m)
<1>1. \A done \in SUBSET {"snap", "verdict"} :
        /\ L(done) \in File /\ ~L(done).torn
        /\ L(done).verdict \in {disk.verdict, m.verdict}
        /\ L(done).snap \in {disk.snap, m.snap}
        /\ "verdict" \notin done => L(done).verdict = disk.verdict
        /\ [L(done) EXCEPT !.torn = TRUE] \in File
        /\ [L(done) EXCEPT !.torn = TRUE].verdict = L(done).verdict
        /\ [L(done) EXCEPT !.torn = TRUE].snap = L(done).snap
  BY DEF Landed, File, Memory
<1>2. /\ Compacted(m) \in File /\ ~Compacted(m).torn
      /\ Compacted(m).verdict = m.verdict /\ Compacted(m).snap = m.snap
  BY DEF Compacted, File, Memory
<1>3. First(kinds) \in SUBSET {"snap", "verdict"} /\ kinds \in SUBSET {"snap", "verdict"}
  BY DEF First
<1>4. CASE mem' = m /\ disk' \in Published(kinds, m, compacts)
  <2>1. disk' = Compacted(m) \/ disk' = L(kinds)
    BY <1>4 DEF Published
  <2>2. ~load.errors /\ compacts => disk' = Compacted(m)
    BY <1>4 DEF Published
  <2>3. ~compacts => disk' = L(kinds)
    BY <1>4 DEF Published
  <2>4. ~disk.torn /\ ("verdict" \in kinds \/ m.verdict = disk.verdict)
          => L(kinds).verdict = m.verdict
    BY <1>3 DEF Landed
  <2>5. ~disk.torn /\ ("snap" \in kinds \/ m.snap = disk.snap) => L(kinds).snap = m.snap
    BY <1>3 DEF Landed
  <2> HIDE DEF L
  <2> QED BY <1>1, <1>2, <1>3, <1>4, <2>1, <2>2, <2>3, <2>4, <2>5
<1>5. CASE /\ load.errors /\ mem' = mem
           /\ \E done \in {{}, First(kinds), kinds} :
                \/ disk' = IF done = {} THEN disk ELSE L(done)
                \/ done # kinds /\ disk' = [L(done) EXCEPT !.torn = TRUE]
  <2>1. PICK done \in {{}, First(kinds), kinds} :
          \/ disk' = IF done = {} THEN disk ELSE L(done)
          \/ done # kinds /\ disk' = [L(done) EXCEPT !.torn = TRUE]
    BY <1>5
  <2>2. done \in SUBSET {"snap", "verdict"} /\ done \subseteq kinds
    BY <1>3 DEF First
  <2> HIDE DEF L
  <2> QED BY <1>1, <1>5, <2>1, <2>2
<1> QED BY <1>4, <1>5 DEF Write

\* A checkpoint publishes its lanes with its verdict (record_queue_checkpoint).
LEMMA CheckpointEffect ==
  ASSUME mem \in Memory, disk \in File, MemIsDisk,
         NEW STATE lanes, lanes \subseteq Inputs, NEW STATE v, v \in Verdicts,
         Checkpoint(lanes, v)
  PROVE  /\ mem' \in Memory /\ disk' \in File
         /\ disk'.verdict \in {disk.verdict, v}
         /\ mem'.snap \in {mem.snap, lanes} /\ disk'.snap \in {disk.snap, lanes}
         /\ ~load.errors =>
              /\ mem'.verdict = v /\ disk'.verdict = v
              /\ mem'.snap = lanes /\ disk'.snap = lanes /\ ~disk'.torn
<1> DEFINE m == [verdict |-> v, snap |-> lanes]
           changed == v # mem.verdict
           kinds == IF changed THEN {"snap", "verdict"} ELSE {"snap"}
<1>1. m \in Memory /\ m.verdict = v /\ m.snap = lanes
  BY DEF Memory
<1>2. kinds \in {{"snap"}, {"verdict"}, {"snap", "verdict"}} /\ "snap" \in kinds
      /\ (changed => "verdict" \in kinds)
  OBVIOUS
<1>3. Write(kinds, m, changed /\ ~v.busy)
  BY DEF Checkpoint
<1>4. (changed /\ ~v.busy) \in BOOLEAN
  OBVIOUS
<1>5. ~load.errors => mem.verdict = disk.verdict /\ ~disk.torn
  BY DEF MemIsDisk
<1> HIDE DEF m, kinds
<1> QED BY <1>1, <1>2, <1>3, <1>4, <1>5, WriteEffect

\* The second step of a checkpoint writes what the first one read
\* (checkpoint_queue_recovery).
LEMMA SavesEffect ==
  ASSUME IInv, NEW o \in {"accepted", "turn_end", "cleared"}, Saves(o)
  PROVE  /\ lock' = Free /\ lock.op = o
         /\ mem' \in Memory /\ disk' \in File
         /\ mem'.snap \in {mem.snap, lock.lanes} /\ disk'.snap \in {disk.snap, lock.lanes}
         /\ disk'.verdict = disk.verdict \/ disk'.verdict.busy = lock.busy
         /\ ~load.errors =>
              /\ mem'.verdict = disk'.verdict /\ disk'.verdict.busy = lock.busy
              /\ mem'.snap = lock.lanes /\ disk'.snap = lock.lanes /\ ~disk'.torn
<1>1. PICK v : v = [busy |-> lock.busy, op |-> o]
  OBVIOUS
<1>2. v \in Verdicts /\ v.busy = lock.busy
  BY <1>1 DEF IInv, Shape, TypeOK, Verdicts
<1>3. mem \in Memory /\ disk \in File /\ lock.lanes \subseteq Inputs /\ MemIsDisk
  BY DEF IInv, Shape, TypeOK, Memory, File
<1>4. Checkpoint(lock.lanes, v) /\ lock' = Free /\ lock.op = o
  BY <1>1 DEF Saves
<1> QED BY ONLY <1>2, <1>3, <1>4, CheckpointEffect

-----------------------------------------------------------------------------
(* Steps that leave the journal alone *)

\* An input enters its lane (handle_prompt).
LEMMA EnqueueKeeps ==
  ASSUME IInv, UNCHANGED load, NEW i \in Inputs, Enqueue(i)
  PROVE  IInv'
<1> USE DEF Enqueue, IInv, Shape
<1>1. TypeOK'
  BY DEF TypeOK, NewIsNowhere
<1>2. DownIsEmpty' /\ NewIsNowhere' /\ OpIsAsked' /\ MemIsDisk' /\ (load \in Loads)'
  BY DEF TypeOK, DownIsEmpty, NewIsNowhere, OpIsAsked, MemIsDisk
<1>3. LockFits'
  BY DEF TypeOK, DownIsEmpty, NewIsNowhere, LockFits
<1>4. AcceptedIsDurable' /\ AnsweredIsForgotten' /\ QueuedIsOpen' /\ LockCovers' /\ LockIsOpen'
  BY DEF TypeOK, NewIsNowhere, Kept, AcceptedIsDurable, AnsweredIsForgotten, QueuedIsOpen,
         LockCovers, LockIsOpen, Steady
<1>5. WorkReadsInterrupted' /\ LockEarns'
  BY DEF TypeOK, NewIsNowhere, Kept, WorkReadsInterrupted, LockEarns, AcceptedWork
<1> QED BY <1>1, <1>2, <1>3, <1>4, <1>5 DEF Kept

\* A batch leaves its lane for its turn (TurnRunner::run).
LEMMA PickUpKeeps ==
  ASSUME IInv, UNCHANGED load, NEW i \in Inputs, PickUp(i)
  PROVE  IInv'
<1> USE DEF PickUp, IInv, Shape
<1>1. TypeOK'
  BY DEF TypeOK
<1>2. DownIsEmpty' /\ NewIsNowhere' /\ OpIsAsked' /\ MemIsDisk' /\ (load \in Loads)'
  BY DEF TypeOK, DownIsEmpty, NewIsNowhere, OpIsAsked, MemIsDisk
<1>3. LockFits'
  BY DEF TypeOK, DownIsEmpty, NewIsNowhere, LockFits
<1>4. AcceptedIsDurable' /\ AnsweredIsForgotten' /\ QueuedIsOpen' /\ LockCovers' /\ LockIsOpen'
  BY DEF TypeOK, NewIsNowhere, Kept, AcceptedIsDurable, AnsweredIsForgotten, QueuedIsOpen,
         LockCovers, LockIsOpen, Steady
<1>5. WorkReadsInterrupted' /\ LockEarns'
  BY DEF TypeOK, NewIsNowhere, Kept, WorkReadsInterrupted, LockEarns, AcceptedWork
<1> QED BY <1>1, <1>2, <1>3, <1>4, <1>5 DEF Kept

\* The turn is over (run_turn).
LEMMA TurnEndsKeeps ==
  ASSUME IInv, UNCHANGED load, TurnEnds
  PROVE  IInv'
<1> USE DEF TurnEnds, IInv, Shape
<1>1. TypeOK'
  BY DEF TypeOK
<1>2. DownIsEmpty' /\ NewIsNowhere' /\ OpIsAsked' /\ MemIsDisk' /\ (load \in Loads)'
  BY DEF TypeOK, DownIsEmpty, NewIsNowhere, OpIsAsked, MemIsDisk
<1>3. LockFits'
  BY DEF TypeOK, DownIsEmpty, NewIsNowhere, LockFits
<1>4. AcceptedIsDurable' /\ AnsweredIsForgotten' /\ QueuedIsOpen' /\ LockCovers' /\ LockIsOpen'
  BY DEF TypeOK, NewIsNowhere, Kept, AcceptedIsDurable, AnsweredIsForgotten, QueuedIsOpen,
         LockCovers, LockIsOpen, Steady
<1>5. WorkReadsInterrupted' /\ LockEarns'
  BY DEF TypeOK, NewIsNowhere, Kept, WorkReadsInterrupted, LockEarns, AcceptedWork
<1> QED BY <1>1, <1>2, <1>3, <1>4, <1>5 DEF Kept

\* Rows leave the lanes before the checkpoint (handle_clear_queue).
LEMMA ClearKeeps ==
  ASSUME IInv, UNCHANGED load, Clear
  PROVE  IInv'
<1> USE DEF Clear, Arrives, NoOp, Tell, IInv, Shape
<1>1. TypeOK'
  BY DEF TypeOK
<1>2. DownIsEmpty' /\ NewIsNowhere' /\ OpIsAsked' /\ MemIsDisk' /\ (load \in Loads)'
  BY DEF TypeOK, DownIsEmpty, NewIsNowhere, OpIsAsked, MemIsDisk
<1>3. LockFits'
  BY DEF TypeOK, DownIsEmpty, NewIsNowhere, LockFits
<1>4. AcceptedIsDurable' /\ AnsweredIsForgotten' /\ QueuedIsOpen' /\ LockCovers' /\ LockIsOpen'
  BY DEF TypeOK, NewIsNowhere, Kept, AcceptedIsDurable, AnsweredIsForgotten, QueuedIsOpen,
         LockCovers, LockIsOpen, Steady
<1>5. WorkReadsInterrupted' /\ LockEarns'
  BY DEF TypeOK, NewIsNowhere, Kept, WorkReadsInterrupted, LockEarns, AcceptedWork
<1> QED BY <1>1, <1>2, <1>3, <1>4, <1>5 DEF Kept

\* An abort answers the invisible rows (request_abort).
LEMMA AbortKeeps ==
  ASSUME IInv, UNCHANGED load, Abort
  PROVE  IInv'
<1> USE DEF Abort, Arrives, Tell, IInv, Shape
<1>1. TypeOK'
  BY DEF TypeOK
<1>2. DownIsEmpty' /\ NewIsNowhere' /\ OpIsAsked' /\ MemIsDisk' /\ (load \in Loads)'
  BY DEF TypeOK, DownIsEmpty, NewIsNowhere, OpIsAsked, MemIsDisk
<1>3. LockFits'
  BY DEF TypeOK, DownIsEmpty, NewIsNowhere, LockFits
<1>4. AcceptedIsDurable' /\ AnsweredIsForgotten' /\ QueuedIsOpen' /\ LockCovers' /\ LockIsOpen'
  BY DEF TypeOK, NewIsNowhere, Kept, AcceptedIsDurable, AnsweredIsForgotten, QueuedIsOpen,
         LockCovers, LockIsOpen, Steady
<1>5. WorkReadsInterrupted' /\ LockEarns'
  BY DEF TypeOK, NewIsNowhere, Kept, WorkReadsInterrupted, LockEarns, AcceptedWork
<1> QED BY <1>1, <1>2, <1>3, <1>4, <1>5 DEF Kept

\* A snapshot reads the lanes (handle_update_snapshot).
LEMMA SnapshotReadsKeeps ==
  ASSUME IInv, UNCHANGED load, SnapshotReads
  PROVE  IInv'
<1> USE DEF SnapshotReads, Arrives, NoOp, IInv, Shape
<1>1. TypeOK'
  BY DEF TypeOK
<1>2. DownIsEmpty' /\ NewIsNowhere' /\ OpIsAsked' /\ MemIsDisk' /\ (load \in Loads)'
  BY DEF TypeOK, DownIsEmpty, NewIsNowhere, OpIsAsked, MemIsDisk
<1>3. LockFits'
  BY DEF TypeOK, DownIsEmpty, NewIsNowhere, LockFits
<1>4. AcceptedIsDurable' /\ AnsweredIsForgotten' /\ QueuedIsOpen' /\ LockCovers' /\ LockIsOpen'
  BY DEF TypeOK, NewIsNowhere, Kept, AcceptedIsDurable, AnsweredIsForgotten, QueuedIsOpen,
         LockCovers, LockIsOpen, Steady
<1>5. WorkReadsInterrupted' /\ LockEarns'
  BY DEF TypeOK, NewIsNowhere, Kept, WorkReadsInterrupted, LockEarns, AcceptedWork
<1> QED BY <1>1, <1>2, <1>3, <1>4, <1>5 DEF Kept

\* One more end of the process is within the bound.
LEMMA EndsBounded ==
  ASSUME ends \in 0..MaxEnds, load \in Loads, ends < load.ends
  PROVE  ends + 1 \in 0..MaxEnds
<1>1. load.ends \in 0..MaxEnds
  BY LoadAssumption
<1> QED BY <1>1, BoundAssumption

\* A kill takes the lanes, the turn and the command.
LEMMA CrashKeeps ==
  ASSUME IInv, UNCHANGED load, Crash
  PROVE  IInv'
<1> USE DEF Crash, Gone, Asleep, NoOp, Free, Tell, IInv, Shape
<1>1. TypeOK'
  BY EndsBounded DEF TypeOK
<1>2. DownIsEmpty' /\ NewIsNowhere' /\ OpIsAsked' /\ MemIsDisk' /\ (load \in Loads)'
  BY DEF TypeOK, DownIsEmpty, NewIsNowhere, OpIsAsked, MemIsDisk
<1>3. LockFits'
  BY DEF TypeOK, DownIsEmpty, NewIsNowhere, LockFits
<1>4. AcceptedIsDurable' /\ AnsweredIsForgotten' /\ QueuedIsOpen' /\ LockCovers' /\ LockIsOpen'
  BY DEF TypeOK, NewIsNowhere, Kept, AcceptedIsDurable, AnsweredIsForgotten, QueuedIsOpen,
         LockCovers, LockIsOpen, Steady
<1>5. WorkReadsInterrupted' /\ LockEarns'
  BY DEF TypeOK, NewIsNowhere, Kept, WorkReadsInterrupted, LockEarns, AcceptedWork
<1> QED BY <1>1, <1>2, <1>3, <1>4, <1>5 DEF Kept

-----------------------------------------------------------------------------
(* Steps that take the recovery lock and read *)

\* The admission checkpoint reads (checkpoint_queue_recovery, prompt_accepted).
LEMMA AdmitKeeps ==
  ASSUME IInv, UNCHANGED load, NEW i \in Inputs, Admit(i)
  PROVE  IInv'
<1> USE DEF Admit, Locks, Free, IInv, Shape
<1>1. TypeOK'
  BY DEF TypeOK, Settled
<1>2. DownIsEmpty' /\ NewIsNowhere' /\ OpIsAsked' /\ MemIsDisk' /\ (load \in Loads)'
  BY DEF TypeOK, DownIsEmpty, NewIsNowhere, OpIsAsked, MemIsDisk
<1>3. LockFits'
  BY DEF TypeOK, OpIsAsked, LockFits
<1>4. AcceptedIsDurable' /\ AnsweredIsForgotten' /\ QueuedIsOpen' /\ LockCovers' /\ LockIsOpen'
  BY DEF TypeOK, Kept, AcceptedIsDurable, AnsweredIsForgotten, QueuedIsOpen,
         LockCovers, LockIsOpen, Steady
<1>5. WorkReadsInterrupted' /\ LockEarns'
  BY DEF TypeOK, Kept, WorkReadsInterrupted, LockEarns, AcceptedWork, Settled
<1> QED BY <1>1, <1>2, <1>3, <1>4, <1>5 DEF Kept

\* The settle checkpoint of a turn reads (run_turn).
LEMMA TurnSettlesKeeps ==
  ASSUME IInv, UNCHANGED load, TurnSettles
  PROVE  IInv'
<1> USE DEF TurnSettles, Locks, Free, IInv, Shape
<1>1. TypeOK'
  BY DEF TypeOK, Settled
<1>2. DownIsEmpty' /\ NewIsNowhere' /\ OpIsAsked' /\ MemIsDisk' /\ (load \in Loads)'
  BY DEF TypeOK, DownIsEmpty, NewIsNowhere, OpIsAsked, MemIsDisk
<1>3. LockFits'
  BY DEF TypeOK, OpIsAsked, LockFits
<1>4. AcceptedIsDurable' /\ AnsweredIsForgotten' /\ QueuedIsOpen' /\ LockCovers' /\ LockIsOpen'
  BY DEF TypeOK, Kept, AcceptedIsDurable, AnsweredIsForgotten, QueuedIsOpen,
         LockCovers, LockIsOpen, Steady
<1>5. WorkReadsInterrupted' /\ LockEarns'
  BY DEF TypeOK, Kept, WorkReadsInterrupted, LockEarns, AcceptedWork, Settled
<1> QED BY <1>1, <1>2, <1>3, <1>4, <1>5 DEF Kept

\* The checkpoint of a clear reads (handle_clear_queue).
LEMMA ClearSettlesKeeps ==
  ASSUME IInv, UNCHANGED load, ClearSettles
  PROVE  IInv'
<1> USE DEF ClearSettles, Locks, Free, IInv, Shape
<1>1. TypeOK'
  BY DEF TypeOK, Settled
<1>2. DownIsEmpty' /\ NewIsNowhere' /\ OpIsAsked' /\ MemIsDisk' /\ (load \in Loads)'
  BY DEF TypeOK, DownIsEmpty, NewIsNowhere, OpIsAsked, MemIsDisk
<1>3. LockFits'
  BY DEF TypeOK, OpIsAsked, LockFits
<1>4. AcceptedIsDurable' /\ AnsweredIsForgotten' /\ QueuedIsOpen' /\ LockCovers' /\ LockIsOpen'
  BY DEF TypeOK, Kept, AcceptedIsDurable, AnsweredIsForgotten, QueuedIsOpen,
         LockCovers, LockIsOpen, Steady
<1>5. WorkReadsInterrupted' /\ LockEarns'
  BY DEF TypeOK, Kept, WorkReadsInterrupted, LockEarns, AcceptedWork, Settled
<1> QED BY <1>1, <1>2, <1>3, <1>4, <1>5 DEF Kept

-----------------------------------------------------------------------------
(* Steps that write the journal *)

\* The admission checkpoint writes, and its command answers (handle_prompt).
LEMMA AdmitAnswersKeeps ==
  ASSUME IInv, UNCHANGED load, NEW i \in Inputs, AdmitAnswers(i)
  PROVE  IInv'
<1>1. /\ lock' = Free /\ lock.op = "accepted"
      /\ mem' \in Memory /\ disk' \in File
      /\ mem'.snap \in {mem.snap, lock.lanes} /\ disk'.snap \in {disk.snap, lock.lanes}
      /\ ~load.errors =>
           /\ mem'.verdict = disk'.verdict /\ disk'.verdict.busy = lock.busy
           /\ mem'.snap = lock.lanes /\ disk'.snap = lock.lanes /\ ~disk'.torn
  <2>1. Saves("accepted")
    BY DEF AdmitAnswers
  <2> QED BY <2>1, SavesEffect
<1> USE DEF AdmitAnswers, IInv, Shape
<1>2. TypeOK'
  BY <1>1 DEF TypeOK, Memory, File, Free
<1>3. DownIsEmpty' /\ NewIsNowhere' /\ OpIsAsked' /\ MemIsDisk' /\ (load \in Loads)'
  BY <1>1 DEF TypeOK, DownIsEmpty, NewIsNowhere, OpIsAsked, MemIsDisk, Free
<1>4. LockFits' /\ LockCovers' /\ LockEarns' /\ LockIsOpen'
  BY <1>1 DEF LockFits, LockCovers, LockEarns, LockIsOpen, Free
<1>5. AcceptedIsDurable' /\ AnsweredIsForgotten' /\ QueuedIsOpen'
  BY <1>1 DEF TypeOK, OpIsAsked, LockFits, Kept, AcceptedIsDurable, AnsweredIsForgotten,
              QueuedIsOpen, LockCovers, LockIsOpen, Steady
<1>6. WorkReadsInterrupted'
  BY <1>1 DEF TypeOK, LockFits, Kept, WorkReadsInterrupted, LockEarns, AcceptedWork
<1> QED BY <1>2, <1>3, <1>4, <1>5, <1>6 DEF Kept

\* The checkpoint of a turn writes, and its rows are answered (run_turn).
LEMMA TurnAnswersKeeps ==
  ASSUME IInv, UNCHANGED load, TurnAnswers
  PROVE  IInv'
<1>1. /\ lock' = Free /\ lock.op = "turn_end"
      /\ mem' \in Memory /\ disk' \in File
      /\ mem'.snap \in {mem.snap, lock.lanes} /\ disk'.snap \in {disk.snap, lock.lanes}
      /\ ~load.errors =>
           /\ mem'.verdict = disk'.verdict /\ disk'.verdict.busy = lock.busy
           /\ mem'.snap = lock.lanes /\ disk'.snap = lock.lanes /\ ~disk'.torn
  <2>1. Saves("turn_end")
    BY DEF TurnAnswers
  <2> QED BY <2>1, SavesEffect
<1> USE DEF TurnAnswers, Tell, Asleep, IInv, Shape
<1>2. TypeOK'
  BY <1>1 DEF TypeOK, Memory, File, Free
<1>3. DownIsEmpty' /\ NewIsNowhere' /\ OpIsAsked' /\ MemIsDisk' /\ (load \in Loads)'
  BY <1>1 DEF TypeOK, DownIsEmpty, NewIsNowhere, OpIsAsked, MemIsDisk, Free
<1>4. LockFits' /\ LockCovers' /\ LockEarns' /\ LockIsOpen'
  BY <1>1 DEF LockFits, LockCovers, LockEarns, LockIsOpen, Free
<1>5. AcceptedIsDurable' /\ AnsweredIsForgotten' /\ QueuedIsOpen'
  BY <1>1 DEF TypeOK, OpIsAsked, LockFits, Kept, AcceptedIsDurable, AnsweredIsForgotten,
              QueuedIsOpen, LockCovers, LockIsOpen, Steady
<1>6. WorkReadsInterrupted'
  BY <1>1 DEF TypeOK, LockFits, Kept, WorkReadsInterrupted, LockEarns, AcceptedWork
<1> QED BY <1>2, <1>3, <1>4, <1>5, <1>6 DEF Kept

\* The checkpoint of a clear writes, and it answers (handle_clear_queue).
LEMMA ClearAnswersKeeps ==
  ASSUME IInv, UNCHANGED load, ClearAnswers
  PROVE  IInv'
<1>1. /\ lock' = Free /\ lock.op = "cleared"
      /\ mem' \in Memory /\ disk' \in File
      /\ mem'.snap \in {mem.snap, lock.lanes} /\ disk'.snap \in {disk.snap, lock.lanes}
      /\ ~load.errors =>
           /\ mem'.verdict = disk'.verdict /\ disk'.verdict.busy = lock.busy
           /\ mem'.snap = lock.lanes /\ disk'.snap = lock.lanes /\ ~disk'.torn
  <2>1. Saves("cleared")
    BY DEF ClearAnswers
  <2> QED BY <2>1, SavesEffect
<1> USE DEF ClearAnswers, Tell, NoOp, IInv, Shape
<1>2. TypeOK'
  BY <1>1 DEF TypeOK, Memory, File, Free
<1>3. DownIsEmpty' /\ NewIsNowhere' /\ OpIsAsked' /\ MemIsDisk' /\ (load \in Loads)'
  BY <1>1 DEF TypeOK, DownIsEmpty, NewIsNowhere, OpIsAsked, MemIsDisk, Free
<1>4. LockFits' /\ LockCovers' /\ LockEarns' /\ LockIsOpen'
  BY <1>1 DEF LockFits, LockCovers, LockEarns, LockIsOpen, Free
<1>5. AcceptedIsDurable' /\ AnsweredIsForgotten' /\ QueuedIsOpen'
  BY <1>1 DEF TypeOK, OpIsAsked, LockFits, Kept, AcceptedIsDurable, AnsweredIsForgotten,
              QueuedIsOpen, LockCovers, LockIsOpen, Steady
<1>6. WorkReadsInterrupted'
  BY <1>1 DEF TypeOK, LockFits, Kept, WorkReadsInterrupted, LockEarns, AcceptedWork
<1> QED BY <1>2, <1>3, <1>4, <1>5, <1>6 DEF Kept

\* A snapshot writes the lanes it read (handle_update_snapshot).
LEMMA SnapshotWritesKeeps ==
  ASSUME IInv, UNCHANGED load, SnapshotWrites
  PROVE  IInv'
<1> DEFINE m == [mem EXCEPT !.snap = op.lanes]
<1>1. /\ mem \in Memory /\ disk \in File /\ m \in Memory
      /\ m.verdict = mem.verdict /\ m.snap = op.lanes
  BY DEF IInv, Shape, TypeOK, Memory, File
<1>2. /\ mem' \in {mem, m} /\ disk' \in File /\ disk'.verdict = disk.verdict
      /\ disk'.snap \in {disk.snap, op.lanes}
      /\ ~load.errors /\ ~disk.torn => mem' = m /\ ~disk'.torn /\ disk'.snap = op.lanes
  <2>1. Write({"snap"}, m, FALSE)
    BY DEF SnapshotWrites
  <2> HIDE DEF m
  <2> QED BY <1>1, <2>1, WriteEffect
<1>3. /\ mem' \in Memory /\ mem'.verdict = mem.verdict /\ mem'.snap \in {mem.snap, op.lanes}
      /\ ~load.errors /\ ~disk.torn => mem'.snap = op.lanes
  BY <1>1, <1>2
<1> HIDE DEF m
<1> USE DEF SnapshotWrites, NoOp, IInv, Shape
<1>4. TypeOK'
  BY <1>2, <1>3 DEF TypeOK, Memory, File
<1>5. DownIsEmpty' /\ NewIsNowhere' /\ OpIsAsked' /\ MemIsDisk' /\ (load \in Loads)'
  BY <1>2, <1>3 DEF TypeOK, DownIsEmpty, NewIsNowhere, OpIsAsked, MemIsDisk
<1>6. LockFits' /\ LockCovers' /\ LockEarns' /\ LockIsOpen'
  BY DEF LockFits, Kept, LockCovers, LockEarns, LockIsOpen, AcceptedWork, Steady, Free
<1>7. AcceptedIsDurable' /\ AnsweredIsForgotten' /\ QueuedIsOpen' /\ WorkReadsInterrupted'
  BY <1>2, <1>3 DEF OpIsAsked, Kept, WorkReadsInterrupted, AcceptedIsDurable,
                    AnsweredIsForgotten, QueuedIsOpen, AcceptedWork, Steady
<1> QED BY <1>4, <1>5, <1>6, <1>7 DEF Kept

\* A shutdown records its verdict and goes (handle_shutdown, exit_after_close).
LEMMA ShutdownKeeps ==
  ASSUME IInv, UNCHANGED load, Shutdown
  PROVE  IInv'
<1> DEFINE v == [busy |-> FALSE, op |-> "shutdown"]
           m == [mem EXCEPT !.verdict = v]
<1>1. /\ mem \in Memory /\ disk \in File /\ v \in Verdicts /\ m \in Memory
      /\ m.verdict = v /\ m.snap = mem.snap
  BY DEF IInv, Shape, TypeOK, Memory, File, Verdicts
<1>2. \/ UNCHANGED <<mem, disk>>
      \/ Write({"verdict"}, m, ~v.busy)
  BY DEF Shutdown, Record
<1>3. (~v.busy) \in BOOLEAN
  OBVIOUS
<1>4. /\ mem' \in Memory /\ disk' \in File
      /\ mem'.snap = mem.snap /\ disk'.snap \in {disk.snap, mem.snap}
      /\ MemIsDisk /\ ~load.errors =>
           mem'.verdict = disk'.verdict /\ disk'.snap = mem.snap /\ ~disk'.torn
  <2> HIDE DEF m, v
  <2> QED BY <1>1, <1>2, <1>3, WriteEffect DEF MemIsDisk
<1> HIDE DEF m, v
<1> USE DEF Shutdown, Gone, Arrives, Asleep, NoOp, Free, IInv, Shape
<1>5. TypeOK'
  BY <1>4, EndsBounded DEF TypeOK, Memory, File
<1>6. DownIsEmpty' /\ NewIsNowhere' /\ OpIsAsked' /\ MemIsDisk' /\ (load \in Loads)'
  BY <1>4 DEF TypeOK, DownIsEmpty, NewIsNowhere, OpIsAsked, MemIsDisk
<1>7. LockFits' /\ LockCovers' /\ LockEarns' /\ LockIsOpen'
  BY DEF LockFits, LockCovers, LockEarns, LockIsOpen
<1>8. AcceptedIsDurable' /\ AnsweredIsForgotten' /\ QueuedIsOpen' /\ WorkReadsInterrupted'
  BY <1>4 DEF TypeOK, MemIsDisk, Kept, WorkReadsInterrupted, AcceptedIsDurable,
              AnsweredIsForgotten, QueuedIsOpen, Steady
<1> QED BY <1>5, <1>6, <1>7, <1>8 DEF Kept

\* A new worker restores the lanes and records its create (handle_create).
LEMMA BootKeeps ==
  ASSUME IInv, UNCHANGED load, Boot
  PROVE  IInv'
<1> DEFINE v == [busy |-> TRUE, op |-> "create"]
           loaded == [verdict |-> disk.verdict, snap |-> disk.snap]
           m == [loaded EXCEPT !.verdict = v]
<1>1. /\ mem \in Memory /\ disk \in File /\ v \in Verdicts /\ v.busy
      /\ loaded \in Memory /\ loaded.verdict = disk.verdict /\ loaded.snap = disk.snap
      /\ m \in Memory /\ m.verdict = v /\ m.snap = disk.snap
  BY DEF IInv, Shape, TypeOK, Memory, File, Verdicts
<1>2. /\ mem' \in Memory /\ disk' \in File
      /\ mem'.snap = disk.snap /\ disk'.snap = disk.snap
      /\ ~load.errors /\ ~disk.torn =>
           mem'.verdict = v /\ disk'.verdict = v /\ ~disk'.torn
  <2>1. CASE mem' = m /\ disk' = IF v = disk.verdict THEN disk ELSE Landed({"verdict"}, m)
    <3>1. /\ Landed({"verdict"}, m) \in File
          /\ Landed({"verdict"}, m).snap = disk.snap /\ ~Landed({"verdict"}, m).torn
          /\ ~disk.torn => Landed({"verdict"}, m).verdict = m.verdict
      BY <1>1 DEF Landed, First, File, Memory
    <3> HIDE DEF m, v
    <3> QED BY <1>1, <2>1, <3>1
  <2>2. CASE load.errors /\ mem' = loaded /\ disk' \in {disk, [disk EXCEPT !.torn = TRUE]}
    BY <1>1, <2>2 DEF File
  <2> QED BY <2>1, <2>2 DEF Boot
<1> HIDE DEF v, loaded, m
<1> USE DEF Boot, Restored, IInv, Shape
<1>3. TypeOK'
  BY <1>2 DEF TypeOK, DownIsEmpty, Asleep, Memory, File
<1>4. DownIsEmpty' /\ NewIsNowhere' /\ OpIsAsked' /\ MemIsDisk' /\ (load \in Loads)'
  BY <1>2 DEF TypeOK, DownIsEmpty, NewIsNowhere, OpIsAsked, MemIsDisk, Asleep, NoOp
<1>5. LockFits' /\ LockCovers' /\ LockEarns' /\ LockIsOpen'
  BY DEF DownIsEmpty, LockFits, LockCovers, LockEarns, LockIsOpen, Free
<1>6. AcceptedIsDurable' /\ AnsweredIsForgotten' /\ QueuedIsOpen' /\ WorkReadsInterrupted'
  BY <1>1, <1>2 DEF TypeOK, MemIsDisk, Kept, WorkReadsInterrupted, AcceptedIsDurable,
                    AnsweredIsForgotten, QueuedIsOpen, Steady
<1> QED BY <1>3, <1>4, <1>5, <1>6 DEF Kept

-----------------------------------------------------------------------------
(* The theorems *)

\* A new session: nothing sent, nothing on disk.
LEMMA InitKeeps == Init => IInv
<1> SUFFICES ASSUME Init PROVE IInv
  OBVIOUS
<1> USE DEF Init, NoVerdict, Asleep, NoOp, Free
<1>1. TypeOK
  <2>1. /\ mem \in [verdict : Verdicts, snap : SUBSET Inputs]
        /\ disk \in [verdict : Verdicts, snap : SUBSET Inputs, torn : BOOLEAN]
    BY DEF Verdicts
  <2>2. /\ runner \in [pc : {"idle", "turn", "ended"}, batch : SUBSET Inputs, busy : BOOLEAN]
        /\ op \in [pc : {"idle", "clear", "snapshot"}, lanes : SUBSET Inputs]
        /\ lock \in [op : {"none", "accepted", "turn_end", "cleared"}, rows : SUBSET Inputs,
                     lanes : SUBSET Inputs, busy : BOOLEAN]
    OBVIOUS
  <2>3. ends \in 0..MaxEnds
    BY BoundAssumption
  <2> QED BY <2>1, <2>2, <2>3 DEF TypeOK
<1>2. load \in Loads /\ DownIsEmpty /\ NewIsNowhere /\ OpIsAsked /\ MemIsDisk /\ LockFits
  BY DEF DownIsEmpty, NewIsNowhere, OpIsAsked, MemIsDisk, LockFits
<1>3. Kept
  BY DEF Kept, WorkReadsInterrupted, AcceptedIsDurable, AnsweredIsForgotten, QueuedIsOpen,
         LockCovers, LockEarns, LockIsOpen
<1> QED BY <1>1, <1>2, <1>3 DEF IInv, Shape

\* Every step of the worker keeps the invariant.
LEMMA StepKeeps == IInv /\ [Next /\ UNCHANGED load]_<<vars, load>> => IInv'
<1> SUFFICES ASSUME IInv, [Next /\ UNCHANGED load]_<<vars, load>> PROVE IInv'
  OBVIOUS
<1>1. CASE UNCHANGED <<vars, load>>
  BY <1>1 DEF vars, IInv, Shape, TypeOK, DownIsEmpty, NewIsNowhere, OpIsAsked, MemIsDisk,
              LockFits, Kept, WorkReadsInterrupted, AcceptedIsDurable, AnsweredIsForgotten,
              QueuedIsOpen, LockCovers, LockEarns, LockIsOpen, AcceptedWork, Steady
<1>2. ASSUME UNCHANGED load, NEW i \in Inputs,
             Enqueue(i) \/ Admit(i) \/ AdmitAnswers(i) \/ PickUp(i)
      PROVE  IInv'
  BY <1>2, EnqueueKeeps, AdmitKeeps, AdmitAnswersKeeps, PickUpKeeps
<1>3. ASSUME UNCHANGED load, TurnEnds \/ TurnSettles \/ TurnAnswers PROVE IInv'
  BY <1>3, TurnEndsKeeps, TurnSettlesKeeps, TurnAnswersKeeps
<1>4. ASSUME UNCHANGED load, Clear \/ ClearSettles \/ ClearAnswers \/ Abort PROVE IInv'
  BY <1>4, ClearKeeps, ClearSettlesKeeps, ClearAnswersKeeps, AbortKeeps
<1>5. ASSUME UNCHANGED load, SnapshotReads \/ SnapshotWrites PROVE IInv'
  BY <1>5, SnapshotReadsKeeps, SnapshotWritesKeeps
<1>6. ASSUME UNCHANGED load, Shutdown \/ Crash \/ Boot PROVE IInv'
  BY <1>6, ShutdownKeeps, CrashKeeps, BootKeeps
<1> QED BY <1>1, <1>2, <1>3, <1>4, <1>5, <1>6 DEF Next, Runner

LEMMA Inductive == Spec => []IInv
<1> QED BY InitKeeps, StepKeeps, PTL DEF Spec

\* Every variable keeps its type; a row that waits is not in the turn as well.
THEOREM TypeCorrect == Spec => []TypeOK
<1>1. IInv => TypeOK
  BY DEF IInv, Shape
<1> QED BY <1>1, Inductive, PTL

\* While no write fails, a kill in accepted work reads as interrupted work
\* (checkpoint_queue_recovery, the supervisor's read of the journal).
THEOREM InterruptedWorkShows == Spec => []WorkReadsInterrupted
<1>1. IInv => WorkReadsInterrupted
  BY DEF IInv, Kept
<1> QED BY <1>1, Inductive, PTL

\* In a steady load what was accepted and waits is on disk, through any number
\* of kills (record_queue_checkpoint, restore_queue_snapshot).
THEOREM AcceptedSurvives == Spec => []AcceptedIsDurable
<1>1. IInv => AcceptedIsDurable
  BY DEF IInv, Kept
<1> QED BY <1>1, Inductive, PTL

\* In a steady load what a turn settled, and what a clear that has answered
\* withdrew, is in no snapshot that a later process reads, though the lanes are
\* read before they are written (run_turn, handle_clear_queue).
THEOREM AnsweredStaysGone == Spec => []AnsweredIsForgotten
<1>1. IInv => AnsweredIsForgotten
  BY DEF IInv, Kept
<1> QED BY <1>1, Inductive, PTL

\* Only a shutdown turns the journal idle over accepted work, whatever writes
\* fail: an input may enter its lane between the read of a checkpoint and its
\* idle verdict, and is not accepted before that verdict is written
\* (checkpoint_queue_recovery, handle_prompt, update_snapshot).
THEOREM IdleWasEarned == Spec => IdleIsEarned
<1> DEFINE Earned == disk.verdict.busy /\ ~disk'.verdict.busy
                       => ~AcceptedWork \/ disk'.verdict.op = "shutdown"
<1>1. ASSUME IInv, NEW o \in {"accepted", "turn_end", "cleared"}, Saves(o) PROVE Earned
  <2>1. lock.op = o /\ (disk'.verdict = disk.verdict \/ disk'.verdict.busy = lock.busy)
    BY <1>1, SavesEffect
  <2>2. lock.op # "none" /\ ~lock.busy => ~AcceptedWork
    BY <1>1 DEF IInv, Kept, LockEarns
  <2> QED BY <2>1, <2>2
<1>2. ASSUME IInv, SnapshotWrites PROVE Earned
  <2> DEFINE m == [mem EXCEPT !.snap = op.lanes]
  <2>1. mem \in Memory /\ disk \in File /\ m \in Memory
    BY <1>2 DEF IInv, Shape, TypeOK, Memory, File
  <2>2. Write({"snap"}, m, FALSE)
    BY <1>2 DEF SnapshotWrites
  <2> HIDE DEF m
  <2> QED BY <2>1, <2>2, WriteEffect
<1>3. ASSUME IInv, Shutdown PROVE Earned
  <2> DEFINE v == [busy |-> FALSE, op |-> "shutdown"]
             m == [mem EXCEPT !.verdict = v]
  <2>1. /\ mem \in Memory /\ disk \in File /\ m \in Memory
        /\ m.verdict = v /\ v.op = "shutdown"
    BY <1>3 DEF IInv, Shape, TypeOK, Memory, File, Verdicts
  <2>2. UNCHANGED disk \/ Write({"verdict"}, m, ~v.busy)
    BY <1>3 DEF Shutdown, Record
  <2>3. (~v.busy) \in BOOLEAN
    OBVIOUS
  <2> HIDE DEF v, m
  <2> QED BY <2>1, <2>2, <2>3, WriteEffect
<1>4. ASSUME IInv, Boot PROVE Earned
  BY <1>4 DEF Boot, Landed, First, IInv, Shape, TypeOK
<1>5. IInv /\ [Next /\ UNCHANGED load]_<<vars, load>> => [Earned]_vars
  <2> SUFFICES ASSUME IInv, Next PROVE disk' # disk => Earned
    BY DEF vars
  <2>1. CASE UNCHANGED disk
    BY <2>1
  <2>2. CASE disk' # disk
    <3>1. \/ Saves("accepted") \/ Saves("turn_end") \/ Saves("cleared")
          \/ SnapshotWrites \/ Shutdown \/ Boot
      BY <2>2 DEF Next, Runner, Enqueue, Admit, AdmitAnswers, PickUp, TurnEnds, TurnSettles,
                  TurnAnswers, Clear, ClearSettles, ClearAnswers, Abort, SnapshotReads, Crash
    <3> QED BY <1>1, <1>2, <1>3, <1>4, <3>1
  <2> QED BY <2>1, <2>2
<1> QED BY <1>5, Inductive, PTL DEF Spec, IdleIsEarned

=============================================================================
