------------------------ MODULE UpdatePrepareProofs ------------------------
(***************************************************************************)
(* Proofs about UpdatePrepare, for any number of updates, clients and      *)
(* workers and any budgets.  Three invariants are proved, each inductive   *)
(* with the parts defined in UpdatePrepare:                                *)
(*                                                                         *)
(*   TypeOK             by itself; its latch counts the commands in flight *)
(*   PreparedIsDurable  DurableInv: a directory waiting to be deleted      *)
(*                      belongs to an id that is not prepared again        *)
(*   ExitOnlyAfterStop  StopInv: a launched worker is in one stop at a     *)
(*                      time, and has no monitor left once it is stopped   *)
(***************************************************************************)
EXTENDS UpdatePrepare, FiniteSetTheorems, TLAPS

USE BudgetAssumption, AdoptedAssumption

\* As long as no command begins or ends, the latch stays right (dispatch_client).
LEMMA InFlightKept == UNCHANGED cmd => InFlight' = InFlight
BY DEF InFlight

\* A legal transition yields a transaction (PrepareCoordinator::apply).
LEMMA AdvanceTyped ==
  ASSUME NEW u \in Updates, NEW from, NEW to \in PrepareStates, Advance(u, from, to)
  PROVE  tx' \in Transactions \cup {NoTx}
<1>1. tx' = [id |-> u, state |-> to]
  BY DEF Advance, Active
<1> QED BY <1>1 DEF Transactions

\* A rollback leaves every variable in its type (handle_prepare_update_restart).
LEMMA RollBackTyped ==
  ASSUME TypeOK, NEW u \in Updates, RollBack(u)
  PROVE  TypeOK'
<1>1. InFlight' = InFlight
  BY InFlightKept DEF RollBack, client
<1>2. CASE InState(PrepareStates \ {"Stopping"}) /\ tx.id = u
  BY <1>1, <1>2 DEF RollBack, TypeOK, timers, client, fleet
<1>3. CASE ~(InState(PrepareStates \ {"Stopping"}) /\ tx.id = u)
  BY <1>1, <1>3 DEF RollBack, TypeOK, timers, client, fleet
<1> QED BY <1>2, <1>3

\* The prepare handler keeps the types (handle_prepare_update_restart).
LEMMA PrepareTyped ==
  ASSUME TypeOK, NEW u \in Updates, PrepareStep(u)
  PROVE  TypeOK'
<1>0. UNCHANGED cmd => InFlight' = InFlight
  BY InFlightKept
<1>1. CASE DrainSeen(u)
  BY <1>0, <1>1 DEF DrainSeen, TypeOK, timers, client, fleet
<1>2. CASE DrainTimedOut(u)
  BY <1>2, RollBackTyped DEF DrainTimedOut
<1>3. CASE DrainComplete(u)
  <2>1. tx' \in Transactions \cup {NoTx}
    BY <1>3, AdvanceTyped DEF DrainComplete, NotActive, TypeOK, PrepareStates
  <2> QED BY <1>0, <1>3, <2>1 DEF DrainComplete, TypeOK, timers, client, fleet
<1>4. CASE Collected(u)
  BY <1>0, <1>4 DEF Collected, TypeOK, timers, client, fleet
<1>5. CASE CollectFails(u)
  BY <1>5, RollBackTyped DEF CollectFails
<1>6. CASE WriteArtifact(u)
  BY <1>0, <1>6 DEF WriteArtifact, Files, TypeOK, timers, client, fleet
<1>7. CASE WriteFails(u)
  BY <1>7, RollBackTyped DEF WriteFails
<1>8. CASE SnapshotWritten(u)
  <2>1. CASE RollBack(u)
    BY <2>1, RollBackTyped
  <2>2. CASE ~RollBack(u)
    <3>1. tx' \in Transactions \cup {NoTx}
      BY <1>8, <2>2, AdvanceTyped DEF SnapshotWritten, PrepareStates
    <3>2. prep' = [prep EXCEPT ![u] = "acking"] /\ UNCHANGED coord
      BY <1>8, <2>2 DEF SnapshotWritten
    <3>3. UNCHANGED <<left, mark, sweep, disk, latch, cmd, stop, fleet, exiting>>
      BY <1>8, <2>2 DEF SnapshotWritten, timers, client
    <3> QED BY <1>0, <3>1, <3>2, <3>3 DEF TypeOK, fleet
  <2> QED BY <2>1, <2>2
<1>9. CASE PrepareAcked(u)
  <2>1. CASE RollBack(u)
    BY <2>1, RollBackTyped
  <2>2. CASE ~RollBack(u)
    <3>1. tx' \in Transactions \cup {NoTx}
      BY <1>9, <2>2, AdvanceTyped DEF PrepareAcked, PrepareStates
    <3>2. /\ prep' = [prep EXCEPT ![u] = "idle"]
          /\ coord' = [coord EXCEPT ![u] = IF @ = "waiting" THEN "prepared" ELSE @]
      BY <1>9, <2>2 DEF PrepareAcked
    <3>3. UNCHANGED <<left, mark, sweep, disk, latch, cmd, stop, fleet, exiting>>
      BY <1>9, <2>2 DEF PrepareAcked, timers, client
    <3> QED BY <1>0, <3>1, <3>2, <3>3 DEF TypeOK, fleet
  <2> QED BY <2>1, <2>2
<1>10. CASE RollBackSweeps(u)
  BY <1>0, <1>10 DEF RollBackSweeps, Files, TypeOK, timers, client, fleet
<1>11. CASE PrepareFailed(u)
  BY <1>0, <1>11 DEF PrepareFailed, TypeOK, timers, client, fleet
<1> QED BY <1>1, <1>2, <1>3, <1>4, <1>5, <1>6, <1>7, <1>8, <1>9, <1>10, <1>11
           DEF PrepareStep

\* So do the coordinators (prepare_to_prepared, check_marker_fresh, commit_update).
LEMMA CoordinatorTyped ==
  ASSUME TypeOK, NEW u \in Updates, CoordinatorStep(u)
  PROVE  TypeOK'
<1>0. UNCHANGED cmd => InFlight' = InFlight
  BY InFlightKept
<1>1. CASE PrepareStarts(u)
  BY <1>0, <1>1 DEF PrepareStarts, Transactions, PrepareStates, TypeOK, timers, client, fleet
<1>2. CASE PrepareRefused(u)
  BY <1>0, <1>2 DEF PrepareRefused, TypeOK, timers, client, fleet
<1>3. CASE MarkerChecked(u)
  BY <1>0, <1>3 DEF MarkerChecked, TypeOK, timers, client, fleet
<1>4. CASE CoordinatorGivesUp(u)
  BY <1>0, <1>4 DEF CoordinatorGivesUp, TypeOK, timers, client, fleet
<1>5. CASE CommitStarts(u)
  BY <1>0, <1>5 DEF CommitStarts, Advance, Active, Transactions, PrepareStates, TypeOK,
     timers, client, fleet
<1>6. CASE CommitRefused(u)
  BY <1>0, <1>6 DEF CommitRefused, NotActive, TypeOK, timers, client, fleet
<1> QED BY <1>1, <1>2, <1>3, <1>4, <1>5, <1>6 DEF CoordinatorStep

\* So do the stops and the commit handler (stop_workers_gracefully,
\* handle_commit_update_restart).
LEMMA CommitTyped ==
  ASSUME TypeOK, NEW u \in Updates, VerdictStep(u) \/ CommitStep(u)
  PROVE  TypeOK'
<1>0. UNCHANGED cmd => InFlight' = InFlight
  BY InFlightKept
<1>1. ASSUME NEW w \in Workers, StopAcked(u, w)
      PROVE  TypeOK'
  BY <1>0, <1>1 DEF StopAcked, TypeOK, timers, client, fleet
<1>2. ASSUME NEW w \in Workers, StopRefused(u, w)
      PROVE  TypeOK'
  BY <1>0, <1>2 DEF StopRefused, TypeOK, timers, client, fleet
<1>3. ASSUME NEW w \in Workers, ExitWaited(u, w)
      PROVE  TypeOK'
  BY <1>0, <1>3 DEF ExitWaited, TypeOK, timers, client, fleet
<1>4. CASE AllStopped(u)
  BY <1>0, <1>4 DEF AllStopped, TypeOK, timers, client, fleet
<1>5. CASE ExitForUpdate(u)
  BY <1>0, <1>5 DEF ExitForUpdate, TypeOK, timers, client, fleet
<1>6. CASE Abandon(u)
  BY <1>0, <1>6 DEF Abandon, Files, TypeOK, timers, client, fleet
<1>7. CASE Restored(u)
  BY <1>0, <1>7 DEF Restored, TypeOK, timers, client, fleet
<1>8. ASSUME NEW w \in Workers, Restore(u, w)
      PROVE  TypeOK'
  BY <1>0, <1>8 DEF Restore, TypeOK, timers, client, fleet
<1>9. ASSUME NEW w \in Workers, RestoreRelaunches(u, w)
      PROVE  TypeOK'
  <2>1. watch' \in [Workers -> SUBSET {"child", "poll"}]
    <3>1. watch[w] \cup {"child"} \in SUBSET {"child", "poll"}
      BY DEF TypeOK
    <3> QED BY SMTT(30), <1>9, <3>1 DEF RestoreRelaunches, TypeOK
  <2> QED BY <1>0, <1>9, <2>1 DEF RestoreRelaunches, TypeOK, timers, client, fleet
<1> QED BY <1>1, <1>2, <1>3, <1>4, <1>5, <1>6, <1>7, <1>8, <1>9 DEF VerdictStep, CommitStep

\* So do the workers and their monitors (watch_worker).
LEMMA WorkerTyped ==
  ASSUME TypeOK, NEW w \in Workers, WorkerStep(w)
  PROVE  TypeOK'
<1>0. UNCHANGED cmd => InFlight' = InFlight
  BY InFlightKept
<1>1. CASE Crash(w) \/ Leave(w)
  <2>1. watch' \in [Workers -> SUBSET {"child", "poll"}]
    <3>1. watch[w] \ {"child"} \in SUBSET {"child", "poll"}
      BY DEF TypeOK
    <3> QED BY SMTT(30), <1>1, <3>1 DEF Crash, Leave, Gone, TypeOK
  <2>2. proc' \in [Workers -> {"up", "ending", "down"}] /\ late' \subseteq Workers
    BY <1>1 DEF Crash, Leave, Gone, TypeOK
  <2>3. /\ UNCHANGED <<tx, left, mark, sweep, disk, prep, coord, latch, cmd>>
        /\ UNCHANGED <<stop, verdict, intent, exiting>>
    BY <1>1 DEF Crash, Leave, timers, client
  <2> QED BY <1>0, <2>1, <2>2, <2>3 DEF TypeOK
<1>2. CASE LateStop(w)
  BY <1>0, <1>2 DEF LateStop, TypeOK, timers, client, fleet
<1>3. CASE PollStandsDown(w)
  BY <1>0, <1>3 DEF PollStandsDown, TypeOK, timers, client, fleet
<1>4. CASE Relaunch(w)
  BY <1>0, <1>4 DEF Relaunch, TypeOK, timers, client, fleet
<1> QED BY <1>1, <1>2, <1>3, <1>4 DEF WorkerStep

\* The latch counts exactly the commands in flight (MutationDrainLatch).
LEMMA ClientTyped ==
  ASSUME TypeOK, NEW c \in Clients, ClientStep(c)
  PROVE  TypeOK'
<1>0. IsFiniteSet(InFlight)
  BY ClientsAssumption, FS_Subset DEF InFlight
<1>1. CASE CommandAdmitted(c)
  <2>1. InFlight' = InFlight
    BY <1>1 DEF CommandAdmitted, InFlight, TypeOK
  <2> QED BY <1>1, <2>1 DEF CommandAdmitted, TypeOK, timers, client, fleet
<1>2. CASE CommandBegins(c)
  <2>1. c \notin InFlight /\ InFlight' = InFlight \cup {c}
    BY <1>2 DEF CommandBegins, InFlight, TypeOK
  <2>2. Cardinality(InFlight') = Cardinality(InFlight) + 1
    BY <1>0, <2>1, FS_AddElement
  <2> QED BY <1>2, <2>2 DEF CommandBegins, TypeOK, timers, client, fleet
<1>3. CASE CommandEnds(c)
  <2>1. c \in InFlight /\ InFlight' = InFlight \ {c}
    BY <1>3 DEF CommandEnds, InFlight, TypeOK
  <2>2. Cardinality(InFlight') = Cardinality(InFlight) - 1
    BY <1>0, <2>1, FS_RemoveElement
  <2>3. Cardinality(InFlight') \in Nat
    BY <1>0, <2>1, FS_RemoveElement, FS_CardinalityType
  <2> QED BY <1>3, <2>2, <2>3 DEF CommandEnds, TypeOK, timers, client, fleet
<1> QED BY <1>1, <1>2, <1>3 DEF ClientStep

\* Every step of the system keeps the types.
LEMMA StepTyped == TypeOK /\ [Next]_vars => TypeOK'
<1> SUFFICES ASSUME TypeOK, [Next]_vars PROVE TypeOK'
  OBVIOUS
<1>0. UNCHANGED cmd => InFlight' = InFlight
  BY InFlightKept
<1>1. CASE Tick
  BY <1>0, <1>1 DEF Tick, TypeOK, timers, client, fleet
<1>2. CASE AbortIfExpired
  BY <1>0, <1>2 DEF AbortIfExpired, HasArtifacts, Expired, InState, Transactions,
     TypeOK, timers, client, fleet
<1>3. ASSUME NEW u \in Updates, FinishAbort(u)
      PROVE  TypeOK'
  BY <1>0, <1>3 DEF FinishAbort, Files, TypeOK, timers, client, fleet
<1>4. CASE UNCHANGED vars
  BY <1>0, <1>4 DEF vars, TypeOK, timers, client, fleet
<1> QED BY <1>1, <1>2, <1>3, <1>4, PrepareTyped, CoordinatorTyped, CommitTyped,
           WorkerTyped, ClientTyped DEF Next

\* The daemon starts with every variable in its type (PrepareCoordinator::new).
LEMMA InitTyped == Init => TypeOK
<1> SUFFICES ASSUME Init PROVE TypeOK
  OBVIOUS
<1>1. InFlight = {}
  BY DEF Init, InFlight
<1>2. Cardinality(InFlight) = 0
  BY <1>1, FS_EmptySet
<1>3. watch \in [Workers -> SUBSET {"child", "poll"}]
  BY DEF Init
<1>4. verdict \in [Updates -> [Workers -> {"none"}]]
  BY DEF Init
<1>5. 0 \in 0..PrepareBudget /\ 0 \in 0..MarkerBudget
  BY DEF BudgetAssumption
<1>6. disk \in [Updates -> SUBSET Files]
  BY DEF Init
<1> QED BY <1>2, <1>3, <1>4, <1>5, <1>6 DEF Init, TypeOK

\* Every variable of the update restart keeps its type, and the drain latch
\* is the number of commands in flight (MutationDrainLatch, dispatch_client).
THEOREM TypeCorrect == Spec => []TypeOK
BY InitTyped, StepTyped, PTL DEF Spec

-----------------------------------------------------------------------------
(* PreparedIsDurable *)

\* An active transaction is an id and a state.
LEMMA TxShape ==
  TypeOK => tx = NoTx \/ (/\ tx = [id |-> tx.id, state |-> tx.state]
                          /\ tx.id \in Updates
                          /\ tx.state \in PrepareStates)
BY DEF TypeOK, Transactions

\* NoTx is not a transaction, so an active one is told from none.
LEMMA NoTxIsNone ==
  ASSUME NEW u \in Updates, NEW state \in PrepareStates
  PROVE  NoTx # [id |-> u, state |-> state]
BY NoTxAssumption DEF Transactions

\* Steps that leave the transaction, its handlers and its files alone.
LEMMA DurableFrame ==
  ASSUME DurableInv, TypeOK', UNCHANGED <<tx, left, sweep, disk, prep, coord>>
  PROVE  DurableInv'
BY DEF DurableInv, Phases, SweepsAreFinal, WrittenSoFar, PreparedIsDurable, HasArtifacts,
       InState, Active

\* A rollback: the deletion that may follow is the handler's own, and no other
\* attempt under the id begins before it is done (handle_prepare_update_restart).
LEMMA RollBackDurable ==
  ASSUME DurableInv, TypeOK', NEW u \in Updates, prep[u] \notin {"idle", "sweeping", "failed"},
         RollBack(u)
  PROVE  DurableInv'
<1>1. Phases'
  BY TxShape, NoTxIsNone DEF RollBack, DurableInv, TypeOK, Phases, HasArtifacts, InState,
     Active, PrepareStates
<1>2. SweepsAreFinal'
  BY TxShape, NoTxIsNone DEF RollBack, DurableInv, TypeOK, SweepsAreFinal, Phases, HasArtifacts,
     InState, Active, PrepareStates, timers
<1>3. WrittenSoFar'
  BY DEF RollBack, DurableInv, TypeOK, WrittenSoFar
<1>4. PreparedIsDurable'
  BY TxShape, NoTxIsNone DEF RollBack, DurableInv, TypeOK, PreparedIsDurable, HasArtifacts,
     InState, PrepareStates
<1> QED BY <1>1, <1>2, <1>3, <1>4 DEF DurableInv

\* A driver operation that moves the transaction on, with what its handler must
\* have done by then (PrepareCoordinator::drain_complete, snapshot_written,
\* prepare_acked, commit).
LEMMA AdvanceDurable ==
  ASSUME DurableInv, TypeOK', NEW u \in Updates, NEW from \in PrepareStates,
         NEW to \in PrepareStates, Advance(u, from, to),
         \A v \in Updates \ {u} : prep'[v] = prep[v],
         UNCHANGED <<left, sweep, disk>>,
         \A v \in Updates : coord'[v] = "preparing" => coord[v] = "preparing",
         coord[u] # "preparing", prep'[u] \notin {"marker", "written"},
         to # "Draining",
         to = "Fenced" => prep'[u] = "collecting",
         to = "Snapshotted" => prep'[u] = "acking" /\ disk[u] = Files,
         to \in {"Prepared", "Stopping"} =>
           prep'[u] = "idle" /\ from \notin {"Draining", "Fenced"}
  PROVE  DurableInv'
<1>1. tx = [id |-> u, state |-> from] /\ tx' = [id |-> u, state |-> to]
  BY DEF Advance, Active
<1>2. tx # NoTx /\ tx.id = u /\ tx.state = from /\ tx' # NoTx /\ tx'.id = u /\ tx'.state = to
  BY <1>1, NoTxIsNone
<1>3. \A v \in Updates, state \in PrepareStates :
        Active(v, state)' <=> v = u /\ state = to
  BY <1>1 DEF Active
<1>4. Phases'
  <2> SUFFICES ASSUME NEW v \in Updates
      PROVE  /\ coord'[v] = "preparing" => prep'[v] = "idle" /\ v # u
             /\ v = u => /\ to = "Fenced" => prep'[v] = "collecting"
                         /\ to = "Snapshotted" => prep'[v] = "acking"
                         /\ to \in {"Prepared", "Stopping"} => prep'[v] = "idle"
    BY <1>2, <1>3 DEF Phases, PrepareStates
  <2>1. coord[v] = "preparing" => prep[v] = "idle" /\ v # u
    BY <1>2 DEF DurableInv, Phases
  <2> QED BY <2>1
<1>5. SweepsAreFinal'
  <2> SUFFICES ASSUME NEW v \in sweep
      PROVE  /\ v # u
             /\ coord'[v] # "preparing"
             /\ prep'[v] \in {"idle", "acking", "failed"}
             /\ prep'[v] # "idle" => left[v] = 0
    BY <1>2 DEF SweepsAreFinal
  <2>1. v \in Updates /\ v # u
    BY <1>2 DEF DurableInv, TypeOK, SweepsAreFinal
  <2> QED BY <2>1 DEF DurableInv, SweepsAreFinal
<1>6. WrittenSoFar'
  BY DEF DurableInv, WrittenSoFar
<1>7. PreparedIsDurable'
  BY <1>2 DEF DurableInv, PreparedIsDurable, HasArtifacts, InState, PrepareStates
<1> QED BY <1>4, <1>5, <1>6, <1>7 DEF DurableInv

\* The prepare handler writes and deletes only its own files
\* (handle_prepare_update_restart, complete_update_prepare).
LEMMA PrepareDurable ==
  ASSUME DurableInv, TypeOK', NEW u \in Updates, PrepareStep(u)
  PROVE  DurableInv'
<1>1. CASE DrainSeen(u)
  BY <1>1, TxShape, NoTxIsNone DEF DrainSeen, timers, DurableInv, TypeOK,
     Phases, SweepsAreFinal, WrittenSoFar, PreparedIsDurable, HasArtifacts, InState, Active,
     PrepareStates
<1>2. CASE DrainTimedOut(u)
  BY <1>2, RollBackDurable DEF DrainTimedOut, DurableInv, SweepsAreFinal
<1>3. CASE DrainComplete(u)
  <2>1. CASE Active(u, "Draining")
    <3>1. coord[u] # "preparing"
      BY <1>3 DEF DrainComplete, DurableInv, Phases
    <3>2. /\ Advance(u, "Draining", "Fenced")
          /\ prep'[u] = "collecting" /\ \A v \in Updates \ {u} : prep'[v] = prep[v]
      BY <1>3, <2>1 DEF DrainComplete, NotActive, DurableInv, TypeOK
    <3>3. UNCHANGED <<left, sweep, disk>>
      BY <1>3 DEF DrainComplete, timers
    <3>4. \A v \in Updates : coord'[v] = "preparing" => coord[v] = "preparing"
      BY <1>3 DEF DrainComplete
    <3> QED BY <3>1, <3>2, <3>3, <3>4, AdvanceDurable DEF PrepareStates
  <2>2. CASE ~Active(u, "Draining")
    <3>1. ~(InState(PrepareStates \ {"Stopping"}) /\ tx.id = u)
      BY <1>3, <2>2, TxShape
      DEF DrainComplete, NotActive, InState, DurableInv, Phases, Active, PrepareStates
    <3>2. RollBack(u)
      BY <1>3, <2>2, <3>1 DEF DrainComplete, Advance, NotActive, RollBack
    <3> QED BY <1>3, <3>2, RollBackDurable DEF DrainComplete
  <2> QED BY <2>1, <2>2
<1>4. CASE Collected(u)
  BY <1>4, TxShape, NoTxIsNone DEF Collected, timers, DurableInv, TypeOK,
     Phases, SweepsAreFinal, WrittenSoFar, PreparedIsDurable, HasArtifacts, InState, Active,
     PrepareStates
<1>5. CASE CollectFails(u)
  BY <1>5, RollBackDurable DEF CollectFails, DurableInv, SweepsAreFinal
<1>6. CASE WriteArtifact(u)
  <2>1. Phases'
    BY <1>6, TxShape, NoTxIsNone
    DEF WriteArtifact, Files, timers, DurableInv, TypeOK, Phases, Active, PrepareStates
  <2>2. SweepsAreFinal'
    BY <1>6, TxShape, NoTxIsNone
    DEF WriteArtifact, Files, timers, DurableInv, TypeOK, Phases, SweepsAreFinal, Active,
        PrepareStates
  <2>3. WrittenSoFar'
    <3>1. disk[u] \subseteq Files /\ prep[u] \in {"roster", "marker"}
      BY <1>6 DEF WriteArtifact, DurableInv, TypeOK, Files
    <3>2. \A v \in Updates :
            /\ disk'[v] = IF v = u THEN disk[u] \cup {prep[u]} ELSE disk[v]
            /\ prep'[v] = IF v # u THEN prep[v]
                          ELSE IF prep[u] = "roster" THEN "marker" ELSE "written"
      BY <1>6 DEF WriteArtifact, DurableInv, TypeOK
    <3>3. CASE prep[u] = "roster"
      <4>1. disk'[u] = {"roster"} \/ disk'[u] = Files
        BY <3>1, <3>2, <3>3 DEF Files
      <4> QED BY <3>2, <3>3, <4>1 DEF WrittenSoFar, DurableInv
    <3>4. CASE prep[u] = "marker"
      <4>1. disk[u] = {"roster"} \/ disk[u] = Files
        BY <3>4 DEF WrittenSoFar, DurableInv
      <4>2. disk'[u] = Files
        BY <3>2, <3>4, <4>1 DEF Files
      <4> QED BY <3>2, <3>4, <4>2 DEF WrittenSoFar, DurableInv
    <3> QED BY <3>1, <3>3, <3>4
  <2>4. PreparedIsDurable'
    BY <1>6, TxShape, NoTxIsNone
    DEF WriteArtifact, Files, timers, DurableInv, TypeOK, Phases, PreparedIsDurable,
        HasArtifacts, InState, Active, PrepareStates
  <2> QED BY <2>1, <2>2, <2>3, <2>4 DEF DurableInv
<1>7. CASE WriteFails(u)
  BY <1>7, RollBackDurable DEF WriteFails, Files, DurableInv, SweepsAreFinal
<1>8. CASE SnapshotWritten(u)
  <2>1. CASE RollBack(u)
    BY <1>8, <2>1, RollBackDurable DEF SnapshotWritten
  <2>2. CASE ~RollBack(u)
    <3>1. coord[u] # "preparing" /\ disk[u] = Files
      BY <1>8 DEF SnapshotWritten, DurableInv, Phases, WrittenSoFar
    <3>2. /\ Advance(u, "Fenced", "Snapshotted")
          /\ prep'[u] = "acking" /\ \A v \in Updates \ {u} : prep'[v] = prep[v]
          /\ UNCHANGED <<left, sweep, disk, coord>>
      BY <1>8, <2>2 DEF SnapshotWritten, timers, DurableInv, TypeOK
    <3> QED BY <3>1, <3>2, AdvanceDurable DEF PrepareStates
  <2> QED BY <2>1, <2>2
<1>9. CASE PrepareAcked(u)
  <2>1. CASE RollBack(u)
    BY <1>9, <2>1, RollBackDurable DEF PrepareAcked
  <2>2. CASE ~RollBack(u)
    <3>1. coord[u] # "preparing"
      BY <1>9 DEF PrepareAcked, DurableInv, Phases
    <3>2. /\ Advance(u, "Snapshotted", "Prepared")
          /\ prep'[u] = "idle" /\ \A v \in Updates \ {u} : prep'[v] = prep[v]
          /\ UNCHANGED <<left, sweep, disk>>
      BY <1>9, <2>2 DEF PrepareAcked, timers, DurableInv, TypeOK
    <3>3. \A v \in Updates : coord'[v] = "preparing" => coord[v] = "preparing"
      BY <1>9, <2>2 DEF PrepareAcked, DurableInv, TypeOK
    <3> QED BY <3>1, <3>2, <3>3, AdvanceDurable DEF PrepareStates
  <2> QED BY <2>1, <2>2
<1>10. CASE RollBackSweeps(u)
  <2>1. Phases'
    BY <1>10, TxShape, NoTxIsNone
    DEF RollBackSweeps, timers, DurableInv, TypeOK, Phases, Active, PrepareStates
  <2>2. SweepsAreFinal'
    BY <1>10, TxShape, NoTxIsNone
    DEF RollBackSweeps, timers, DurableInv, TypeOK, Phases, SweepsAreFinal, Active,
        PrepareStates
  <2>3. WrittenSoFar'
    BY <1>10
    DEF RollBackSweeps, timers, DurableInv, TypeOK, WrittenSoFar
  <2>4. PreparedIsDurable'
    BY <1>10, TxShape, NoTxIsNone
    DEF RollBackSweeps, timers, DurableInv, TypeOK, Phases, PreparedIsDurable, HasArtifacts,
        InState, Active, PrepareStates
  <2> QED BY <2>1, <2>2, <2>3, <2>4 DEF DurableInv
<1>11. CASE PrepareFailed(u)
  BY <1>11, TxShape, NoTxIsNone DEF PrepareFailed, timers, DurableInv, TypeOK,
     Phases, SweepsAreFinal, WrittenSoFar, PreparedIsDurable, HasArtifacts, InState, Active,
     PrepareStates
<1> QED BY <1>1, <1>2, <1>3, <1>4, <1>5, <1>6, <1>7, <1>8, <1>9, <1>10, <1>11
           DEF PrepareStep

\* A coordinator begins, refuses and commits only what is its own
\* (PrepareCoordinator::begin and commit).
LEMMA CoordinatorDurable ==
  ASSUME DurableInv, TypeOK', NEW u \in Updates, CoordinatorStep(u)
  PROVE  DurableInv'
<1>1. CASE PrepareStarts(u)
  BY <1>1, TxShape, NoTxIsNone DEF PrepareStarts, DurableInv, TypeOK,
     Phases, SweepsAreFinal, WrittenSoFar, PreparedIsDurable, HasArtifacts, InState, Active,
     PrepareStates
<1>2. CASE PrepareRefused(u)
  BY <1>2, TxShape, NoTxIsNone DEF PrepareRefused, timers, DurableInv, TypeOK,
     Phases, SweepsAreFinal, WrittenSoFar, PreparedIsDurable, HasArtifacts, InState, Active,
     PrepareStates
<1>3. CASE MarkerChecked(u)
  BY <1>3, TxShape, NoTxIsNone DEF MarkerChecked, timers, DurableInv, TypeOK,
     Phases, SweepsAreFinal, WrittenSoFar, PreparedIsDurable, HasArtifacts, InState, Active,
     PrepareStates
<1>4. CASE CoordinatorGivesUp(u)
  BY <1>4, TxShape, NoTxIsNone DEF CoordinatorGivesUp, timers, DurableInv, TypeOK,
     Phases, SweepsAreFinal, WrittenSoFar, PreparedIsDurable, HasArtifacts, InState, Active,
     PrepareStates
<1>5. CASE CommitStarts(u)
  <2>1. prep[u] = "idle" /\ prep' = [prep EXCEPT ![u] = "idle"]
    BY <1>5 DEF CommitStarts, Advance, timers, DurableInv, TypeOK, Phases
  <2>2. \A v \in Updates : coord'[v] = "preparing" => coord[v] = "preparing"
    BY <1>5 DEF CommitStarts, DurableInv, TypeOK
  <2> QED BY <1>5, <2>1, <2>2, AdvanceDurable
      DEF CommitStarts, PrepareStates, timers, DurableInv, TypeOK
<1>6. CASE CommitRefused(u)
  BY <1>6, TxShape, NoTxIsNone DEF CommitRefused, NotActive, timers, DurableInv, TypeOK,
     Phases, SweepsAreFinal, WrittenSoFar, PreparedIsDurable, HasArtifacts, InState, Active,
     PrepareStates
<1> QED BY <1>1, <1>2, <1>3, <1>4, <1>5, <1>6 DEF CoordinatorStep

\* Of the commit handler only the abandonment deletes, and only what is Stopping
\* (abandon_stopping).
LEMMA CommitDurable ==
  ASSUME DurableInv, TypeOK', NEW u \in Updates, VerdictStep(u) \/ CommitStep(u)
  PROVE  DurableInv'
<1>1. CASE VerdictStep(u)
  BY <1>1, DurableFrame DEF VerdictStep, StopAcked, StopRefused, ExitWaited, timers
<1>2. CASE AllStopped(u) \/ ExitForUpdate(u)
  BY <1>2, DurableFrame DEF AllStopped, ExitForUpdate, timers
<1>3. CASE \E w \in Workers : Restore(u, w) \/ RestoreRelaunches(u, w)
  BY <1>3, DurableFrame DEF Restore, RestoreRelaunches, timers
<1>4. CASE Abandon(u)
  <2>0. UNCHANGED <<left, sweep, prep, coord>>
    BY <1>4 DEF Abandon, timers
  <2>1. CASE Active(u, "Stopping")
    <3>1. tx' = NoTx /\ prep[u] = "idle" /\ \A v \in Updates : v # u => disk'[v] = disk[v]
      BY <1>4, <2>1 DEF Abandon, DurableInv, TypeOK, Phases
    <3>2. Phases'
      BY <2>0, <3>1, NoTxIsNone DEF DurableInv, Phases, Active, PrepareStates
    <3>3. SweepsAreFinal'
      BY <2>0, <3>1 DEF DurableInv, SweepsAreFinal
    <3>4. WrittenSoFar'
      BY <2>0, <3>1 DEF DurableInv, WrittenSoFar
    <3>5. PreparedIsDurable'
      BY <3>1 DEF PreparedIsDurable, HasArtifacts, InState
    <3> QED BY <3>2, <3>3, <3>4, <3>5 DEF DurableInv
  <2>2. CASE ~Active(u, "Stopping")
    BY <1>4, <2>0, <2>2, DurableFrame DEF Abandon
  <2> QED BY <2>1, <2>2
<1>5. CASE Restored(u)
  BY <1>5, TxShape, NoTxIsNone DEF Restored, timers, DurableInv, TypeOK,
     Phases, SweepsAreFinal, WrittenSoFar, PreparedIsDurable, HasArtifacts, InState, Active,
     PrepareStates
<1> QED BY <1>1, <1>2, <1>3, <1>4, <1>5 DEF CommitStep

\* Time, the watchdog and its deletions, the clients and the workers
\* (abort_if_expired, finish_update_abort).
LEMMA EnvironmentDurable ==
  ASSUME DurableInv, TypeOK',
         \/ Tick \/ AbortIfExpired
         \/ \E u \in Updates : FinishAbort(u)
         \/ \E w \in Workers : WorkerStep(w)
         \/ \E c \in Clients : ClientStep(c)
  PROVE  DurableInv'
<1>1. CASE Tick
  BY <1>1, TxShape, NoTxIsNone DEF Tick, DurableInv, TypeOK,
     Phases, SweepsAreFinal, WrittenSoFar, PreparedIsDurable, HasArtifacts, InState, Active,
     PrepareStates
<1>2. CASE AbortIfExpired
  BY <1>2, TxShape, NoTxIsNone DEF AbortIfExpired, Expired, timers, DurableInv, TypeOK,
     Phases, SweepsAreFinal, WrittenSoFar, PreparedIsDurable, HasArtifacts, InState, Active,
     PrepareStates
<1>3. ASSUME NEW u \in Updates, FinishAbort(u)
      PROVE  DurableInv'
  <2>1. Phases'
    BY <1>3, TxShape, NoTxIsNone
    DEF FinishAbort, timers, DurableInv, TypeOK, Phases, Active, PrepareStates
  <2>2. SweepsAreFinal'
    BY <1>3, TxShape, NoTxIsNone
    DEF FinishAbort, timers, DurableInv, TypeOK, Phases, SweepsAreFinal, Active, PrepareStates
  <2>3. WrittenSoFar'
    <3>1. prep[u] \notin {"marker", "written"}
      BY <1>3 DEF FinishAbort, DurableInv, SweepsAreFinal
    <3>2. \A v \in Updates : prep'[v] = prep[v] /\ (v # u => disk'[v] = disk[v])
      BY <1>3 DEF FinishAbort, DurableInv, TypeOK
    <3> QED BY <3>1, <3>2 DEF WrittenSoFar, DurableInv
  <2>4. PreparedIsDurable'
    BY <1>3, TxShape, NoTxIsNone
    DEF FinishAbort, timers, DurableInv, TypeOK, Phases, SweepsAreFinal, PreparedIsDurable,
        HasArtifacts, InState, Active, PrepareStates
  <2> QED BY <2>1, <2>2, <2>3, <2>4 DEF DurableInv
<1>4. CASE \E w \in Workers : WorkerStep(w)
  BY <1>4, DurableFrame DEF WorkerStep, Crash, Leave, Gone, LateStop, PollStandsDown, Relaunch,
     timers
<1>5. CASE \E c \in Clients : ClientStep(c)
  BY <1>5, DurableFrame DEF ClientStep, CommandAdmitted, CommandBegins, CommandEnds, timers
<1> QED BY <1>1, <1>2, <1>3, <1>4, <1>5

\* Every step of the system keeps the invariant behind PreparedIsDurable.
LEMMA StepDurable == DurableInv /\ [Next]_vars => DurableInv'
<1> SUFFICES ASSUME DurableInv, [Next]_vars PROVE DurableInv'
  OBVIOUS
<1>1. TypeOK'
  BY StepTyped DEF DurableInv
<1>2. CASE UNCHANGED vars
  BY <1>1, <1>2, DurableFrame DEF vars, timers
<1>3. CASE Next
  BY <1>1, <1>3, PrepareDurable, CoordinatorDurable, CommitDurable, EnvironmentDurable DEF Next
<1> QED BY <1>2, <1>3

\* From Snapshotted on an active transaction has both its files on disk: no
\* deletion left over from an earlier attempt, and no race of handler, watchdog
\* and abandonment, takes them (update_prepare.rs:70-81).
THEOREM PreparedFilesStay == Spec => []PreparedIsDurable
<1>1. Init => DurableInv
  BY InitTyped, NoTxIsNone DEF Init, DurableInv, Phases, SweepsAreFinal, WrittenSoFar,
     PreparedIsDurable, HasArtifacts, InState, Active, PrepareStates
<1>2. DurableInv => PreparedIsDurable
  BY DEF DurableInv
<1> QED BY <1>1, <1>2, StepDurable, PTL DEF Spec

-----------------------------------------------------------------------------
(* ExitOnlyAfterStop *)

\* The workers of this supervisor's own launch (launch_worker, worker_lifecycle.rs:109).
LEMMA LaunchedAreWorkers == Launched \subseteq Workers
BY DEF Launched

\* Steps that touch neither the stops nor the workers and take no transaction
\* into or out of Stopping: the fence keeps them apart from a commit.
LEMMA StopFrame ==
  ASSUME StopInv, TypeOK', UNCHANGED <<stop, verdict, proc, intent, watch>>,
         \A v \in Updates : Active(v, "Stopping")' <=> Active(v, "Stopping"),
         \A v \in Updates : HasSnapshots(v)' =>
           HasSnapshots(v) \/ \A x \in Updates, w \in Launched : verdict[x][w] = "none"
  PROVE  StopInv'
<1>1. CommitShape'
  BY DEF StopInv, CommitShape
<1>2. OneStop'
  BY DEF StopInv, OneStop
<1>3. VerdictsHold' /\ OnlyChildren'
  BY LaunchedAreWorkers DEF StopInv, VerdictsHold, OnlyChildren
<1> QED BY <1>1, <1>2, <1>3 DEF StopInv

\* A rollback leaves a Stopping transaction alone
\* (PrepareCoordinator::abort, update_prepare.rs).
LEMMA RollBackStop ==
  ASSUME StopInv, TypeOK', NEW u \in Updates, RollBack(u)
  PROVE  StopInv'
<1>1. UNCHANGED <<stop, verdict, proc, intent, watch>>
  BY DEF RollBack, fleet
<1>2. CASE InState(PrepareStates \ {"Stopping"}) /\ tx.id = u
  <2>1. tx' = NoTx
    BY <1>2 DEF RollBack
  <2>2. \A v \in Updates, s \in PrepareStates : ~Active(v, s)'
    BY <2>1, NoTxIsNone DEF Active
  <2>3. \A v \in Updates : ~Active(v, "Stopping")
    BY <1>2 DEF InState, Active
  <2> QED BY <1>1, <2>2, <2>3, StopFrame DEF HasSnapshots, PrepareStates
<1>3. CASE ~(InState(PrepareStates \ {"Stopping"}) /\ tx.id = u)
  <2>1. UNCHANGED tx /\ \A v \in Updates \ {u} : prep'[v] = prep[v]
    BY <1>3 DEF RollBack, StopInv, TypeOK
  <2>2. ~Active(u, "Fenced")
    BY <1>3, NoTxIsNone DEF InState, Active, PrepareStates
  <2> QED BY <1>1, <2>1, <2>2, StopFrame DEF HasSnapshots, Active
<1> QED BY <1>2, <1>3

\* The prepare handler: the snapshots are taken only when no worker is being
\* stopped or relaunched (collect_snapshots, update_restart.rs).
LEMMA PrepareStop ==
  ASSUME StopInv, TypeOK', NEW u \in Updates, PrepareStep(u)
  PROVE  StopInv'
<1>1. CASE DrainSeen(u) \/ WriteArtifact(u) \/ RollBackSweeps(u) \/ PrepareFailed(u)
  <2>1. UNCHANGED <<stop, verdict, proc, intent, watch, tx>>
    BY <1>1 DEF DrainSeen, WriteArtifact, RollBackSweeps, PrepareFailed, fleet
  <2>2. \A v \in Updates : prep[v] = "collecting" => prep'[v] = "collecting"
    BY <1>1 DEF DrainSeen, WriteArtifact, RollBackSweeps, PrepareFailed, Files, StopInv, TypeOK
  <2> QED BY <2>1, <2>2, StopFrame DEF HasSnapshots, Active
<1>2. CASE Collected(u)
  <2>1. UNCHANGED <<stop, verdict, proc, intent, watch, tx>>
    BY <1>2 DEF Collected, fleet
  <2>2. \A x \in Updates, w \in Launched : verdict[x][w] = "none"
    BY <1>2, LaunchedAreWorkers DEF Collected, StopInv, TypeOK, VerdictsHold
  <2> QED BY <2>1, <2>2, StopFrame DEF Active
<1>3. CASE DrainComplete(u)
  <2>0. UNCHANGED <<stop, verdict, proc, intent, watch>>
    BY <1>3 DEF DrainComplete, fleet
  <2>1. CASE Active(u, "Draining")
    <3>1. prep'[u] = "collecting" /\ Active(u, "Fenced")'
      BY <1>3, <2>1 DEF DrainComplete, Advance, NotActive, Active, StopInv, TypeOK
    <3>2. \A v \in Updates, t \in PrepareStates : Active(v, t)' <=> v = u /\ t = "Fenced"
      BY <3>1 DEF Active
    <3>3. \A v \in Updates : ~Active(v, "Stopping")
      BY <2>1 DEF Active
    <3> QED BY <2>0, <3>1, <3>2, <3>3, StopFrame DEF HasSnapshots, PrepareStates
  <2>2. CASE ~Active(u, "Draining")
    <3>1. UNCHANGED tx /\ \A v \in Updates : prep[v] = "collecting" => prep'[v] = "collecting"
      BY <1>3, <2>2 DEF DrainComplete, Advance, NotActive, StopInv, TypeOK
    <3> QED BY <2>0, <3>1, StopFrame DEF HasSnapshots, Active
  <2> QED BY <2>1, <2>2
<1>4. CASE DrainTimedOut(u) \/ CollectFails(u) \/ WriteFails(u)
  BY <1>4, RollBackStop DEF DrainTimedOut, CollectFails, WriteFails
<1>5. CASE SnapshotWritten(u)
  <2>1. CASE RollBack(u)
    BY <2>1, RollBackStop
  <2>2. CASE ~RollBack(u)
    <3>1. /\ UNCHANGED <<stop, verdict, proc, intent, watch>>
          /\ Active(u, "Fenced") /\ Active(u, "Snapshotted")'
      BY <1>5, <2>2 DEF SnapshotWritten, Advance, Active, fleet
    <3>2. HasSnapshots(u)
      BY <1>5, <3>1 DEF SnapshotWritten, HasSnapshots
    <3>3. \A v \in Updates, t \in PrepareStates : Active(v, t)' <=> v = u /\ t = "Snapshotted"
      BY <3>1 DEF Active
    <3>4. \A v \in Updates : ~Active(v, "Stopping")
      BY <3>1 DEF Active
    <3> QED BY <3>1, <3>2, <3>3, <3>4, StopFrame DEF HasSnapshots, PrepareStates
  <2> QED BY <2>1, <2>2
<1>6. CASE PrepareAcked(u)
  <2>1. CASE RollBack(u)
    BY <2>1, RollBackStop
  <2>2. CASE ~RollBack(u)
    <3>1. /\ UNCHANGED <<stop, verdict, proc, intent, watch>>
          /\ Active(u, "Snapshotted") /\ Active(u, "Prepared")'
      BY <1>6, <2>2 DEF PrepareAcked, Advance, Active, fleet
    <3>2. HasSnapshots(u)
      BY <3>1 DEF HasSnapshots
    <3>3. \A v \in Updates, t \in PrepareStates : Active(v, t)' <=> v = u /\ t = "Prepared"
      BY <3>1 DEF Active
    <3>4. \A v \in Updates : ~Active(v, "Stopping")
      BY <3>1 DEF Active
    <3> QED BY <3>1, <3>2, <3>3, <3>4, StopFrame DEF HasSnapshots, PrepareStates
  <2> QED BY <2>1, <2>2
<1> QED BY <1>1, <1>2, <1>3, <1>4, <1>5, <1>6 DEF PrepareStep

\* The coordinators: a commit finds no other stop under way
\* (PrepareCoordinator::begin, commit; stop_workers_gracefully).
LEMMA CoordinatorStop ==
  ASSUME StopInv, TypeOK', NEW u \in Updates, CoordinatorStep(u)
  PROVE  StopInv'
<1>1. CASE PrepareStarts(u)
  <2>1. /\ UNCHANGED <<stop, verdict, proc, intent, watch>>
        /\ tx = NoTx /\ tx' = [id |-> u, state |-> "Draining"]
    BY <1>1 DEF PrepareStarts, fleet
  <2>2. \A v \in Updates, t \in PrepareStates : ~Active(v, t)
    BY <2>1, NoTxIsNone DEF Active
  <2>3. \A v \in Updates, t \in PrepareStates : Active(v, t)' <=> v = u /\ t = "Draining"
    BY <2>1 DEF Active
  <2> QED BY <2>1, <2>2, <2>3, StopFrame DEF HasSnapshots, PrepareStates
<1>2. CASE PrepareRefused(u) \/ MarkerChecked(u) \/ CoordinatorGivesUp(u) \/ CommitRefused(u)
  <2>1. UNCHANGED <<stop, verdict, proc, intent, watch, tx, prep>>
    BY <1>2 DEF PrepareRefused, MarkerChecked, CoordinatorGivesUp, CommitRefused, NotActive,
        fleet
  <2> QED BY <2>1, StopFrame DEF HasSnapshots, Active
<1>3. CASE CommitStarts(u)
  <2>1. Active(u, "Prepared") /\ Active(u, "Stopping")'
    BY <1>3 DEF CommitStarts, Advance, Active
  <2>2. \A v \in Updates, t \in PrepareStates :
          /\ Active(v, t) <=> v = u /\ t = "Prepared"
          /\ Active(v, t)' <=> v = u /\ t = "Stopping"
    BY <2>1 DEF Active
  <2>3. \A v \in Updates, w \in Launched : verdict[v][w] = "none"
    BY <2>1 DEF StopInv, OneStop, HasSnapshots
  <2>4. /\ \A v \in Updates, w \in Launched : verdict'[v][w] = IF v = u THEN "asked" ELSE "none"
        /\ \A v \in Updates : stop'[v] = IF v = u THEN "stopping" ELSE stop[v]
        /\ \A w \in Workers : intent'[w]
        /\ UNCHANGED watch
    BY <1>3, <2>3, LaunchedAreWorkers DEF CommitStarts, StopInv, TypeOK
  <2>5. CommitShape'
    BY <2>2, <2>4 DEF CommitShape, StopInv, PrepareStates
  <2>6. OneStop'
    BY <2>2, <2>4 DEF OneStop, HasSnapshots, PrepareStates
  <2>7. VerdictsHold' /\ OnlyChildren'
    BY <2>4, LaunchedAreWorkers DEF VerdictsHold, OnlyChildren, StopInv
  <2> QED BY <2>5, <2>6, <2>7 DEF StopInv
<1> QED BY <1>1, <1>2, <1>3 DEF CoordinatorStep

\* Steps of a stop: no verdict but the handler's own appears, and none is taken
\* back once all are Stopped (handle_commit_update_restart).
LEMMA VerdictFrame ==
  ASSUME StopInv, UNCHANGED <<tx, prep, stop>>,
         \A v \in Updates, w \in Workers :
           /\ verdict[v][w] = "none" => verdict'[v][w] = "none"
           /\ stop[v] = "closing" => verdict'[v][w] = verdict[v][w]
  PROVE  CommitShape' /\ OneStop'
<1>1. CommitShape'
  BY DEF StopInv, CommitShape, Active
<1>2. \A v \in Updates : HasSnapshots(v)' <=> HasSnapshots(v)
  BY DEF HasSnapshots, Active
<1>3. OneStop'
  BY <1>2, LaunchedAreWorkers DEF StopInv, OneStop
<1> QED BY <1>1, <1>3

\* The stop of one worker: an acknowledged one is on its way out, and a verdict
\* of Stopped is given to one that is gone (stop_workers_gracefully).
LEMMA VerdictStop ==
  ASSUME StopInv, TypeOK', NEW u \in Updates, VerdictStep(u)
  PROVE  StopInv'
<1>1. PICK w \in Workers : StopAcked(u, w) \/ StopRefused(u, w) \/ ExitWaited(u, w)
  BY DEF VerdictStep
<1>2. /\ UNCHANGED <<tx, prep, stop, intent, watch>>
      /\ verdict[u][w] \in {"asked", "acked"}
      /\ \A v \in Updates, x \in Workers : v # u \/ x # w => verdict'[v][x] = verdict[v][x]
  BY <1>1 DEF StopAcked, StopRefused, ExitWaited, StopInv, TypeOK
<1>3. stop[u] # "closing"
  BY <1>2 DEF StopInv, CommitShape
<1>4. CommitShape' /\ OneStop'
  BY <1>2, <1>3, VerdictFrame
<1>5. w \in Launched => \A v \in Updates : v # u => verdict[v][w] = "none"
  BY <1>2 DEF StopInv, OneStop
<1>6. \/ verdict'[u][w] = "acked" /\ proc[w] = "up" /\ proc' = [proc EXCEPT ![w] = "ending"]
      \/ verdict'[u][w] = "Refused" /\ UNCHANGED proc
      \/ verdict'[u][w] = "Stopped" /\ proc[w] = "down" /\ UNCHANGED proc
           /\ verdict[u][w] = "acked"
  BY <1>1 DEF StopAcked, StopRefused, ExitWaited, StopInv, TypeOK
<1>7. VerdictsHold'
  <2> SUFFICES ASSUME NEW v \in Updates, NEW x \in Launched
      PROVE  /\ verdict'[v][x] \in {"asked", "acked", "Stopped", "Refused"} => intent[x]
             /\ verdict'[v][x] = "acked" => proc'[x] # "up"
             /\ verdict'[v][x] \in {"Stopped", "relaunching"} => proc'[x] = "down"
             /\ verdict'[v][x] \in {"acked", "Stopped", "relaunching"} /\ proc'[x] = "down"
                  => watch[x] = {}
    BY <1>2 DEF VerdictsHold
  <2>0. x \in Workers
    BY LaunchedAreWorkers
  <2>1. CASE x = w /\ v = u
    BY <2>0, <2>1, <1>2, <1>6 DEF StopInv, TypeOK, VerdictsHold
  <2>2. CASE x = w /\ v # u
    BY <2>0, <2>2, <1>2, <1>5
  <2>3. CASE x # w
    <3>1. proc'[x] = proc[x] /\ verdict'[v][x] = verdict[v][x]
      BY <2>0, <2>3, <1>2, <1>6 DEF StopInv, TypeOK
    <3> QED BY <3>1 DEF StopInv, VerdictsHold
  <2> QED BY <2>1, <2>2, <2>3
<1>8. OnlyChildren'
  BY <1>2 DEF StopInv, OnlyChildren
<1> QED BY <1>4, <1>7, <1>8 DEF StopInv

\* The verdict on the whole, and the way back from an abandoned update: only
\* this stop's own flags are taken back, and only its own workers relaunched
\* (abandon_stopping and the restore loop of handle_commit_update_restart).
LEMMA CommitStop ==
  ASSUME StopInv, TypeOK', NEW u \in Updates, CommitStep(u)
  PROVE  StopInv'
<1>1. CASE AllStopped(u)
  <2>1. /\ UNCHANGED <<tx, prep, verdict, proc, intent, watch>>
        /\ stop[u] = "stopping" /\ \A w \in Workers : verdict[u][w] = "Stopped"
        /\ \A v \in Updates : stop'[v] = IF v = u THEN "closing" ELSE stop[v]
    BY <1>1 DEF AllStopped, fleet, StopInv, TypeOK
  <2>2. CommitShape'
    BY <2>1 DEF StopInv, CommitShape, Active
  <2>3. OneStop'
    BY <2>1 DEF StopInv, OneStop, HasSnapshots, Active
  <2>4. VerdictsHold' /\ OnlyChildren'
    BY <2>1 DEF StopInv, VerdictsHold, OnlyChildren
  <2> QED BY <2>2, <2>3, <2>4 DEF StopInv
<1>2. CASE ExitForUpdate(u)
  <2>1. UNCHANGED <<tx, prep, stop, verdict, proc, intent, watch>>
    BY <1>2 DEF ExitForUpdate, fleet
  <2> QED BY <2>1, StopFrame DEF HasSnapshots, Active
<1>3. CASE Abandon(u)
  <2>1. Active(u, "Stopping")
    BY <1>3 DEF Abandon, StopInv, CommitShape
  <2>2. /\ UNCHANGED <<prep, verdict, proc, intent, watch>> /\ tx' = NoTx
        /\ \A v \in Updates : stop'[v] = IF v = u THEN "restoring" ELSE stop[v]
    BY <1>3, <2>1 DEF Abandon, fleet, StopInv, TypeOK
  <2>3. \A v \in Updates, t \in PrepareStates : ~Active(v, t)'
    BY <2>2, NoTxIsNone DEF Active
  <2>4. \A v \in Updates : v # u => ~Active(v, "Stopping")
    BY <2>1 DEF Active
  <2>5. CommitShape'
    BY <2>2, <2>3, <2>4 DEF StopInv, CommitShape, PrepareStates
  <2>6. OneStop'
    BY <2>2, <2>3 DEF StopInv, OneStop, HasSnapshots, PrepareStates
  <2>7. VerdictsHold' /\ OnlyChildren'
    BY <2>2 DEF StopInv, VerdictsHold, OnlyChildren
  <2> QED BY <2>5, <2>6, <2>7 DEF StopInv
<1>4. CASE Restored(u)
  <2>1. /\ UNCHANGED <<tx, prep, verdict, proc, intent, watch>>
        /\ stop[u] = "restoring"
        /\ \A v \in Updates : stop'[v] = IF v = u THEN "idle" ELSE stop[v]
    BY <1>4 DEF Restored, fleet, StopInv, TypeOK
  <2>2. CommitShape'
    BY <2>1 DEF StopInv, CommitShape, Active
  <2>3. OneStop'
    BY <2>1 DEF StopInv, OneStop, HasSnapshots, Active
  <2>4. VerdictsHold' /\ OnlyChildren'
    BY <2>1 DEF StopInv, VerdictsHold, OnlyChildren
  <2> QED BY <2>2, <2>3, <2>4 DEF StopInv
<1>5. ASSUME NEW w \in Workers, Restore(u, w)
      PROVE  StopInv'
  <2>1. /\ UNCHANGED <<tx, prep, stop, proc, watch>>
        /\ stop[u] = "restoring" /\ verdict[u][w] \in {"Stopped", "Refused"}
        /\ \A v \in Updates, x \in Workers : v # u \/ x # w => verdict'[v][x] = verdict[v][x]
        /\ verdict'[u][w] = IF verdict[u][w] = "Stopped" THEN "relaunching" ELSE "none"
        /\ \A x \in Workers : x # w => intent'[x] = intent[x]
    BY <1>5 DEF Restore, StopInv, TypeOK
  <2>2. CommitShape' /\ OneStop'
    BY <2>1, VerdictFrame
  <2>3. w \in Launched => \A v \in Updates : v # u => verdict[v][w] = "none"
    BY <2>1 DEF StopInv, OneStop
  <2>4. VerdictsHold'
    BY <2>1, <2>3, LaunchedAreWorkers DEF StopInv, VerdictsHold
  <2>5. OnlyChildren'
    BY <2>1 DEF StopInv, OnlyChildren
  <2> QED BY <2>2, <2>4, <2>5 DEF StopInv
<1>6. ASSUME NEW w \in Workers, RestoreRelaunches(u, w)
      PROVE  StopInv'
  <2>1. /\ UNCHANGED <<tx, prep, stop, intent>>
        /\ verdict[u][w] = "relaunching" /\ verdict'[u][w] = "none"
        /\ \A v \in Updates, x \in Workers : v # u \/ x # w => verdict'[v][x] = verdict[v][x]
        /\ \A x \in Workers : x # w => proc'[x] = proc[x] /\ watch'[x] = watch[x]
        /\ watch'[w] \subseteq watch[w] \cup {"child"}
    BY <1>6 DEF RestoreRelaunches, StopInv, TypeOK
  <2>2. stop[u] # "closing"
    BY <2>1 DEF StopInv, CommitShape
  <2>3. CommitShape' /\ OneStop'
    BY <2>1, <2>2, VerdictFrame
  <2>4. w \in Launched => \A v \in Updates : v # u => verdict[v][w] = "none"
    BY <2>1 DEF StopInv, OneStop
  <2>5. VerdictsHold'
    BY <2>1, <2>4, LaunchedAreWorkers DEF StopInv, VerdictsHold
  <2>6. OnlyChildren'
    BY <2>1, LaunchedAreWorkers DEF StopInv, OnlyChildren
  <2> QED BY <2>3, <2>5, <2>6 DEF StopInv
<1> QED BY <1>1, <1>2, <1>3, <1>4, <1>5, <1>6 DEF CommitStep

\* The workers and their monitors: no monitor is left to bring back a worker
\* that was stopped (watch_worker).
LEMMA WorkerStop ==
  ASSUME StopInv, TypeOK', NEW w \in Workers, WorkerStep(w)
  PROVE  StopInv'
<1>1. /\ UNCHANGED <<tx, prep, stop, verdict, intent>>
      /\ \A x \in Workers : x # w => proc'[x] = proc[x] /\ watch'[x] = watch[x]
  BY DEF WorkerStep, Crash, Leave, Gone, LateStop, PollStandsDown, Relaunch, StopInv, TypeOK
<1>2. CommitShape' /\ OneStop'
  BY <1>1, VerdictFrame
<1>3. CASE Crash(w) \/ Leave(w)
  <2>1. /\ proc'[w] = "down" /\ proc[w] # "down"
        /\ watch'[w] = IF intent[w] THEN watch[w] \ {"child"} ELSE watch[w]
    BY <1>3 DEF Crash, Leave, Gone, StopInv, TypeOK
  <2>2. w \in Launched => watch'[w] \subseteq {"child"} /\ (intent[w] => watch'[w] = {})
    BY <2>1 DEF StopInv, OnlyChildren
  <2>3. VerdictsHold'
    BY <1>1, <2>1, <2>2, LaunchedAreWorkers DEF StopInv, VerdictsHold
  <2>4. OnlyChildren'
    BY <1>1, <2>2, LaunchedAreWorkers DEF StopInv, OnlyChildren
  <2> QED BY <1>2, <2>3, <2>4 DEF StopInv
<1>4. CASE LateStop(w)
  <2>1. proc[w] = "up" /\ proc'[w] = "ending" /\ UNCHANGED watch
    BY <1>4 DEF LateStop, StopInv, TypeOK
  <2>2. VerdictsHold'
    BY <1>1, <2>1, LaunchedAreWorkers DEF StopInv, VerdictsHold
  <2>3. OnlyChildren'
    BY <2>1 DEF StopInv, OnlyChildren
  <2> QED BY <1>2, <2>2, <2>3 DEF StopInv
<1>5. CASE PollStandsDown(w)
  <2>1. UNCHANGED proc /\ watch'[w] = watch[w] \ {"poll"}
    BY <1>5 DEF PollStandsDown, StopInv, TypeOK
  <2>2. VerdictsHold'
    BY <1>1, <2>1, LaunchedAreWorkers DEF StopInv, VerdictsHold
  <2>3. OnlyChildren'
    BY <1>1, <2>1, LaunchedAreWorkers DEF StopInv, OnlyChildren
  <2> QED BY <1>2, <2>2, <2>3, <1>5 DEF StopInv
<1>6. CASE Relaunch(w)
  <2>1. /\ watch[w] # {} /\ proc[w] = "down" /\ ~intent[w]
        /\ proc'[w] = "up" /\ watch'[w] = {"child"}
    BY <1>6 DEF Relaunch, StopInv, TypeOK
  <2>2. w \in Launched => \A v \in Updates :
          verdict[v][w] \notin {"asked", "acked", "Stopped", "Refused", "relaunching"}
    BY <2>1 DEF StopInv, VerdictsHold
  <2>3. VerdictsHold'
    BY <1>1, <2>1, <2>2, LaunchedAreWorkers DEF StopInv, VerdictsHold
  <2>4. OnlyChildren'
    BY <1>1, <2>1, LaunchedAreWorkers DEF StopInv, OnlyChildren
  <2> QED BY <1>2, <2>3, <2>4 DEF StopInv
<1> QED BY <1>3, <1>4, <1>5, <1>6 DEF WorkerStep

\* Every step of the system keeps the invariant behind ExitOnlyAfterStop.
LEMMA StepStop == StopInv /\ [Next]_vars => StopInv'
<1> SUFFICES ASSUME StopInv, [Next]_vars PROVE StopInv'
  OBVIOUS
<1>1. TypeOK'
  BY StepTyped DEF StopInv
<1>2. CASE UNCHANGED vars \/ Tick \/ (\E u \in Updates : FinishAbort(u))
             \/ (\E c \in Clients : ClientStep(c))
  <2>1. UNCHANGED <<tx, prep, stop, verdict, proc, intent, watch>>
    BY <1>2 DEF vars, Tick, FinishAbort, ClientStep, CommandAdmitted, CommandBegins,
       CommandEnds, fleet
  <2> QED BY <1>1, <2>1, StopFrame DEF HasSnapshots, Active
<1>3. CASE AbortIfExpired
  <2>1. UNCHANGED <<stop, verdict, proc, intent, watch>> /\ tx' = NoTx
    BY <1>3 DEF AbortIfExpired, fleet
  <2>2. \A v \in Updates, t \in PrepareStates : ~Active(v, t)'
    BY <2>1, NoTxIsNone DEF Active
  <2>3. \A v \in Updates : ~Active(v, "Stopping")
    BY <1>3 DEF AbortIfExpired, Expired, InState, Active
  <2> QED BY <1>1, <2>1, <2>2, <2>3, StopFrame DEF HasSnapshots, PrepareStates
<1> QED BY <1>1, <1>2, <1>3, PrepareStop, CoordinatorStop, VerdictStop, CommitStop, WorkerStop
        DEF Next

\* When the exit for the update is decided every worker that the supervisor
\* launched is gone and stays gone, through any number of updates, commits and
\* abandonments, with adopted workers beside them
\* (handle_commit_update_restart, update_restart.rs:401-460).
THEOREM ExitsOnlyWhenAllStopped == Spec => []ExitOnlyAfterStop
<1>1. Init => StopInv
  <2> SUFFICES ASSUME Init PROVE StopInv
    OBVIOUS
  <2>1. TypeOK
    BY InitTyped
  <2>2. \A v \in Updates, t \in PrepareStates : ~Active(v, t)
    BY NoTxIsNone DEF Init, Active
  <2>3. CommitShape /\ OneStop /\ VerdictsHold
    BY <2>2, LaunchedAreWorkers
    DEF Init, CommitShape, OneStop, HasSnapshots, VerdictsHold, PrepareStates
  <2>4. OnlyChildren
    BY DEF Init, OnlyChildren, Launched
  <2> QED BY <2>1, <2>3, <2>4 DEF StopInv
<1>2. StopInv => ExitOnlyAfterStop
  BY LaunchedAreWorkers DEF StopInv, CommitShape, VerdictsHold, ExitOnlyAfterStop
<1> QED BY <1>1, <1>2, StepStop, PTL DEF Spec

=============================================================================
