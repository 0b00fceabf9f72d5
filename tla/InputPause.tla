----------------------------- MODULE InputPause -----------------------------
(***************************************************************************)
(* The input pauses of a session: the supervisor's lease table              *)
(* (crates/pa-daemon/src/input_pause_lease.rs, the acquire, release, detach *)
(* and reattach arms and the disconnect of supervisor/clients.rs), over the *)
(* pause table of each worker (session_input_pause.rs).                     *)
(*                                                                         *)
(* A connection's commands run in tasks of their own, so they interleave    *)
(* with one another and outlive the connection's loop; the loop itself runs *)
(* the cleanup of a disconnect.  A step is what a task does between two     *)
(* awaits.  A request of a task to a worker is answered, or the task gives  *)
(* up on it and the worker may still carry it out.  The uuid a worker mints *)
(* is named by the number of the acquire it was minted for.                 *)
(***************************************************************************)
EXTENDS Naturals, FiniteSets

CONSTANTS
  Conns,        \* client connections
  Workers,      \* resident workers; a worker's id is its session's id
  Selectors,    \* what a client may call a session: ids, suffixes, names
  Resolve,      \* Resolve[s]: the worker a selector names
  Keys,         \* the clients' lease keys
  Tasks,        \* dispatch slots
  Nobody,       \* no task
  MaxAcquires,  \* bound on the acquires asked for
  MaxDetaches,  \* bound on the detaches of a connection
  Loads         \* what clients and faults may do in one run, see LoadAssumption

Kinds == {"timeout", "refused", "replaced", "retired", "write"}

ASSUME SelectorAssumption ==
  Workers \subseteq Selectors /\ Resolve \in [Selectors -> Workers]
    /\ \A w \in Workers : Resolve[w] = w
ASSUME BoundAssumption == MaxAcquires \in Nat /\ MaxDetaches \in Nat

\* The connections, selectors and keys in use, how many acquires are asked for,
\* what may go wrong, and whether clients are polite: they send a command, or
\* leave, once the last is answered.
ASSUME LoadAssumption ==
  Loads \subseteq [conns : SUBSET Conns, sels : SUBSET Selectors, keys : SUBSET Keys,
                   acquires : 0..MaxAcquires, polite : BOOLEAN, faults : SUBSET Kinds]
ASSUME ProcessAssumption == Tasks \cap Conns = {} /\ Nobody \notin Tasks \cup Conns

VARIABLES
  leases,   \* the supervisor's table: records [id, conn, sel, key]
  lock,     \* the task that holds the table's mutex over an await, or Nobody
  conn,     \* conn[c]: ClientConnectionState and the state of the loop
  task,     \* task[p]: a command in dispatch, or the cleanup of a connection
  held,     \* held[w]: the worker's table: records [id, conn, key]
  net,      \* net[w]: requests on their way to the worker
  up,       \* up[w]: "up", "down" (being replaced) or "gone" from the registry
  asked,    \* acquires asked for so far
  granted,  \* pauses a client was told it holds and has not given back since
  load      \* the load of this run: it never changes

vars == <<leases, lock, conn, task, held, net, up, asked, granted>>

Procs == Tasks \cup Conns
Ids == 1..MaxAcquires

Leases == [id : Ids, conn : Conns, sel : Selectors, key : Keys]
Pauses == [id : Ids, conn : Conns, key : Keys]
Requests == [by : Procs \cup {Nobody}, op : {"acquire", "release"}] \X Pauses

\* Where a task that asked a worker for something waits for the answer.
Waiting == {"acquiring", "releasing", "lifting"}

Idle == [pc |-> "idle"]
TaskStates ==
  [pc : {"idle"}]
    \cup [pc : {"checked", "send", "acquiring", "answered", "record"},
          lease : Leases, epoch : 0..MaxDetaches + 1, valid : BOOLEAN]
    \cup [pc : {"releasing"}, lease : Leases]
    \cup [pc : {"route", "snapshot"}, conn : Conns, sels : SUBSET Selectors]
    \cup [pc : {"lifting", "drop"}, conn : Conns, todo : SUBSET Leases, lease : Leases]
    \cup [pc : {"sweep"}, conn : Conns, todo : SUBSET Leases]

TypeOK ==
  /\ leases \subseteq Leases
  /\ lock \in Tasks \cup {Nobody}
  /\ conn \in [Conns -> [loop : {"open", "closing", "closed", "failed"},
                         epoch : 0..MaxDetaches + 1, detaching : SUBSET Selectors,
                         attached : SUBSET Workers]]
  /\ task \in [Procs -> TaskStates]
  /\ held \in [Workers -> SUBSET Pauses]
  /\ net \in [Workers -> SUBSET Requests]
  /\ up \in [Workers -> {"up", "down", "gone"}]
  /\ asked \in 0..MaxAcquires
  /\ granted \subseteq Leases

\* The workers of the sessions in use.
InUse == {Resolve[s] : s \in load.sels}

Init ==
  /\ leases = {} /\ granted = {} /\ lock = Nobody /\ asked = 0
  /\ load \in Loads
  /\ conn = [c \in Conns |-> [loop |-> IF c \in load.conns THEN "open" ELSE "closed",
                              epoch |-> 0, detaching |-> {}, attached |-> InUse]]
  /\ task = [p \in Procs |-> Idle]
  /\ held = [w \in Workers |-> {}] /\ net = [w \in Workers |-> {}]
  /\ up = [w \in Workers |-> "up"]

-----------------------------------------------------------------------------
(* Helpers *)

\* The connection a task works for.
ConnOf(p) == CASE "lease" \in DOMAIN task[p] -> task[p].lease.conn
               [] "conn" \in DOMAIN task[p] -> task[p].conn
               [] OTHER -> Nobody

Busy(c) == \E p \in Procs : ConnOf(p) = c

\* A connection may send a command, or leave, in p.
Speaks(c, p) == conn[c].loop = "open" /\ task[p] = Idle /\ (load.polite => ~Busy(c))

PauseOf(l) == [id |-> l.id, conn |-> l.conn, key |-> l.key]

\* p gives its request for l to the worker, or the route refuses it: no
\* connection, or (a client's request) the worker's in-flight bound is full.
Send(p, op, l, waiting) ==
  /\ up[Resolve[l.sel]] = "up"
  /\ net' = [net EXCEPT ![Resolve[l.sel]] =
               @ \cup {<<[by |-> p, op |-> op], PauseOf(l)>>}]
  /\ task' = [task EXCEPT ![p].pc = waiting]
Refused(l) == up[Resolve[l.sel]] # "up" \/ "refused" \in load.faults

\* The request of p, if the worker has not carried it out yet.
Mine(p, w) == {r \in net[w] : r[1].by = p}

\* Mutant: the call has no deadline.
GivesUp_Untimed(p) ==
  Mine(p, Resolve[task[p].lease.sel]) = {} /\ UNCHANGED net

\* p stops waiting: its deadline passed, or the worker's connection dropped
\* with the request.  The worker may still get to it.
GivesUp(p) ==
  LET w == Resolve[task[p].lease.sel] IN
  /\ "timeout" \in load.faults \/ Mine(p, w) = {}
  /\ net' = [net EXCEPT ![w] =
               {IF r[1].by = p THEN <<[r[1] EXCEPT !.by = Nobody], r[2]>> ELSE r : r \in @}]

Unlocked == lock = Nobody

-----------------------------------------------------------------------------
(* acquire_session_input_pause *)

\* The command is checked against the detach marks, under both names.
AcquireCheck(c, p, s, k) ==
  /\ Speaks(c, p) /\ p \in Tasks
  /\ asked < load.acquires
  /\ up[Resolve[s]] # "gone"
  /\ {s, Resolve[s]} \cap conn[c].detaching = {}
  /\ asked' = asked + 1
  /\ task' = [task EXCEPT ![p] =
       [pc |-> "checked", lease |-> [id |-> asked', conn |-> c, sel |-> s, key |-> k],
        epoch |-> 0, valid |-> TRUE]]
  /\ UNCHANGED <<leases, lock, conn, held, net, up, granted>>

\* An identical lease answers its pause id; otherwise the epoch is read.
AcquireLook(p) ==
  LET l == task[p].lease
      same == {e \in leases : /\ e.conn = l.conn /\ e.key = l.key
                              /\ Resolve[e.sel] = Resolve[l.sel]}
  IN /\ task[p].pc = "checked" /\ Unlocked
     /\ \/ /\ \E e \in same : granted' = granted \cup {[l EXCEPT !.id = e.id]}
           /\ task' = [task EXCEPT ![p] = Idle]
        \/ /\ same = {}
           /\ task' = [task EXCEPT ![p].pc = "send", ![p].epoch = conn[l.conn].epoch]
           /\ UNCHANGED granted
     /\ UNCHANGED <<leases, lock, conn, held, net, up, asked>>

AcquireSend(p) ==
  /\ task[p].pc = "send"
  /\ \/ Send(p, "acquire", task[p].lease, "acquiring")
     \/ Refused(task[p].lease) /\ task' = [task EXCEPT ![p] = Idle] /\ UNCHANGED net
  /\ UNCHANGED <<leases, lock, conn, held, up, asked, granted>>

AcquireGiveUp(p) ==
  /\ task[p].pc = "acquiring" /\ GivesUp(p)
  /\ task' = [task EXCEPT ![p] = Idle]
  /\ UNCHANGED <<leases, lock, conn, held, up, asked, granted>>

\* The answer is here: has the connection's epoch moved since?
AcquireCompare(p) ==
  /\ task[p].pc = "answered"
  /\ task' = [task EXCEPT ![p].pc = "record",
                          ![p].valid = (conn[task[p].lease.conn].epoch = task[p].epoch)]
  /\ UNCHANGED <<leases, lock, conn, held, net, up, asked, granted>>

\* Mutant: an invalidated acquire records nothing.
Recorded_IfValid(p) == IF task[p].valid THEN {task[p].lease} ELSE {}

\* The lease is recorded either way; an invalidated acquire answers an error.
Recorded(p) == {task[p].lease}
AcquireRecord(p) ==
  LET l == task[p].lease IN
  /\ task[p].pc = "record" /\ Unlocked
  /\ leases' = {e \in leases : e.id # l.id} \cup Recorded(p)
  /\ granted' = IF task[p].valid THEN granted \cup {l} ELSE granted
  /\ task' = [task EXCEPT ![p] = Idle]
  /\ UNCHANGED <<lock, conn, held, net, up, asked>>

-----------------------------------------------------------------------------
(* release_session_input_pause *)

\* Mutant: the owner is not looked at.
Releasable_ByAnyone(l, c, s) == s \in {l.sel, Resolve[l.sel]}

\* A lease is released by its connection, under either name of its session.
Releasable(l, c, s) == l.conn = c /\ s \in {l.sel, Resolve[l.sel]}

\* An unknown id, another's lease or another session change nothing; a lease
\* of a worker that left goes; otherwise the table stays locked for the call.
ReleaseStart(c, p, s, i) ==
  /\ Speaks(c, p) /\ p \in Tasks /\ Unlocked
  /\ \E l \in leases :
       /\ l.id = i /\ Releasable(l, c, s)
       /\ \/ /\ up[Resolve[l.sel]] = "gone"
             /\ leases' = leases \ {l}
             /\ UNCHANGED <<lock, task, net>>
          \/ /\ lock' = p
             /\ task' = [task EXCEPT ![p] = [pc |-> "releasing", lease |-> l]]
             /\ net' = [net EXCEPT ![Resolve[l.sel]] =
                          @ \cup {<<[by |-> p, op |-> "release"], PauseOf(l)>>}]
             /\ up[Resolve[l.sel]] = "up"
             /\ UNCHANGED leases
  /\ granted' = {g \in granted : ~(g.id = i /\ g.conn = c)}
  /\ UNCHANGED <<conn, held, up, asked>>

\* The call failed: the lease stays.
ReleaseGiveUp(p) ==
  /\ task[p].pc = "releasing" /\ GivesUp(p)
  /\ task' = [task EXCEPT ![p] = Idle]
  /\ lock' = Nobody
  /\ UNCHANGED <<leases, conn, held, up, asked, granted>>

-----------------------------------------------------------------------------
(* The worker: requests are carried out in any order *)

\* Mutant: the worker does not dedupe.
Existing_Never(w, q) == {}

Existing(w, q) == {e \in held[w] : e.conn = q.conn /\ e.key = q.key}

\* An identical lease answers its id, otherwise a fresh one is minted.
WorkerAcquire(w, r) ==
  /\ r \in net[w] /\ r[1].op = "acquire" /\ up[w] = "up"
  /\ \E q \in (IF Existing(w, r[2]) = {} THEN {r[2]} ELSE Existing(w, r[2])) :
       /\ held' = [held EXCEPT ![w] = @ \cup {q}]
       /\ task' = IF r[1].by = Nobody THEN task
                  ELSE [task EXCEPT ![r[1].by].pc = "answered", ![r[1].by].lease.id = q.id]
  /\ net' = [net EXCEPT ![w] = @ \ {r}]
  /\ UNCHANGED <<leases, lock, conn, up, asked, granted>>

\* The owner's pause is lifted; an unknown id is a success too.  The
\* supervisor's release then removes the lease and unlocks the table, a
\* cleanup goes on to drop the record.
WorkerRelease(w, r) ==
  /\ r \in net[w] /\ r[1].op = "release" /\ up[w] = "up"
  /\ held' = [held EXCEPT ![w] = {e \in @ : ~(e.id = r[2].id /\ e.conn = r[2].conn)}]
  /\ net' = [net EXCEPT ![w] = @ \ {r}]
  /\ CASE r[1].by = Nobody -> UNCHANGED <<task, leases, lock>>
       [] r[1].by # Nobody /\ task[r[1].by].pc = "releasing" ->
            /\ task' = [task EXCEPT ![r[1].by] = Idle]
            /\ leases' = {l \in leases : l.id # r[2].id}
            /\ lock' = Nobody
       [] OTHER ->
            /\ task' = [task EXCEPT ![r[1].by].pc = "drop"]
            /\ UNCHANGED <<leases, lock>>
  /\ UNCHANGED <<conn, up, asked, granted>>

-----------------------------------------------------------------------------
(* Detach, reattach, disconnect *)

\* begin_detach_pause_bookkeeping: the mark and the epoch come first.
DetachStart(c, p, s) ==
  /\ Speaks(c, p) /\ p \in Tasks
  /\ conn[c].epoch < MaxDetaches
  /\ conn' = [conn EXCEPT ![c].detaching = @ \cup {s}, ![c].epoch = @ + 1]
  /\ task' = [task EXCEPT ![p] = [pc |-> "route", conn |-> c, sels |-> {s}]]
  /\ granted' = {g \in granted : ~(g.conn = c /\ Resolve[g.sel] = Resolve[s])}
  /\ UNCHANGED <<leases, lock, held, net, up, asked>>

\* A detach that names no session marks them all, and is refused.
DetachAll(c) ==
  /\ conn[c].loop = "open" /\ (load.polite => ~Busy(c))
  /\ conn[c].epoch < MaxDetaches /\ conn[c].attached # {}
  /\ conn' = [conn EXCEPT ![c].detaching = @ \cup conn[c].attached, ![c].epoch = @ + 1]
  /\ granted' = {g \in granted : ~(g.conn = c /\ Resolve[g.sel] \in conn[c].attached)}
  /\ UNCHANGED <<leases, lock, task, held, net, up, asked>>

\* The worker's own detach arm lifts what the client id owns, and the pauses
\* are owned by the connection id: none.  Only an answer from the worker is
\* followed by the release of the leases.
DetachRoute(p) ==
  /\ task[p].pc = "route"
  /\ \E s \in task[p].sels :
       \/ /\ up[Resolve[s]] = "up"
          /\ conn' = [conn EXCEPT ![task[p].conn].attached = @ \ {Resolve[s]}]
          /\ task' = [task EXCEPT ![p].pc = "snapshot"]
       \/ /\ up[Resolve[s]] # "up" \/ load.faults \cap {"refused", "timeout"} # {}
          /\ task' = [task EXCEPT ![p] = Idle]
          /\ UNCHANGED conn
  /\ UNCHANGED <<leases, lock, held, net, up, asked, granted>>

\* Mutant: the filter of a detach matches nothing.
Covered_NoFilter(l, c, sels) == l.conn = c /\ sels = {}

\* release_client_pauses_for_sessions: what the table holds now, for these
\* sessions under either name, or for every session.
Covered(l, c, sels) ==
  l.conn = c /\ (sels = {} \/ l.sel \in sels \/ Resolve[l.sel] \in sels)
Snapshot(p) ==
  /\ task[p].pc = "snapshot" /\ Unlocked
  /\ task' = [task EXCEPT ![p] =
       [pc |-> "sweep", conn |-> task[p].conn,
        todo |-> {l \in leases : Covered(l, task[p].conn, task[p].sels)}]]
  /\ UNCHANGED <<leases, lock, conn, held, net, up, asked, granted>>

\* One lease after the other is lifted at its worker, the table unlocked.
SweepNext(p) ==
  /\ task[p].pc = "sweep"
  /\ \E l \in task[p].todo :
       LET at == [pc |-> "drop", conn |-> task[p].conn, todo |-> task[p].todo, lease |-> l]
           w == Resolve[l.sel] IN
       \/ /\ up[w] = "up"
          /\ net' = [net EXCEPT ![w] = @ \cup {<<[by |-> p, op |-> "release"], PauseOf(l)>>}]
          /\ task' = [task EXCEPT ![p] = [at EXCEPT !.pc = "lifting"]]
       \/ /\ up[w] # "up"
          /\ task' = [task EXCEPT ![p] = at]
          /\ UNCHANGED net
  /\ UNCHANGED <<leases, lock, conn, held, up, asked, granted>>

SweepGiveUp(p) ==
  /\ task[p].pc = "lifting" /\ GivesUp(p)
  /\ task' = [task EXCEPT ![p].pc = "drop"]
  /\ UNCHANGED <<leases, lock, conn, held, up, asked, granted>>

\* Lifted or not, the record is dropped.
SweepDrop(p) ==
  /\ task[p].pc = "drop" /\ Unlocked
  /\ leases' = {l \in leases : l.id # task[p].lease.id}
  /\ task' = [task EXCEPT ![p] = [pc |-> "sweep", conn |-> task[p].conn,
                                  todo |-> task[p].todo \ {task[p].lease}]]
  /\ UNCHANGED <<lock, conn, held, net, up, asked, granted>>

SweepEnd(p) ==
  /\ task[p].pc = "sweep" /\ task[p].todo = {}
  /\ task' = [task EXCEPT ![p] = Idle]
  /\ conn' = IF p \in Conns THEN [conn EXCEPT ![p].loop = "closed"] ELSE conn
  /\ UNCHANGED <<leases, lock, held, net, up, asked, granted>>

\* Whatever the route answers, the marks of both sessions go.
Reattach(c, s, t) ==
  /\ conn[c].loop = "open" /\ (load.polite => ~Busy(c))
  /\ {s, t, Resolve[t]} \cap conn[c].detaching # {} \/ Resolve[t] \notin conn[c].attached
  /\ conn' = [conn EXCEPT
       ![c].detaching = @ \ ({s, t} \cup IF up[Resolve[t]] = "gone" THEN {} ELSE {Resolve[t]}),
       ![c].attached = IF up[Resolve[t]] = "up" THEN @ \cup {Resolve[t]} ELSE @]
  /\ UNCHANGED <<leases, lock, task, held, net, up, asked, granted>>

\* The loop ends; the commands in dispatch go on.
Disconnect(c) ==
  /\ Speaks(c, c)
  /\ conn' = [conn EXCEPT ![c].loop = "closing"]
  /\ granted' = {g \in granted : g.conn # c}
  /\ UNCHANGED <<leases, lock, task, held, net, up, asked>>

\* Mutant: the epoch is bumped at the end of the loop too.
CleanupStart_AtDisconnectToo(c) ==
  /\ conn[c].loop = "closing" /\ task[c] = Idle
  /\ conn' = [conn EXCEPT ![c].epoch = @ + 2]
  /\ task' = [task EXCEPT ![c] = [pc |-> "snapshot", conn |-> c, sels |-> {}]]
  /\ UNCHANGED <<leases, lock, held, net, up, asked, granted>>

\* The detaches were routed: release_all_client_pauses bumps the epoch.
CleanupStart(c) ==
  /\ conn[c].loop = "closing" /\ task[c] = Idle
  /\ conn' = [conn EXCEPT ![c].epoch = @ + 1]
  /\ task' = [task EXCEPT ![c] = [pc |-> "snapshot", conn |-> c, sels |-> {}]]
  /\ UNCHANGED <<leases, lock, held, net, up, asked, granted>>

\* A failed write returns from handle_client at once.
WriteFails(c) ==
  /\ "write" \in load.faults /\ Speaks(c, c)
  /\ conn' = [conn EXCEPT ![c].loop = "failed"]
  /\ granted' = {g \in granted : g.conn # c}
  /\ UNCHANGED <<leases, lock, task, held, net, up, asked>>

-----------------------------------------------------------------------------
(* The workers *)

\* The process goes with its table and what was on its way; the resident
\* keeps its id and a new process takes its place, or it leaves the registry.
WorkerDies(w) ==
  /\ up[w] = "up" /\ w \in InUse
  /\ \/ "replaced" \in load.faults /\ up' = [up EXCEPT ![w] = "down"]
     \/ "retired" \in load.faults /\ up' = [up EXCEPT ![w] = "gone"]
  /\ held' = [held EXCEPT ![w] = {}] /\ net' = [net EXCEPT ![w] = {}]
  /\ UNCHANGED <<leases, lock, conn, task, asked, granted>>

WorkerBack(w) ==
  /\ up[w] = "down" /\ up' = [up EXCEPT ![w] = "up"]
  /\ UNCHANGED <<leases, lock, conn, task, held, net, asked, granted>>

-----------------------------------------------------------------------------

\* What a task does on its own.
Step(p) ==
  \/ AcquireLook(p) \/ AcquireSend(p) \/ AcquireGiveUp(p)
  \/ AcquireCompare(p) \/ AcquireRecord(p)
  \/ ReleaseGiveUp(p) \/ DetachRoute(p) \/ Snapshot(p)
  \/ SweepNext(p) \/ SweepGiveUp(p) \/ SweepDrop(p) \/ SweepEnd(p)

Client(c) ==
  \/ \E p \in Tasks, s \in load.sels :
       \/ \E k \in load.keys : AcquireCheck(c, p, s, k)
       \/ \E i \in Ids : ReleaseStart(c, p, s, i)
       \/ DetachStart(c, p, s)
  \/ \E s, t \in load.sels : Reattach(c, s, t)
  \/ DetachAll(c) \/ Disconnect(c) \/ WriteFails(c)

Worker(w) ==
  \/ \E r \in net[w] : WorkerAcquire(w, r) \/ WorkerRelease(w, r)
  \/ WorkerDies(w) \/ WorkerBack(w)

Next ==
  \/ \E p \in Procs : Step(p)
  \/ \E c \in Conns : Client(c) \/ CleanupStart(c)
  \/ \E w \in Workers : Worker(w)

Spec == Init /\ [][Next /\ UNCHANGED load]_<<vars, load>>

\* A load without timeouts is one whose workers answer.
InTime(w) ==
  "timeout" \notin load.faults /\ \E r \in net[w] : WorkerAcquire(w, r) \/ WorkerRelease(w, r)

\* Tasks run.  A task that can go on only while the table is unlocked gets its
\* turn however often others lock it, for tokio's mutex serves its waiters in
\* order: hence SF.  Nothing is assumed of clients.
Fairness ==
  /\ \A p \in Procs : SF_vars(Step(p))
  /\ \A c \in Conns : WF_vars(CleanupStart(c))
  /\ \A w \in Workers : WF_vars(InTime(w))

FairSpec == Spec /\ Fairness

-----------------------------------------------------------------------------
(* Properties *)

\* Clients wait for their answers and nothing fails.
Calm == load.polite /\ load.faults = {}

HeldBy(c, w) == {q \in held[w] : q.conn = c}

\* Reacquiring with a lease key never pauses a session twice, whatever was
\* retried, given up on or released at the same time: the dedupe of the table
\* and of InputPauseTable::acquire.
OnePausePerKey ==
  \A w \in Workers : \A q, r \in held[w] :
    q.conn = r.conn /\ q.key = r.key => q = r

\* A client that was told it holds a pause does hold it, until it gives it
\* back: no release, detach or disconnect of another lifts it.
GrantHolds ==
  Calm => \A g \in granted : PauseOf(g) \in held[Resolve[g.sel]]

\* While nothing is lost, a pause a worker holds is in the supervisor's table
\* or an acquire of its connection is about to put it there: what the
\* releases of a detach and of a disconnect rely on.
HeldIsKnown ==
  load.faults = {} => \A w \in Workers : \A q \in held[w] :
    \/ \E l \in leases : PauseOf(l) = q
    \/ \E p \in Tasks : task[p].pc \in {"answered", "record"} /\ PauseOf(task[p].lease) = q

\* release_all_client_pauses: once the loop of a connection and its cleanup
\* are over, and none of its commands runs, no worker is paused for it.
ClosedHoldsNothing ==
  Calm => \A c \in Conns : conn[c].loop = "closed" /\ ~Busy(c) =>
    \A w \in Workers : HeldBy(c, w) = {}

\* The detach arm: a session the client detached from, and whose mark no
\* reattach has cleared, is not paused for it once its commands were answered.
DetachedHoldsNothing ==
  Calm => \A c \in Conns : ~Busy(c) => \A s \in conn[c].detaching :
    Resolve[s] \in conn[c].attached \/ HeldBy(c, Resolve[s]) = {}

\* No worker is paused for a client that has left, the session or altogether.
LeaversHoldNothing == ClosedHoldsNothing /\ DetachedHoldsNothing

\* Every command is answered and every cleanup ends, though one release holds
\* the table locked over its call to a worker that may never answer.
CommandsEnd ==
  /\ \A p \in Procs : task[p] # Idle ~> task[p] = Idle
  /\ \A c \in Conns : conn[c].loop = "closing" ~> conn[c].loop = "closed"

-----------------------------------------------------------------------------
(* What comments of the code claim and the code does not keep *)

\* "every lease the connection held releases on its worker", of a disconnect:
\* also when it was a failed write that ended the loop.
FailedWriteReleases ==
  \A c \in Conns : conn[c].loop = "failed" /\ ~Busy(c) =>
    \A w \in Workers : HeldBy(c, w) = {}

\* "The lease is recorded so the disconnect cleanup releases it": when the
\* cleanup and the commands of a connection are over, none is left.
LateLeaseReleased ==
  \A c \in Conns : conn[c].loop = "closed" /\ ~Busy(c) => \A l \in leases : l.conn # c

\* An acquire in flight when its session is detached is invalidated: no
\* success for a session that is marked.
InFlightInvalidated ==
  \A g \in granted : g.sel \notin conn[g.conn].detaching

\* "a worker that cannot be reached keeps its lease entry for the disconnect
\* cleanup": a detach drops no lease whose pause is still held.
UnreachedKeepsLease ==
  [][\A l \in leases \ leases' : conn[l.conn].loop = "open" =>
       PauseOf(l) \notin held[Resolve[l.sel]]]_vars

=============================================================================
