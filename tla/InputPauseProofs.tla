-------------------------- MODULE InputPauseProofs --------------------------
(***************************************************************************)
(* What InputPause keeps for any connections, workers, selectors and keys,  *)
(* any number of acquires and detaches and any load: its types, that a      *)
(* session is paused once per key, and that, as long as nothing fails, the  *)
(* supervisor knows of every pause a worker holds.                          *)
(***************************************************************************)
EXTENDS InputPause, TLAPS

\* The states of a task: of an acquire, a release, a detach, a sweep.
Acquirings == [pc : {"checked", "send", "acquiring", "answered", "record"},
               lease : Leases, epoch : 0..MaxDetaches + 1, valid : BOOLEAN]
Releasings == [pc : {"releasing"}, lease : Leases]
Detachings == [pc : {"route", "snapshot"}, conn : Conns, sels : SUBSET Selectors]
Liftings == [pc : {"lifting", "drop"}, conn : Conns, todo : SUBSET Leases, lease : Leases]
Sweepings == [pc : {"sweep"}, conn : Conns, todo : SUBSET Leases]

Connections ==
  [loop : {"open", "closing", "closed", "failed"}, epoch : 0..MaxDetaches + 1,
   detaching : SUBSET Selectors, attached : SUBSET Workers]

\* A connection's own task is its cleanup, which begins once, when the loop is over.
CleanupShape ==
  \A c \in Conns :
    /\ task[c] # Idle => task[c].pc \in {"snapshot", "sweep", "lifting", "drop"}
    /\ conn[c].loop = "open" \/ (conn[c].loop = "closing" /\ task[c] = Idle)
         => conn[c].epoch \in 0..MaxDetaches

\* What a request on its way says of the task that waits for it.
Asks(r, w, t) ==
  /\ t.pc \in IF r[1].op = "acquire" THEN {"acquiring"} ELSE {"releasing", "lifting"}
  /\ Resolve[t.lease.sel] = w /\ PauseOf(t.lease) = r[2]
NetShape ==
  \A w \in Workers : \A r \in net[w] : r[1].by # Nobody => Asks(r, w, task[r[1].by])

\* Without faults the workers stay, and a task waits for a request that is
\* on its way and that nobody has given up.
NothingIsLost ==
  /\ \A w \in Workers : up[w] = "up"
  /\ \A w \in Workers : \A r \in net[w] : r[1].by # Nobody
  /\ \A p \in Procs : task[p].pc \in Waiting => Mine(p, Resolve[task[p].lease.sel]) # {}

\* Where the pause of an id is known: at a worker, in the table, with a task.
Carries(t, l) ==
  \/ t.pc \in {"checked", "send", "acquiring", "answered", "record", "releasing", "lifting", "drop"}
       /\ l = t.lease
  \/ t.pc \in {"sweep", "lifting", "drop"} /\ l \in t.todo
Spot(l, w, q) == w = Resolve[l.sel] /\ q = PauseOf(l)
LeasedAt(w, q) == \E l \in leases : Spot(l, w, q)
CarriedAt(p, w, q) == \E l \in Leases : Carries(task[p], l) /\ Spot(l, w, q)
Elsewhere(p, w, q) ==
  q \in held[w] \/ LeasedAt(w, q) \/ \E o \in Procs \ {p} : CarriedAt(o, w, q)
At(w, q) == q \in held[w] \/ LeasedAt(w, q) \/ \E o \in Procs : CarriedAt(o, w, q)

\* An id stands for one pause at one worker, and is one that was asked for.
IdsAgree ==
  \A w, v \in Workers : \A q, r \in Pauses :
    At(w, q) /\ At(v, r) /\ q.id = r.id => w = v /\ q = r
IdsCounted == \A w \in Workers : \A q \in Pauses : At(w, q) => q.id <= asked

\* The id of an acquire that no worker has carried out is with its task only.
Started(p) == task[p].pc \in {"checked", "send", "acquiring"}
IdsFresh ==
  \A p \in Procs : Started(p) =>
    \A w \in Workers : \A q \in Pauses : Elsewhere(p, w, q) => q.id # task[p].lease.id

\* A sweep drops a record when its pause is lifted.
DroppedIsLifted ==
  \A p \in Procs : task[p].pc = "drop" =>
    \A w \in Workers : \A q \in held[w] : q.id # task[p].lease.id

Shape == TypeOK /\ load \in Loads /\ CleanupShape /\ NetShape
Tracked == IdsAgree /\ IdsCounted /\ IdsFresh /\ DroppedIsLifted
Faultless == load.faults = {} => NothingIsLost /\ Tracked /\ HeldIsKnown
IInv == Shape /\ OnePausePerKey /\ Faultless

-----------------------------------------------------------------------------
(* Lemmas *)

\* The state of a task is of the kind its pc says.
LEMMA TaskKinds ==
  ASSUME NEW t \in TaskStates
  PROVE  /\ t.pc \in {"checked", "send", "acquiring", "answered", "record"} => t \in Acquirings
         /\ t.pc = "releasing" => t \in Releasings
         /\ t.pc \in {"route", "snapshot"} => t \in Detachings
         /\ t.pc = "sweep" => t \in Sweepings
         /\ t.pc \in {"lifting", "drop"} => t \in Liftings
         /\ t.pc = "idle" => t = Idle
BY DEF TaskStates, Acquirings, Releasings, Detachings, Sweepings, Liftings, Idle

\* The pause of a lease.
LEMMA PauseType == ASSUME NEW l \in Leases PROVE PauseOf(l) \in Pauses /\ Resolve[l.sel] \in Workers
BY SelectorAssumption DEF Leases, Pauses, PauseOf

\* The parts of a load.
LEMMA LoadType ==
  ASSUME load \in Loads
  PROVE  /\ load.conns \subseteq Conns /\ load.sels \subseteq Selectors /\ load.keys \subseteq Keys
         /\ load.acquires \in 0..MaxAcquires /\ load.polite \in BOOLEAN /\ load.faults \subseteq Kinds
BY LoadAssumption

\* A step of one task that mints no id, holds no more and records only what
\* the task carried keeps track of the ids.
LEMMA IdsMove ==
  ASSUME TypeOK, TypeOK', Tracked, NEW p \in Procs,
         \A o \in Procs \ {p} : task'[o] = task[o],
         \A l \in Leases : Carries(task'[p], l) => Carries(task[p], l) \/ l \in leases,
         \A l \in leases' : l \in leases \/ (Carries(task[p], l) /\ ~Started(p)),
         \A w \in Workers : held'[w] \subseteq held[w],
         asked' = asked,
         Started(p)' => Started(p) /\ task'[p].lease = task[p].lease,
         task'[p].pc = "drop" =>
           \A w \in Workers : \A q \in held'[w] : q.id # task'[p].lease.id
  PROVE  Tracked'
<1>1. \A w \in Workers, q \in Pauses : LeasedAt(w, q)' => LeasedAt(w, q) \/ (CarriedAt(p, w, q) /\ ~Started(p))
  BY DEF LeasedAt, CarriedAt, TypeOK, Spot
<1>2. \A w \in Workers, q \in Pauses : CarriedAt(p, w, q)' => CarriedAt(p, w, q) \/ LeasedAt(w, q)
  BY DEF LeasedAt, CarriedAt, TypeOK, Spot
<1>3. \A o \in Procs \ {p}, w \in Workers, q \in Pauses : CarriedAt(o, w, q)' = CarriedAt(o, w, q)
  BY DEF CarriedAt
<1>4. \A w \in Workers, q \in Pauses : At(w, q)' => At(w, q)
  BY <1>1, <1>2, <1>3 DEF At
<1>5. \A o \in Procs : Started(o)' => Started(o) /\ task'[o].lease = task[o].lease
  BY DEF Started
<1>6. \A o \in Procs, w \in Workers, q \in Pauses :
         Started(o)' /\ Elsewhere(o, w, q)' => Elsewhere(o, w, q)
  BY <1>1, <1>2, <1>3, <1>5 DEF Elsewhere
<1>7. IdsAgree' /\ IdsCounted'
  BY <1>4 DEF IdsAgree, IdsCounted, Tracked
<1>8. IdsFresh'
  BY <1>5, <1>6 DEF IdsFresh, Tracked
<1>9. DroppedIsLifted'
  BY DEF DroppedIsLifted, Tracked
<1> QED BY <1>7, <1>8, <1>9 DEF Tracked

\* A request asks on behalf of a task that waits.
LEMMA WaitersAsk ==
  ASSUME NetShape, TypeOK, NEW p \in Procs, task[p].pc \notin Waiting, NEW w \in Workers
  PROVE  Mine(p, w) = {}
<1> SUFFICES ASSUME NEW r \in net[w], r[1].by = p PROVE FALSE
  BY DEF Mine
<1> QED BY ProcessAssumption DEF NetShape, Asks, Waiting, Procs, TypeOK, Requests

\* A pause that a worker holds is known to the supervisor.
Known(q) ==
  \/ \E l \in leases : PauseOf(l) = q
  \/ \E p \in Tasks : task[p].pc \in {"answered", "record"} /\ PauseOf(task[p].lease) = q

\* A step of a task that was not waiting, and that asks a worker at most for
\* what it then waits for.
LEMMA TaskStep ==
  ASSUME IInv, TypeOK', CleanupShape', UNCHANGED <<load, up, asked, held>>, NEW p \in Procs,
         task[p].pc \notin Waiting,
         \A o \in Procs \ {p} : task'[o] = task[o],
         \A w \in Workers : net[w] \subseteq net'[w],
         \A w \in Workers : \A r \in net'[w] : r \in net[w] \/ (r[1].by = p /\ Asks(r, w, task'[p])),
         task'[p].pc \in Waiting => Mine(p, Resolve[task[p].lease.sel])' # {},
         \A l \in Leases : Carries(task'[p], l) => Carries(task[p], l) \/ l \in leases,
         \A l \in leases' : l \in leases \/ (Carries(task[p], l) /\ ~Started(p)),
         Started(p)' => Started(p) /\ task'[p].lease = task[p].lease,
         load.faults = {} /\ task'[p].pc = "drop" =>
           \A w \in Workers : \A q \in held[w] : q.id # task'[p].lease.id,
         load.faults = {} => \A w \in Workers : \A q \in held[w] : Known(q) => Known(q)'
  PROVE  IInv'
<1>1. NetShape'
  <2> SUFFICES ASSUME NEW w \in Workers, NEW r \in net'[w], r[1].by # Nobody
               PROVE  Asks(r, w, task'[r[1].by])
    BY DEF NetShape, Asks, PauseOf
  <2>1. CASE r \in net[w] /\ r[1].by # p
    <3>1. r[1].by \in Procs \ {p}
      BY <2>1 DEF TypeOK, Requests
    <3> QED BY <2>1, <3>1 DEF NetShape, Asks, PauseOf, IInv, Shape
  <2>2. CASE r \in net[w] /\ r[1].by = p
    BY <2>2, WaitersAsk DEF Mine, IInv, Shape
  <2> QED BY <2>1, <2>2
<1>2. OnePausePerKey'
  BY DEF OnePausePerKey, IInv
<1>3. ASSUME load.faults = {} PROVE NothingIsLost' /\ Tracked' /\ HeldIsKnown'
  <2>1. NothingIsLost /\ Tracked /\ HeldIsKnown
    BY <1>3 DEF IInv, Faultless
  <2>2. ASSUME NEW o \in Procs, task'[o].pc \in Waiting
        PROVE  Mine(o, Resolve[task[o].lease.sel])' # {}
    <3>1. CASE o = p
      BY <2>2, <3>1
    <3>2. CASE o # p
      <4>1. /\ task'[o] = task[o] /\ task[o].pc \in Waiting
            /\ Mine(o, Resolve[task[o].lease.sel]) # {}
        BY <2>1, <2>2, <3>2 DEF NothingIsLost
      <4>2. task[o].lease \in Leases
        BY <4>1, TaskKinds DEF Waiting, Releasings, Acquirings, Liftings, TypeOK, IInv, Shape
      <4> QED BY <4>1, <4>2, PauseType DEF Mine
    <3> QED BY <3>1, <3>2
  <2>3. NothingIsLost'
    <3>1. \A w \in Workers : \A r \in net'[w] : r[1].by # Nobody
      BY <2>1, ProcessAssumption DEF NothingIsLost, Procs
    <3> QED BY <2>1, <2>2, <3>1 DEF NothingIsLost
  <2>4. Tracked'
    BY <1>3, <2>1, IdsMove DEF IInv, Shape
  <2>5. HeldIsKnown'
    <3> SUFFICES ASSUME NEW w \in Workers, NEW q \in held[w] PROVE Known(q)'
      BY DEF HeldIsKnown, Known
    <3> QED BY <1>3, <2>1 DEF HeldIsKnown, Known
  <2> QED BY <2>3, <2>4, <2>5
<1> QED BY <1>1, <1>2, <1>3 DEF IInv, Shape, Faultless

\* A step of a connection or of a worker's life: no task moves, and only a
\* fault takes something from a worker.
LEMMA EnvStep ==
  ASSUME IInv, TypeOK', CleanupShape', UNCHANGED <<load, leases, task, asked>>,
         \A w \in Workers : held'[w] \subseteq held[w] /\ net'[w] \subseteq net[w],
         load.faults = {} => UNCHANGED <<held, net, up>>
  PROVE  IInv'
<1>1. NetShape'
  BY DEF NetShape, Asks, PauseOf, IInv, Shape
<1>2. OnePausePerKey'
  BY DEF OnePausePerKey, IInv
<1>3. load.faults = {} => (NothingIsLost /\ Tracked /\ HeldIsKnown)'
  BY DEF IInv, Faultless, NothingIsLost, Tracked, HeldIsKnown, IdsAgree, IdsCounted, IdsFresh,
         DroppedIsLifted, At, Elsewhere, LeasedAt, CarriedAt, Carries, Spot, PauseOf, Mine, Started
<1> QED BY <1>1, <1>2, <1>3 DEF IInv, Shape, Faultless

-----------------------------------------------------------------------------
(* Connections and workers *)

\* A detach of every session marks them (begin_detach_pause_bookkeeping).
LEMMA DetachAllKeeps ==
  ASSUME IInv, UNCHANGED load, NEW c \in Conns, DetachAll(c)
  PROVE  IInv'
<1>1. conn'[c].epoch \in 0..MaxDetaches /\ conn[c].epoch + 1 \in 0..MaxDetaches + 1
  BY BoundAssumption DEF DetachAll, IInv, Shape, TypeOK
<1>2. TypeOK'
  BY <1>1, SelectorAssumption DEF DetachAll, IInv, Shape, TypeOK
<1>3. CleanupShape'
  BY <1>1 DEF DetachAll, IInv, Shape, TypeOK, CleanupShape
<1> QED BY <1>2, <1>3, EnvStep DEF DetachAll

\* A reattach clears marks (the attach arm of clients.rs).
LEMMA ReattachKeeps ==
  ASSUME IInv, UNCHANGED load, NEW c \in Conns, NEW s \in load.sels, NEW t \in load.sels,
         Reattach(c, s, t)
  PROVE  IInv'
<1>1. s \in Selectors /\ t \in Selectors /\ Resolve[t] \in Workers
  BY LoadType, SelectorAssumption DEF IInv, Shape
<1>2. TypeOK'
  <2> DEFINE d == conn[c].detaching
                    \ ({s, t} \cup IF up[Resolve[t]] = "gone" THEN {} ELSE {Resolve[t]})
             a == IF up[Resolve[t]] = "up" THEN conn[c].attached \cup {Resolve[t]}
                  ELSE conn[c].attached
  <2>1. d \in SUBSET Selectors /\ a \in SUBSET Workers
    BY <1>1 DEF IInv, Shape, TypeOK
  <2>2. conn \in [Conns -> Connections] /\ conn[c] \in Connections
    BY DEF IInv, Shape, TypeOK, Connections
  <2>3. conn' = [conn EXCEPT ![c] = [[conn[c] EXCEPT !.detaching = d] EXCEPT !.attached = a]]
    BY DEF Reattach
  <2> HIDE DEF d, a
  <2>4. [conn[c] EXCEPT !.detaching = d] \in Connections
    BY <2>1, <2>2 DEF Connections
  <2>5. [[conn[c] EXCEPT !.detaching = d] EXCEPT !.attached = a] \in Connections
    BY <2>1, <2>4 DEF Connections
  <2>6. conn' \in [Conns -> Connections]
    BY <2>2, <2>3, <2>5
  <2> QED BY <2>6 DEF Reattach, IInv, Shape, TypeOK, Connections
<1>3. CleanupShape'
  BY DEF Reattach, IInv, Shape, TypeOK, CleanupShape
<1> QED BY <1>2, <1>3, EnvStep DEF Reattach

\* The loop of a connection ends, by a close or a failed write (handle_client).
LEMMA LoopEndsKeeps ==
  ASSUME IInv, UNCHANGED load, NEW c \in Conns, Disconnect(c) \/ WriteFails(c)
  PROVE  IInv'
<1> USE DEF Disconnect, WriteFails, Speaks
<1>1. TypeOK'
  BY DEF IInv, Shape, TypeOK
<1>2. CleanupShape'
  BY DEF IInv, Shape, TypeOK, CleanupShape, Idle
<1> QED BY <1>1, <1>2, EnvStep

\* A worker goes, and another takes its place.
LEMMA WorkerLifeKeeps ==
  ASSUME IInv, UNCHANGED load, NEW w \in Workers, WorkerDies(w) \/ WorkerBack(w)
  PROVE  IInv'
<1> USE DEF WorkerDies, WorkerBack
<1>1. TypeOK'
  BY DEF IInv, Shape, TypeOK
<1>2. CleanupShape'
  BY DEF IInv, Shape, CleanupShape
<1>3. load.faults # {}
  BY DEF IInv, Faultless, NothingIsLost
<1>4. \A v \in Workers : held'[v] \subseteq held[v] /\ net'[v] \subseteq net[v]
  BY DEF IInv, Shape, TypeOK
<1> QED BY <1>1, <1>2, <1>3, <1>4, EnvStep

-----------------------------------------------------------------------------
(* acquire_session_input_pause *)

\* A task that is acquiring is a command, not a cleanup.
LEMMA Commands ==
  ASSUME TypeOK, CleanupShape, NEW p \in Procs,
         task[p].pc \in {"checked", "send", "acquiring", "answered", "record", "releasing", "route"}
  PROVE  p \in Tasks /\ p \notin Conns
BY ProcessAssumption DEF CleanupShape, Procs, Idle

\* The command passes the detach marks and names its pause.
LEMMA AcquireCheckKeeps ==
  ASSUME IInv, UNCHANGED load, NEW c \in Conns, NEW p \in Tasks, NEW s \in load.sels,
         NEW k \in load.keys, AcquireCheck(c, p, s, k)
  PROVE  IInv'
<1> DEFINE l == [id |-> asked + 1, conn |-> c, sel |-> s, key |-> k]
           t == [pc |-> "checked", lease |-> l, epoch |-> 0, valid |-> TRUE]
<1>1. /\ task[p] = Idle /\ task[p].pc = "idle" /\ p \in Procs /\ p \notin Conns
      /\ asked < load.acquires /\ asked' = asked + 1
      /\ task' = [task EXCEPT ![p] = t]
      /\ UNCHANGED <<leases, lock, conn, held, net, up, granted>>
  BY ProcessAssumption DEF AcquireCheck, Speaks, Idle, Procs
<1>2. asked \in Nat /\ asked' \in 0..MaxAcquires /\ asked + 1 \in Ids
  BY <1>1, LoadType, BoundAssumption DEF Ids, IInv, Shape, TypeOK
<1>3. l \in Leases /\ l.id = asked + 1
  BY <1>2, LoadType DEF Leases, IInv, Shape
<1>4. 0 \in 0..MaxDetaches + 1
  BY BoundAssumption
<1> HIDE DEF l
<1>5. t \in TaskStates /\ t.pc = "checked" /\ t.lease = l
  BY <1>3, <1>4 DEF TaskStates
<1> HIDE DEF t
<1>6. task'[p] = t /\ \A o \in Procs \ {p} : task'[o] = task[o]
  BY <1>1 DEF IInv, Shape, TypeOK
<1>7. TypeOK'
  BY <1>1, <1>2, <1>5 DEF IInv, Shape, TypeOK
<1>8. CleanupShape'
  BY <1>1 DEF IInv, Shape, CleanupShape
<1>9. NetShape'
  <2> SUFFICES ASSUME NEW w \in Workers, NEW r \in net[w], r[1].by # Nobody
               PROVE  Asks(r, w, task'[r[1].by])
    BY <1>1 DEF NetShape, Asks, PauseOf
  <2>1. r[1].by \in Procs /\ Asks(r, w, task[r[1].by])
    BY DEF NetShape, IInv, Shape, TypeOK, Requests
  <2>2. r[1].by # p
    BY <1>1, <2>1 DEF Asks
  <2> QED BY <1>6, <2>1, <2>2
<1>10. OnePausePerKey'
  BY <1>1 DEF IInv, OnePausePerKey
<1>11. ASSUME load.faults = {} PROVE NothingIsLost' /\ Tracked' /\ HeldIsKnown'
  <2>1. NothingIsLost /\ Tracked /\ HeldIsKnown
    BY <1>11 DEF IInv, Faultless
  <2>2. NothingIsLost'
    BY <1>1, <1>5, <1>6, <2>1 DEF NothingIsLost, Waiting, Mine
  <2>3. \A w \in Workers, q \in Pauses : LeasedAt(w, q)' = LeasedAt(w, q)
    BY <1>1 DEF LeasedAt, Spot, PauseOf
  <2>4. \A o \in Procs \ {p}, w \in Workers, q \in Pauses : CarriedAt(o, w, q)' = CarriedAt(o, w, q)
    BY <1>6 DEF CarriedAt
  <2>5. \A w \in Workers, q \in Pauses : CarriedAt(p, w, q)' => w = Resolve[l.sel] /\ q = PauseOf(l)
    BY <1>5, <1>6 DEF CarriedAt, Carries, Spot
  <2>6. \A w \in Workers, q \in Pauses :
          At(w, q)' => At(w, q) \/ (w = Resolve[l.sel] /\ q = PauseOf(l))
    BY <1>1, <2>3, <2>4, <2>5 DEF At
  <2>7. PauseOf(l).id = asked + 1
    BY <1>3 DEF PauseOf
  <2>8. \A w \in Workers, q \in Pauses : At(w, q) => q.id <= asked /\ q.id \in Nat
    BY <2>1, BoundAssumption DEF Tracked, IdsCounted, Pauses, Ids
  <2>9. IdsAgree'
    BY <1>2, <2>1, <2>6, <2>7, <2>8 DEF Tracked, IdsAgree
  <2>10. IdsCounted'
    BY <1>1, <1>2, <2>6, <2>7, <2>8 DEF IdsCounted
  <2>11. IdsFresh'
    <3> SUFFICES ASSUME NEW o \in Procs, Started(o)', NEW w \in Workers, NEW q \in Pauses,
                        Elsewhere(o, w, q)'
                 PROVE  q.id # task'[o].lease.id
      BY DEF IdsFresh
    <3>1. CASE o = p
      <4>1. At(w, q)
        BY <1>1, <2>3, <2>4, <3>1 DEF Elsewhere, At
      <4> QED BY <1>2, <1>3, <1>5, <1>6, <2>8, <3>1, <4>1
    <3>2. CASE o # p
      <4>1. Started(o) /\ task'[o] = task[o] /\ task[o].lease \in Leases
        BY <1>6, <3>2, TaskKinds DEF Started, Acquirings, IInv, Shape, TypeOK
      <4>2. Elsewhere(o, w, q) \/ q = PauseOf(l)
        BY <1>1, <2>3, <2>4, <2>5, <3>2 DEF Elsewhere
      <4>3. task[o].lease.id <= asked
        <5>1. Spot(task[o].lease, Resolve[task[o].lease.sel], PauseOf(task[o].lease))
          BY DEF Spot
        <5>2. At(Resolve[task[o].lease.sel], PauseOf(task[o].lease))
          BY <4>1, <5>1 DEF At, CarriedAt, Carries, Started
        <5> QED BY <2>8, <4>1, <5>2, PauseType DEF PauseOf
      <4>4. task[o].lease.id \in Nat
        BY <4>1, BoundAssumption DEF Leases, Ids
      <4> QED BY <1>2, <2>1, <2>7, <4>1, <4>2, <4>3, <4>4 DEF Tracked, IdsFresh
    <3> QED BY <3>1, <3>2
  <2>12. DroppedIsLifted'
    BY <1>1, <1>5, <1>6, <2>1 DEF Tracked, DroppedIsLifted
  <2>13. HeldIsKnown'
    BY <1>1, <1>6, <1>11, <2>1 DEF HeldIsKnown, PauseOf, Procs
  <2> QED BY <2>2, <2>9, <2>10, <2>11, <2>12, <2>13 DEF Tracked
<1> QED BY <1>7, <1>8, <1>9, <1>10, <1>11 DEF IInv, Shape, Faultless

\* The progress of an acquire keeps its kind.
LEMMA AcquiringMoves ==
  ASSUME NEW t \in Acquirings,
         NEW pc \in {"checked", "send", "acquiring", "answered", "record"}
  PROVE  LET u == [t EXCEPT !.pc = pc] IN u \in Acquirings /\ u.pc = pc /\ u.lease = t.lease
BY DEF Acquirings

\* The epoch is read before the request goes out.
LEMMA EpochRead ==
  ASSUME NEW t \in Acquirings, NEW e \in 0..MaxDetaches + 1
  PROVE  LET u == [t EXCEPT !.epoch = e] IN
         u \in Acquirings /\ u.pc = t.pc /\ u.lease = t.lease
BY DEF Acquirings

\* The comparison of the epoch is noted.
LEMMA EpochCompared ==
  ASSUME NEW t \in Acquirings, NEW v \in BOOLEAN
  PROVE  LET u == [t EXCEPT !.valid = v] IN
         u \in Acquirings /\ u.pc = t.pc /\ u.lease = t.lease
BY DEF Acquirings

\* The worker's answer replaces the id.
LEMMA IdAnswered ==
  ASSUME NEW t \in Acquirings, NEW i \in Ids
  PROVE  LET l == [t.lease EXCEPT !.id = i]
             u == [t EXCEPT !.lease = l]
         IN /\ u \in Acquirings /\ u.pc = t.pc /\ u.lease = l /\ l \in Leases
            /\ l.id = i /\ l.conn = t.lease.conn /\ l.sel = t.lease.sel /\ l.key = t.lease.key
<1>1. LET l == [t.lease EXCEPT !.id = i] IN
      /\ l \in Leases
      /\ l.id = i /\ l.conn = t.lease.conn /\ l.sel = t.lease.sel /\ l.key = t.lease.key
  BY DEF Acquirings, Leases
<1> QED BY <1>1 DEF Acquirings

\* The table is asked for the key, then the epoch is read.
LEMMA AcquireLookKeeps ==
  ASSUME IInv, UNCHANGED load, NEW p \in Procs, AcquireLook(p)
  PROVE  IInv'
<1>1. /\ task[p].pc = "checked" /\ task[p] \in Acquirings /\ task[p].lease \in Leases
      /\ p \in Tasks /\ p \notin Conns
  BY TaskKinds, Commands DEF AcquireLook, IInv, Shape, TypeOK, Acquirings
<1>2. CASE task' = [task EXCEPT ![p] = Idle]
  <2>1. task' \in [Procs -> TaskStates] /\ task'[p].pc = "idle"
    BY <1>2 DEF IInv, Shape, TypeOK, TaskStates, Idle
  <2>2. granted' \subseteq Leases
    <3>1. \A e \in leases : [task[p].lease EXCEPT !.id = e.id] \in Leases
      BY <1>1 DEF IInv, Shape, TypeOK, Leases
    <3> QED BY <3>1, <1>1 DEF AcquireLook, IInv, Shape, TypeOK
  <2>3. TypeOK'
    BY <2>1, <2>2 DEF AcquireLook, IInv, Shape, TypeOK
  <2>4. CleanupShape'
    BY <1>1, <1>2 DEF AcquireLook, IInv, Shape, CleanupShape
  <2>5. \A q : Known(q) => Known(q)'
    BY <1>1, <1>2 DEF AcquireLook, Known, IInv, Shape, TypeOK
  <2> QED BY <1>1, <1>2, <2>1, <2>3, <2>4, <2>5, TaskStep
          DEF AcquireLook, Waiting, Carries, Started, IInv, Shape, TypeOK
<1>3. CASE task' = [task EXCEPT ![p].pc = "send", ![p].epoch = conn[task[p].lease.conn].epoch]
  <2> DEFINE e == conn[task[p].lease.conn].epoch
             t == [[task[p] EXCEPT !.pc = "send"] EXCEPT !.epoch = e]
  <2>1. task' = [task EXCEPT ![p] = t]
    BY <1>3
  <2>2. e \in 0..MaxDetaches + 1
    BY <1>1 DEF IInv, Shape, TypeOK, Leases
  <2>3. t \in Acquirings /\ t.pc = "send" /\ t.lease = task[p].lease
    <3> DEFINE u == [task[p] EXCEPT !.pc = "send"]
    <3>1. u \in Acquirings /\ u.pc = "send" /\ u.lease = task[p].lease
      BY <1>1, AcquiringMoves
    <3> HIDE DEF u, e
    <3>2. LET x == [u EXCEPT !.epoch = e] IN x \in Acquirings /\ x.pc = u.pc /\ x.lease = u.lease
      BY <2>2, <3>1, EpochRead
    <3> QED BY <3>1, <3>2 DEF u
  <2> HIDE DEF e, t
  <2>4. task' \in [Procs -> TaskStates]
    BY <2>1, <2>3 DEF IInv, Shape, TypeOK, TaskStates, Acquirings
  <2>5. TypeOK'
    BY <1>2, <1>3, <2>4 DEF AcquireLook, IInv, Shape, TypeOK
  <2>6. CleanupShape'
    BY <1>1, <2>1 DEF AcquireLook, IInv, Shape, CleanupShape
  <2>7. \A q : Known(q) => Known(q)'
    BY <1>1, <2>1 DEF AcquireLook, Known, IInv, Shape, TypeOK
  <2> QED BY <1>1, <2>1, <2>3, <2>5, <2>6, <2>7, TaskStep
          DEF AcquireLook, Waiting, Carries, Started, IInv, Shape, TypeOK
<1> QED BY <1>2, <1>3 DEF AcquireLook

\* Giving up on a worker is a fault, and leaves the request without its task.
LEMMA GivingUp ==
  ASSUME IInv, UNCHANGED <<load, held>>, NEW p \in Procs, task[p].pc \in Waiting, GivesUp(p),
         \A o \in Procs \ {p} : task'[o] = task[o]
  PROVE  load.faults # {} /\ net' \in [Workers -> SUBSET Requests] /\ NetShape'
<1> DEFINE w == Resolve[task[p].lease.sel]
           freed(r) == <<[r[1] EXCEPT !.by = Nobody], r[2]>>
<1>1. w \in Workers
  BY TaskKinds, PauseType DEF Waiting, Releasings, Acquirings, Liftings, TypeOK, IInv, Shape
<1>2. load.faults # {}
  BY <1>1 DEF GivesUp, IInv, Faultless, NothingIsLost
<1>3. \A r \in net[w] : freed(r) \in Requests /\ freed(r)[1].by = Nobody
  <2> TAKE r \in net[w]
  <2>1. r \in Requests
    BY <1>1 DEF IInv, Shape, TypeOK
  <2>2. [r[1] EXCEPT !.by = Nobody] \in [by : Procs \cup {Nobody}, op : {"acquire", "release"}]
    BY <2>1 DEF Requests
  <2>3. [r[1] EXCEPT !.by = Nobody].by = Nobody
    BY <2>1 DEF Requests
  <2> QED BY <2>1, <2>2, <2>3 DEF Requests
<1>4. /\ net' = [net EXCEPT ![w] = net'[w]]
      /\ \A r \in net'[w] : (\E s \in net[w] : r = freed(s)) \/ (r \in net[w] /\ r[1].by # p)
  BY <1>1 DEF GivesUp, IInv, Shape, TypeOK
<1> HIDE DEF freed
<1>5. net' \in [Workers -> SUBSET Requests]
  BY <1>1, <1>3, <1>4 DEF IInv, Shape, TypeOK
<1>6. \A v \in Workers : \A r \in net'[v] :
         r[1].by = Nobody \/ (r \in net[v] /\ (v = w => r[1].by # p))
  BY <1>1, <1>3, <1>4 DEF IInv, Shape, TypeOK
<1>7. NetShape'
  <2> SUFFICES ASSUME NEW v \in Workers, NEW r \in net'[v], r[1].by # Nobody
               PROVE  Asks(r, v, task'[r[1].by])
    BY DEF NetShape, Asks, PauseOf
  <2>1. r \in net[v] /\ Asks(r, v, task[r[1].by])
    BY <1>6 DEF NetShape, IInv, Shape
  <2>2. r[1].by # p
    BY <1>6, <2>1 DEF Asks
  <2>3. r[1].by \in Procs \ {p}
    BY <2>1, <2>2 DEF IInv, Shape, TypeOK, Requests
  <2> QED BY <2>1, <2>3 DEF Asks, PauseOf
<1> QED BY <1>2, <1>5, <1>7

\* The command does not wait any longer.
LEMMA AcquireGiveUpKeeps ==
  ASSUME IInv, UNCHANGED load, NEW p \in Procs, AcquireGiveUp(p)
  PROVE  IInv'
<1>1. task[p].pc \in Waiting /\ task' = [task EXCEPT ![p] = Idle] /\ p \notin Conns
  BY Commands DEF AcquireGiveUp, Waiting, IInv, Shape
<1>2. \A o \in Procs \ {p} : task'[o] = task[o]
  BY <1>1 DEF IInv, Shape, TypeOK
<1>3. load.faults # {} /\ net' \in [Workers -> SUBSET Requests] /\ NetShape'
  BY <1>1, <1>2, GivingUp DEF AcquireGiveUp
<1>4. TypeOK'
  BY <1>1, <1>3 DEF AcquireGiveUp, IInv, Shape, TypeOK, TaskStates, Idle
<1>5. CleanupShape' /\ OnePausePerKey'
  BY <1>1, <1>2 DEF AcquireGiveUp, IInv, Shape, CleanupShape, OnePausePerKey, Procs
<1> QED BY <1>3, <1>4, <1>5 DEF IInv, Shape, Faultless

\* The answer is here and the epoch is compared.
LEMMA AcquireCompareKeeps ==
  ASSUME IInv, UNCHANGED load, NEW p \in Procs, AcquireCompare(p)
  PROVE  IInv'
<1>1. /\ task[p].pc = "answered" /\ task[p] \in Acquirings /\ task[p].lease \in Leases
      /\ p \in Tasks /\ p \notin Conns
  BY TaskKinds, Commands DEF AcquireCompare, IInv, Shape, TypeOK, Acquirings
<1> DEFINE v == conn[task[p].lease.conn].epoch = task[p].epoch
           u == [task[p] EXCEPT !.pc = "record"]
           t == [u EXCEPT !.valid = v]
<1>2. /\ task' = [task EXCEPT ![p] = t]
      /\ UNCHANGED <<leases, lock, conn, held, net, up, asked, granted>>
  BY DEF AcquireCompare
<1>3. v \in BOOLEAN
  OBVIOUS
<1>4. u \in Acquirings /\ u.pc = "record" /\ u.lease = task[p].lease
  BY <1>1, AcquiringMoves
<1> HIDE DEF u, v
<1>5. LET x == [u EXCEPT !.valid = v] IN x \in Acquirings /\ x.pc = u.pc /\ x.lease = u.lease
  BY <1>3, <1>4, EpochCompared
<1>6. t \in Acquirings /\ t.pc = "record" /\ t.lease = task[p].lease
  BY <1>4, <1>5
<1> HIDE DEF t
<1>7. TypeOK'
  BY <1>2, <1>6 DEF IInv, Shape, TypeOK, TaskStates, Acquirings
<1>8. CleanupShape'
  BY <1>1, <1>2 DEF IInv, Shape, CleanupShape
<1>9. \A q : Known(q) => Known(q)'
  BY <1>1, <1>2, <1>6 DEF Known, IInv, Shape, TypeOK
<1> QED BY <1>1, <1>2, <1>6, <1>7, <1>8, <1>9, TaskStep
        DEF Waiting, Carries, Started, IInv, Shape, TypeOK

\* The request goes out, or the route refuses it.
LEMMA AcquireSendKeeps ==
  ASSUME IInv, UNCHANGED load, NEW p \in Procs, AcquireSend(p)
  PROVE  IInv'
<1> DEFINE l == task[p].lease
           r == <<[by |-> p, op |-> "acquire"], PauseOf(l)>>
           u == [task[p] EXCEPT !.pc = "acquiring"]
<1>1. /\ task[p].pc = "send" /\ task[p] \in Acquirings /\ l \in Leases
      /\ p \in Tasks /\ p \notin Conns
      /\ UNCHANGED <<leases, lock, conn, held, up, asked, granted>>
  BY TaskKinds, Commands DEF AcquireSend, IInv, Shape, TypeOK, Acquirings
<1>2. CASE task' = [task EXCEPT ![p] = u]
           /\ net' = [net EXCEPT ![Resolve[l.sel]] = @ \cup {r}]
  <2>1. u \in Acquirings /\ u.pc = "acquiring" /\ u.lease = l
    BY <1>1, AcquiringMoves
  <2>2. r \in Requests /\ PauseOf(l) \in Pauses /\ Resolve[l.sel] \in Workers
    BY <1>1, PauseType DEF Requests
  <2>3. r[1].by = p /\ r[1].op = "acquire" /\ r[2] = PauseOf(l)
    OBVIOUS
  <2> HIDE DEF u, r
  <2>4. Asks(r, Resolve[l.sel], u)
    BY <2>1, <2>3 DEF Asks
  <2>5. TypeOK'
    BY <1>1, <1>2, <2>1, <2>2 DEF IInv, Shape, TypeOK, TaskStates, Acquirings
  <2>6. CleanupShape'
    BY <1>1, <1>2 DEF IInv, Shape, CleanupShape
  <2>7. \A q : Known(q) => Known(q)'
    BY <1>1, <1>2 DEF Known, IInv, Shape, TypeOK
  <2>8. /\ \A w \in Workers : net[w] \subseteq net'[w]
        /\ \A w \in Workers : \A s \in net'[w] : s \in net[w] \/ (s = r /\ w = Resolve[l.sel])
        /\ r \in net'[Resolve[l.sel]]
    BY <1>2, <2>2 DEF IInv, Shape, TypeOK
  <2>9. Mine(p, Resolve[l.sel])' # {}
    BY <1>2, <2>1, <2>3, <2>8 DEF Mine, IInv, Shape, TypeOK
  <2>10. task'[p] = u /\ \A o \in Procs \ {p} : task'[o] = task[o]
    BY <1>2 DEF IInv, Shape, TypeOK
  <2>11. /\ \A k \in Leases : Carries(u, k) => Carries(task[p], k)
         /\ Started(p) /\ task[p].pc \notin Waiting /\ u.pc # "drop"
    BY <1>1, <2>1 DEF Carries, Started, Waiting
  <2>12. \A w \in Workers : \A s \in net'[w] : s \in net[w] \/ (s[1].by = p /\ Asks(s, w, u))
    BY <2>3, <2>4, <2>8
  <2> QED BY <1>1, <2>1, <2>5, <2>6, <2>7, <2>8, <2>9, <2>10, <2>11, <2>12, TaskStep
<1>3. CASE task' = [task EXCEPT ![p] = Idle] /\ UNCHANGED net
  <2>1. TypeOK'
    BY <1>1, <1>3 DEF IInv, Shape, TypeOK, TaskStates, Idle
  <2>2. task'[p].pc = "idle"
    BY <1>3 DEF IInv, Shape, TypeOK, Idle
  <2>3. CleanupShape'
    BY <1>1, <1>3 DEF IInv, Shape, CleanupShape
  <2>4. \A q : Known(q) => Known(q)'
    BY <1>1, <1>3 DEF Known, IInv, Shape, TypeOK
  <2> QED BY <1>1, <1>3, <2>1, <2>2, <2>3, <2>4, TaskStep
          DEF Waiting, Carries, Started, IInv, Shape, TypeOK
<1> QED BY <1>2, <1>3 DEF AcquireSend, Send

\* The lease is recorded, whatever the comparison said.
LEMMA AcquireRecordKeeps ==
  ASSUME IInv, UNCHANGED load, NEW p \in Procs, AcquireRecord(p)
  PROVE  IInv'
<1> DEFINE l == task[p].lease
<1>1. /\ task[p].pc = "record" /\ task[p] \in Acquirings /\ l \in Leases
      /\ p \in Tasks /\ p \notin Conns
      /\ task' = [task EXCEPT ![p] = Idle]
      /\ UNCHANGED <<lock, conn, held, net, up, asked>>
      /\ leases' = {e \in leases : e.id # l.id} \cup {l}
      /\ granted' \subseteq granted \cup {l}
  BY TaskKinds, Commands DEF AcquireRecord, Recorded, IInv, Shape, TypeOK, Acquirings
<1>2. TypeOK'
  BY <1>1 DEF IInv, Shape, TypeOK, TaskStates, Idle
<1>3. task'[p].pc = "idle" /\ \A o \in Procs \ {p} : task'[o] = task[o]
  BY <1>1 DEF IInv, Shape, TypeOK, Idle
<1>4. CleanupShape'
  BY <1>1 DEF IInv, Shape, CleanupShape
<1>5. ASSUME load.faults = {}, NEW w \in Workers, NEW q \in held[w], Known(q)
      PROVE  Known(q)'
  <2>1. CASE q.id = l.id
    <3>1. Spot(l, Resolve[l.sel], PauseOf(l)) /\ Carries(task[p], l)
      BY <1>1 DEF Spot, Carries
    <3>2. At(w, q) /\ At(Resolve[l.sel], PauseOf(l)) /\ PauseOf(l).id = q.id
      BY <1>1, <2>1, <3>1 DEF At, CarriedAt, PauseOf
    <3>3. q = PauseOf(l)
      BY <1>1, <1>5, <3>2, PauseType DEF IInv, Faultless, Tracked, IdsAgree, Shape, TypeOK
    <3> QED BY <1>1, <3>3 DEF Known
  <2>2. CASE q.id # l.id
    BY <1>1, <1>3, <1>5, <2>2 DEF Known, PauseOf, Procs
  <2> QED BY <2>1, <2>2
<1> QED BY <1>1, <1>2, <1>3, <1>4, <1>5, TaskStep
        DEF Waiting, Carries, Started, IInv, Shape, TypeOK

-----------------------------------------------------------------------------
(* Detaches and cleanups *)

\* The mark and the epoch come first (begin_detach_pause_bookkeeping).
LEMMA DetachStartKeeps ==
  ASSUME IInv, UNCHANGED load, NEW c \in Conns, NEW p \in Tasks, NEW s \in load.sels,
         DetachStart(c, p, s)
  PROVE  IInv'
<1> DEFINE x == conn[c].detaching \cup {s}
           e == conn[c].epoch + 1
           t == [pc |-> "route", conn |-> c, sels |-> {s}]
<1>1. /\ conn[c].loop = "open" /\ task[p] = Idle /\ conn[c].epoch < MaxDetaches
      /\ conn' = [conn EXCEPT ![c] = [[@ EXCEPT !.detaching = x] EXCEPT !.epoch = e]]
      /\ task' = [task EXCEPT ![p] = t]
      /\ granted' \subseteq granted
      /\ UNCHANGED <<leases, lock, held, net, up, asked>>
  BY DEF DetachStart, Speaks
<1>2. s \in Selectors /\ p \in Procs /\ p \notin Conns
  BY LoadType, ProcessAssumption DEF IInv, Shape, Procs
<1>3. conn \in [Conns -> Connections] /\ conn[c] \in Connections
  BY DEF IInv, Shape, TypeOK, Connections
<1>4. e \in 0..MaxDetaches
  BY <1>1, <1>3, BoundAssumption DEF Connections
<1>5. x \subseteq Selectors
  BY <1>2, <1>3 DEF Connections
<1> HIDE DEF x, e
<1>6. [conn[c] EXCEPT !.detaching = x] \in Connections
  BY <1>3, <1>5 DEF Connections
<1>7. LET y == [[conn[c] EXCEPT !.detaching = x] EXCEPT !.epoch = e]
      IN y \in Connections /\ y.epoch \in 0..MaxDetaches
  <2> DEFINE z == [conn[c] EXCEPT !.detaching = x]
  <2>1. z \in Connections
    BY <1>6
  <2> HIDE DEF z
  <2>2. e \in 0..MaxDetaches + 1
    BY <1>4, BoundAssumption
  <2>3. [z EXCEPT !.epoch = e] \in Connections /\ [z EXCEPT !.epoch = e].epoch = e
    BY <2>1, <2>2 DEF Connections
  <2> QED BY <1>4, <2>3 DEF z
<1>8. conn' \in [Conns -> Connections] /\ conn'[c].epoch \in 0..MaxDetaches
      /\ \A d \in Conns \ {c} : conn'[d] = conn[d]
  BY <1>1, <1>3, <1>7
<1>9. t \in TaskStates /\ t.pc = "route"
  BY <1>2 DEF TaskStates
<1> HIDE DEF t
<1>10. TypeOK'
  BY <1>1, <1>8, <1>9 DEF IInv, Shape, TypeOK, Connections
<1>11. CleanupShape'
  BY <1>1, <1>2, <1>8 DEF IInv, Shape, CleanupShape
<1>12. task'[p] = t /\ task[p].pc = "idle" /\ \A o \in Procs \ {p} : task'[o] = task[o]
  BY <1>1, <1>2 DEF IInv, Shape, TypeOK, Idle
<1>13. \A q : Known(q) => Known(q)'
  BY <1>1, <1>12 DEF Known, Procs
<1> QED BY <1>1, <1>2, <1>9, <1>10, <1>11, <1>12, <1>13, TaskStep
        DEF Waiting, Carries, Started, IInv, Shape, TypeOK

\* The route answers or refuses.
LEMMA DetachRouteKeeps ==
  ASSUME IInv, UNCHANGED load, NEW p \in Procs, DetachRoute(p)
  PROVE  IInv'
<1> DEFINE u == [task[p] EXCEPT !.pc = "snapshot"]
<1>1. /\ task[p].pc = "route" /\ task[p] \in Detachings /\ task[p].conn \in Conns
      /\ p \in Tasks /\ p \notin Conns
      /\ UNCHANGED <<leases, lock, held, net, up, asked, granted>>
  BY TaskKinds, Commands DEF DetachRoute, IInv, Shape, TypeOK, Detachings
<1>2. u \in Detachings /\ u.pc = "snapshot"
  BY <1>1 DEF Detachings
<1>3. /\ conn' \in [Conns -> Connections]
      /\ \A d \in Conns : conn'[d].loop = conn[d].loop /\ conn'[d].epoch = conn[d].epoch
  <2>1. CASE UNCHANGED conn
    BY <2>1 DEF IInv, Shape, TypeOK, Connections
  <2>2. CASE \E s \in task[p].sels :
               conn' = [conn EXCEPT ![task[p].conn].attached = @ \ {Resolve[s]}]
    BY <1>1, <2>2 DEF IInv, Shape, TypeOK, Connections
  <2> QED BY <2>1, <2>2 DEF DetachRoute
<1>4. task' = [task EXCEPT ![p] = u] \/ task' = [task EXCEPT ![p] = Idle]
  BY DEF DetachRoute
<1> HIDE DEF u
<1>5. task'[p] \in {u, Idle} /\ \A o \in Procs \ {p} : task'[o] = task[o]
  BY <1>4 DEF IInv, Shape, TypeOK
<1>6. task' \in [Procs -> TaskStates]
  BY <1>2, <1>4 DEF IInv, Shape, TypeOK, TaskStates, Detachings, Idle
<1>7. TypeOK'
  BY <1>1, <1>3, <1>6 DEF IInv, Shape, TypeOK, Connections
<1>8. CleanupShape'
  BY <1>1, <1>3, <1>5 DEF IInv, Shape, CleanupShape, Procs
<1>9. \A q : Known(q) => Known(q)'
  BY <1>1, <1>5 DEF Known, Procs
<1> QED BY <1>1, <1>2, <1>5, <1>7, <1>8, <1>9, TaskStep
        DEF Waiting, Carries, Started, Idle, IInv, Shape, TypeOK

\* What the table holds now is to be lifted (release_client_pauses_for_sessions).
LEMMA SnapshotKeeps ==
  ASSUME IInv, UNCHANGED load, NEW p \in Procs, Snapshot(p)
  PROVE  IInv'
<1> DEFINE S == {l \in leases : Covered(l, task[p].conn, task[p].sels)}
           t == [pc |-> "sweep", conn |-> task[p].conn, todo |-> S]
<1>1. /\ task[p].pc = "snapshot" /\ task[p] \in Detachings
      /\ task' = [task EXCEPT ![p] = t]
      /\ UNCHANGED <<leases, lock, conn, held, net, up, asked, granted>>
  BY TaskKinds DEF Snapshot, IInv, Shape, TypeOK
<1>2. S \subseteq leases
  OBVIOUS
<1> HIDE DEF S
<1>3. t \in TaskStates
  BY <1>1, <1>2 DEF TaskStates, Detachings, IInv, Shape, TypeOK
<1>4. t.pc = "sweep" /\ t.todo = S
  OBVIOUS
<1> HIDE DEF t
<1>5. TypeOK'
  BY <1>1, <1>3 DEF IInv, Shape, TypeOK
<1>6. CleanupShape'
  BY <1>1, <1>4 DEF IInv, Shape, TypeOK, CleanupShape, Procs, Idle
<1>7. task'[p] = t /\ \A o \in Procs \ {p} : task'[o] = task[o]
  BY <1>1 DEF IInv, Shape, TypeOK
<1>8. \A q : Known(q) => Known(q)'
  BY <1>1, <1>7 DEF Known, Procs
<1> QED BY <1>1, <1>2, <1>4, <1>5, <1>6, <1>7, <1>8, TaskStep
        DEF Waiting, Carries, Started, IInv, Shape, TypeOK

\* The worker of the next lease is asked to lift it, or it is not there.
LEMMA SweepNextKeeps ==
  ASSUME IInv, UNCHANGED load, NEW p \in Procs, SweepNext(p)
  PROVE  IInv'
<1>1. PICK l \in task[p].todo :
        LET at == [pc |-> "drop", conn |-> task[p].conn, todo |-> task[p].todo, lease |-> l]
            w == Resolve[l.sel]
        IN \/ /\ net' = [net EXCEPT ![w] = @ \cup {<<[by |-> p, op |-> "release"], PauseOf(l)>>}]
              /\ task' = [task EXCEPT ![p] = [at EXCEPT !.pc = "lifting"]]
           \/ /\ up[w] # "up"
              /\ task' = [task EXCEPT ![p] = at]
              /\ UNCHANGED net
  BY DEF SweepNext
<1>2. /\ task[p].pc = "sweep" /\ task[p] \in Sweepings
      /\ UNCHANGED <<leases, lock, conn, held, up, asked, granted>>
  BY TaskKinds DEF SweepNext, IInv, Shape, TypeOK
<1>3. l \in Leases /\ PauseOf(l) \in Pauses /\ Resolve[l.sel] \in Workers
  BY <1>1, <1>2, PauseType DEF Sweepings
<1> DEFINE r == <<[by |-> p, op |-> "release"], PauseOf(l)>>
           t(pc) == [pc |-> pc, conn |-> task[p].conn, todo |-> task[p].todo, lease |-> l]
<1>4. \A pc \in {"lifting", "drop"} :
        t(pc) \in TaskStates /\ t(pc).pc = pc /\ t(pc).lease = l /\ t(pc).todo = task[p].todo
  BY <1>2, <1>3 DEF TaskStates, Sweepings
<1>5. \E pc \in {"lifting", "drop"} :
        /\ task' = [task EXCEPT ![p] = t(pc)]
        /\ pc = "lifting" => net' = [net EXCEPT ![Resolve[l.sel]] = @ \cup {r}]
        /\ pc = "drop" => up[Resolve[l.sel]] # "up" /\ UNCHANGED net
  BY <1>1
<1>6. PICK pc \in {"lifting", "drop"} :
        /\ task' = [task EXCEPT ![p] = t(pc)]
        /\ pc = "lifting" => net' = [net EXCEPT ![Resolve[l.sel]] = @ \cup {r}]
        /\ pc = "drop" => up[Resolve[l.sel]] # "up" /\ UNCHANGED net
  BY <1>5
<1>7. r \in Requests /\ r[1].by = p /\ r[1].op = "release" /\ r[2] = PauseOf(l)
  BY <1>3 DEF Requests
<1> HIDE DEF r, t
<1>8. task'[p] = t(pc) /\ \A o \in Procs \ {p} : task'[o] = task[o]
  BY <1>6 DEF IInv, Shape, TypeOK
<1>9. TypeOK'
  BY <1>2, <1>3, <1>4, <1>6, <1>7 DEF IInv, Shape, TypeOK
<1>10. CleanupShape'
  BY <1>2, <1>4, <1>8 DEF IInv, Shape, CleanupShape, Procs, Idle
<1>11. \A q : Known(q) => Known(q)'
  BY <1>2, <1>8 DEF Known, Procs
<1>12. /\ \A k \in Leases : Carries(t(pc), k) => Carries(task[p], k)
       /\ ~Started(p)' /\ task[p].pc \notin Waiting
  BY <1>1, <1>2, <1>4, <1>8 DEF Carries, Started, Waiting
<1>13. load.faults = {} => pc # "drop"
  BY <1>3, <1>6 DEF IInv, Faultless, NothingIsLost
<1>14. /\ \A w \in Workers : net[w] \subseteq net'[w]
       /\ \A w \in Workers : \A s \in net'[w] :
            s \in net[w] \/ (pc = "lifting" /\ s = r /\ w = Resolve[l.sel])
       /\ pc = "lifting" => r \in net'[Resolve[l.sel]]
  BY <1>3, <1>6 DEF IInv, Shape, TypeOK
<1>15. \A w \in Workers : \A s \in net'[w] : s \in net[w] \/ (s[1].by = p /\ Asks(s, w, t(pc)))
  BY <1>4, <1>7, <1>14 DEF Asks
<1>16. ASSUME pc = "lifting" PROVE Mine(p, Resolve[task[p].lease.sel])' # {}
  BY <1>4, <1>7, <1>8, <1>14, <1>16 DEF Mine
<1>17. t(pc).pc \in Waiting => pc = "lifting"
  BY <1>4 DEF Waiting
<1> QED BY <1>2, <1>4, <1>8, <1>9, <1>10, <1>11, <1>12, <1>13, <1>14, <1>15, <1>16, <1>17, TaskStep

\* The sweep does not wait for the worker any longer.
LEMMA SweepGiveUpKeeps ==
  ASSUME IInv, UNCHANGED load, NEW p \in Procs, SweepGiveUp(p)
  PROVE  IInv'
<1> DEFINE u == [task[p] EXCEPT !.pc = "drop"]
<1>1. /\ task[p].pc = "lifting" /\ task[p].pc \in Waiting /\ task[p] \in Liftings
      /\ task' = [task EXCEPT ![p] = u]
      /\ UNCHANGED <<leases, lock, conn, held, up, asked, granted>>
  BY TaskKinds DEF SweepGiveUp, Waiting, IInv, Shape, TypeOK
<1>2. u \in Liftings /\ u.pc = "drop"
  BY <1>1 DEF Liftings
<1> HIDE DEF u
<1>3. task'[p] = u /\ \A o \in Procs \ {p} : task'[o] = task[o]
  BY <1>1 DEF IInv, Shape, TypeOK
<1>4. load.faults # {} /\ net' \in [Workers -> SUBSET Requests] /\ NetShape'
  BY <1>1, <1>3, GivingUp DEF SweepGiveUp
<1>5. TypeOK'
  BY <1>1, <1>2, <1>4 DEF IInv, Shape, TypeOK, TaskStates, Liftings
<1>6. CleanupShape'
  BY <1>1, <1>2, <1>3 DEF IInv, Shape, CleanupShape, Procs, Idle
<1> QED BY <1>1, <1>4, <1>5, <1>6 DEF IInv, Shape, Faultless, OnePausePerKey

\* Lifted or not, the record goes.
LEMMA SweepDropKeeps ==
  ASSUME IInv, UNCHANGED load, NEW p \in Procs, SweepDrop(p)
  PROVE  IInv'
<1> DEFINE S == task[p].todo \ {task[p].lease}
           t == [pc |-> "sweep", conn |-> task[p].conn, todo |-> S]
<1>1. /\ task[p].pc = "drop" /\ task[p] \in Liftings
      /\ leases' = {l \in leases : l.id # task[p].lease.id}
      /\ task' = [task EXCEPT ![p] = t]
      /\ UNCHANGED <<lock, conn, held, net, up, asked, granted>>
  BY TaskKinds DEF SweepDrop, IInv, Shape, TypeOK
<1>2. t \in TaskStates /\ t.pc = "sweep" /\ t.todo \subseteq task[p].todo
  BY <1>1 DEF TaskStates, Liftings
<1> HIDE DEF S, t
<1>3. task'[p] = t /\ \A o \in Procs \ {p} : task'[o] = task[o]
  BY <1>1 DEF IInv, Shape, TypeOK
<1>4. TypeOK'
  BY <1>1, <1>2 DEF IInv, Shape, TypeOK
<1>5. CleanupShape'
  BY <1>1, <1>2, <1>3 DEF IInv, Shape, CleanupShape, Procs, Idle
<1>6. ASSUME load.faults = {}, NEW w \in Workers, NEW q \in held[w], Known(q)
      PROVE  Known(q)'
  <2>1. q.id # task[p].lease.id
    BY <1>1, <1>6 DEF IInv, Faultless, Tracked, DroppedIsLifted
  <2> QED BY <1>1, <1>3, <1>6, <2>1 DEF Known, PauseOf, Procs
<1> QED BY <1>1, <1>2, <1>3, <1>4, <1>5, <1>6, TaskStep
        DEF Waiting, Carries, Started, IInv, Shape, TypeOK

\* The sweep is over; a cleanup closes its connection.
LEMMA SweepEndKeeps ==
  ASSUME IInv, UNCHANGED load, NEW p \in Procs, SweepEnd(p)
  PROVE  IInv'
<1>1. /\ task[p].pc = "sweep" /\ task' = [task EXCEPT ![p] = Idle]
      /\ conn' = IF p \in Conns THEN [conn EXCEPT ![p].loop = "closed"] ELSE conn
      /\ UNCHANGED <<leases, lock, held, net, up, asked, granted>>
  BY DEF SweepEnd
<1>2. task'[p].pc = "idle" /\ \A o \in Procs \ {p} : task'[o] = task[o]
  BY <1>1 DEF IInv, Shape, TypeOK, Idle
<1>3. TypeOK'
  <2>1. task' \in [Procs -> TaskStates]
    BY <1>1 DEF IInv, Shape, TypeOK, TaskStates, Idle
  <2>2. conn' \in [Conns -> Connections]
    BY <1>1 DEF IInv, Shape, TypeOK, Connections
  <2> QED BY <1>1, <2>1, <2>2 DEF IInv, Shape, TypeOK, Connections
<1>4. CleanupShape'
  BY <1>1, <1>2 DEF IInv, Shape, TypeOK, CleanupShape, Procs, Idle
<1>5. \A q : Known(q) => Known(q)'
  BY <1>1, <1>2 DEF Known, Procs
<1> QED BY <1>1, <1>2, <1>3, <1>4, <1>5, TaskStep
        DEF Waiting, Carries, Started, IInv, Shape, TypeOK

\* The loop is over: release_all_client_pauses bumps the epoch.
LEMMA CleanupStartKeeps ==
  ASSUME IInv, UNCHANGED load, NEW c \in Conns, CleanupStart(c)
  PROVE  IInv'
<1> DEFINE t == [pc |-> "snapshot", conn |-> c, sels |-> {}]
<1>1. /\ conn[c].loop = "closing" /\ task[c] = Idle /\ c \in Procs
      /\ conn' = [conn EXCEPT ![c].epoch = @ + 1]
      /\ task' = [task EXCEPT ![c] = t]
      /\ UNCHANGED <<leases, lock, held, net, up, asked, granted>>
  BY DEF CleanupStart, Procs
<1>2. t \in TaskStates /\ t.pc = "snapshot"
  BY DEF TaskStates
<1> HIDE DEF t
<1>3. /\ task'[c] = t /\ task[c].pc = "idle" /\ t # Idle
      /\ \A o \in Procs \ {c} : task'[o] = task[o]
  BY <1>1, <1>2 DEF IInv, Shape, TypeOK, Idle
<1>4. conn[c].epoch + 1 \in 0..MaxDetaches + 1
  BY <1>1, BoundAssumption DEF IInv, Shape, CleanupShape
<1>5. TypeOK'
  BY <1>1, <1>2, <1>4 DEF IInv, Shape, TypeOK
<1>6. CleanupShape'
  BY <1>1, <1>2, <1>3 DEF IInv, Shape, TypeOK, CleanupShape, Procs
<1>7. \A q : Known(q) => Known(q)'
  BY <1>1, <1>3, ProcessAssumption DEF Known, Procs
<1> QED BY <1>1, <1>2, <1>3, <1>5, <1>6, <1>7, TaskStep
        DEF Waiting, Carries, Started, IInv, Shape, TypeOK

-----------------------------------------------------------------------------
(* release_session_input_pause *)

\* A lease of a worker that left goes; otherwise the table is locked for the call.
LEMMA ReleaseStartKeeps ==
  ASSUME IInv, UNCHANGED load, NEW c \in Conns, NEW p \in Tasks, NEW s \in load.sels, NEW i \in Ids,
         ReleaseStart(c, p, s, i)
  PROVE  IInv'
<1>1. PICK l \in leases :
        \/ /\ up[Resolve[l.sel]] = "gone"
           /\ leases' = leases \ {l}
           /\ UNCHANGED <<lock, task, net>>
        \/ /\ lock' = p
           /\ task' = [task EXCEPT ![p] = [pc |-> "releasing", lease |-> l]]
           /\ net' = [net EXCEPT ![Resolve[l.sel]] =
                        @ \cup {<<[by |-> p, op |-> "release"], PauseOf(l)>>}]
           /\ UNCHANGED leases
  BY DEF ReleaseStart
<1>2. /\ task[p] = Idle /\ task[p].pc = "idle" /\ p \in Procs /\ p \notin Conns
      /\ granted' \subseteq granted
      /\ UNCHANGED <<conn, held, up, asked>>
  BY ProcessAssumption DEF ReleaseStart, Speaks, Idle, Procs
<1>3. l \in Leases /\ PauseOf(l) \in Pauses /\ Resolve[l.sel] \in Workers
  BY <1>1, PauseType DEF IInv, Shape, TypeOK
<1>4. CASE up[Resolve[l.sel]] = "gone" /\ leases' = leases \ {l} /\ UNCHANGED <<lock, task, net>>
  <2>1. TypeOK' /\ CleanupShape'
    BY <1>2, <1>4 DEF IInv, Shape, TypeOK, CleanupShape
  <2>2. load.faults # {}
    BY <1>3, <1>4 DEF IInv, Faultless, NothingIsLost
  <2>3. NetShape' /\ OnePausePerKey'
    BY <1>2, <1>4 DEF IInv, Shape, NetShape, Asks, PauseOf, OnePausePerKey
  <2> QED BY <2>1, <2>2, <2>3 DEF IInv, Shape, Faultless
<1>5. CASE /\ lock' = p
           /\ task' = [task EXCEPT ![p] = [pc |-> "releasing", lease |-> l]]
           /\ net' = [net EXCEPT ![Resolve[l.sel]] =
                        @ \cup {<<[by |-> p, op |-> "release"], PauseOf(l)>>}]
           /\ UNCHANGED leases
  <2> DEFINE r == <<[by |-> p, op |-> "release"], PauseOf(l)>>
             t == [pc |-> "releasing", lease |-> l]
  <2>1. r \in Requests /\ r[1].by = p /\ r[1].op = "release" /\ r[2] = PauseOf(l)
    BY <1>2, <1>3 DEF Requests
  <2>2. t \in TaskStates /\ t.pc = "releasing" /\ t.lease = l
    BY <1>3 DEF TaskStates
  <2>3. task' = [task EXCEPT ![p] = t] /\ net' = [net EXCEPT ![Resolve[l.sel]] = @ \cup {r}]
    BY <1>5
  <2> HIDE DEF r, t
  <2>4. task'[p] = t /\ \A o \in Procs \ {p} : task'[o] = task[o]
    BY <1>2, <2>3 DEF IInv, Shape, TypeOK
  <2>5. TypeOK'
    BY <1>2, <1>3, <1>5, <2>1, <2>2, <2>3 DEF IInv, Shape, TypeOK
  <2>6. CleanupShape'
    BY <1>2, <2>3 DEF IInv, Shape, CleanupShape
  <2>7. /\ \A w \in Workers : net[w] \subseteq net'[w]
        /\ \A w \in Workers : \A q \in net'[w] : q \in net[w] \/ (q = r /\ w = Resolve[l.sel])
        /\ r \in net'[Resolve[l.sel]]
    BY <1>3, <2>3 DEF IInv, Shape, TypeOK
  <2>8. \A w \in Workers : \A q \in net'[w] : q \in net[w] \/ (q[1].by = p /\ Asks(q, w, t))
    BY <2>1, <2>2, <2>7 DEF Asks
  <2>9. Mine(p, Resolve[task[p].lease.sel])' # {}
    BY <2>1, <2>2, <2>4, <2>7 DEF Mine
  <2>10. \A q : Known(q) => Known(q)'
    BY <1>2, <1>5, <2>4 DEF Known, Procs
  <2>11. /\ \A k \in Leases : Carries(t, k) => k \in leases
         /\ ~Started(p)' /\ task[p].pc \notin Waiting
    BY <1>1, <1>2, <2>2, <2>4 DEF Carries, Started, Waiting
  <2> QED BY <1>2, <1>5, <2>2, <2>4, <2>5, <2>6, <2>7, <2>8, <2>9, <2>10, <2>11, TaskStep
<1> QED BY <1>1, <1>4, <1>5

\* The release does not wait any longer: the lease stays.
LEMMA ReleaseGiveUpKeeps ==
  ASSUME IInv, UNCHANGED load, NEW p \in Procs, ReleaseGiveUp(p)
  PROVE  IInv'
<1>1. /\ task[p].pc \in Waiting /\ task' = [task EXCEPT ![p] = Idle] /\ p \notin Conns
      /\ lock' = Nobody
      /\ UNCHANGED <<leases, conn, held, up, asked, granted>>
  BY Commands DEF ReleaseGiveUp, Waiting, IInv, Shape
<1>2. \A o \in Procs \ {p} : task'[o] = task[o]
  BY <1>1 DEF IInv, Shape, TypeOK
<1>3. load.faults # {} /\ net' \in [Workers -> SUBSET Requests] /\ NetShape'
  BY <1>1, <1>2, GivingUp DEF ReleaseGiveUp
<1>4. TypeOK'
  BY <1>1, <1>3 DEF IInv, Shape, TypeOK, TaskStates, Idle
<1>5. CleanupShape' /\ OnePausePerKey'
  BY <1>1, <1>2 DEF IInv, Shape, CleanupShape, OnePausePerKey, Procs
<1> QED BY <1>3, <1>4, <1>5 DEF IInv, Shape, Faultless

-----------------------------------------------------------------------------
(* The worker *)

\* A task has one request on its way.
LEMMA OneRequest ==
  ASSUME NetShape, TypeOK, NEW w \in Workers, NEW v \in Workers, NEW r \in net[w], NEW s \in net[v],
         r[1].by # Nobody, s[1].by = r[1].by
  PROVE  v = w /\ s = r
<1>1. Asks(r, w, task[r[1].by]) /\ Asks(s, v, task[r[1].by])
  BY DEF NetShape
<1>2. r \in Requests /\ s \in Requests
  BY DEF TypeOK
<1>3. v = w /\ s[2] = r[2]
  BY <1>1 DEF Asks
<1>4. s[1].op = r[1].op
  BY <1>1, <1>2 DEF Asks, Requests
<1>5. s[1] = r[1]
  BY <1>2, <1>4 DEF Requests
<1> QED BY <1>2, <1>3, <1>5 DEF Requests

\* An answered request leaves the rest of the wire as it is.
LEMMA Answered ==
  ASSUME TypeOK, NetShape, NEW w \in Workers, NEW r \in net[w], UNCHANGED <<load, up>>,
         net' = [net EXCEPT ![w] = @ \ {r}],
         \A o \in Procs : o # r[1].by => task'[o] = task[o],
         r[1].by # Nobody => task'[r[1].by].pc \notin Waiting
  PROVE  /\ net' \in [Workers -> SUBSET Requests] /\ NetShape'
         /\ NothingIsLost => NothingIsLost'
<1>1. net' \in [Workers -> SUBSET Requests] /\ \A v \in Workers : net'[v] \subseteq net[v]
  BY DEF TypeOK
<1>2. \A v \in Workers : \A s \in net'[v] :
        /\ s[1].by \in Procs \cup {Nobody}
        /\ s[1].by # Nobody => s[1].by # r[1].by /\ task'[s[1].by] = task[s[1].by]
  <2> SUFFICES ASSUME NEW v \in Workers, NEW s \in net'[v]
               PROVE  /\ s[1].by \in Procs \cup {Nobody}
                      /\ s[1].by # Nobody => s[1].by # r[1].by /\ task'[s[1].by] = task[s[1].by]
    OBVIOUS
  <2>1. s \in net[v] /\ s[1].by \in Procs \cup {Nobody}
    BY <1>1 DEF TypeOK, Requests
  <2>2. ~(v = w /\ s = r)
    BY DEF TypeOK
  <2> QED BY <2>1, <2>2, OneRequest
<1>3. NetShape'
  BY <1>1, <1>2 DEF NetShape, Asks, PauseOf
<1>4. ASSUME NothingIsLost PROVE NothingIsLost'
  <2>1. ASSUME NEW o \in Procs, task'[o].pc \in Waiting
        PROVE  Mine(o, Resolve[task[o].lease.sel])' # {}
    <3>1. o # r[1].by /\ task'[o] = task[o]
      BY <2>1, ProcessAssumption DEF Procs
    <3>2. task[o].lease \in Leases
      BY <2>1, <3>1, TaskKinds DEF Waiting, Releasings, Acquirings, Liftings, TypeOK
    <3>3. PICK s \in net[Resolve[task[o].lease.sel]] : s[1].by = o
      BY <1>4, <2>1, <3>1 DEF NothingIsLost, Mine
    <3>4. s \in net'[Resolve[task[o].lease.sel]]
      BY <3>1, <3>2, <3>3, PauseType DEF TypeOK
    <3> QED BY <3>1, <3>3, <3>4 DEF Mine
  <2> QED BY <1>1, <1>4, <2>1 DEF NothingIsLost
<1> QED BY <1>1, <1>3, <1>4

\* The worker answers the pause it has for the key, or makes one
\* (InputPauseTable::acquire).
LEMMA WorkerAcquireKeeps ==
  ASSUME IInv, UNCHANGED load, NEW w \in Workers, NEW r \in net[w], WorkerAcquire(w, r)
  PROVE  IInv'
<1> DEFINE p == r[1].by
<1>1. PICK q \in (IF Existing(w, r[2]) = {} THEN {r[2]} ELSE Existing(w, r[2])) :
        /\ held' = [held EXCEPT ![w] = @ \cup {q}]
        /\ task' = IF p = Nobody THEN task
                   ELSE [task EXCEPT ![p].pc = "answered", ![p].lease.id = q.id]
  BY DEF WorkerAcquire
<1>2. /\ r[1].op = "acquire" /\ net' = [net EXCEPT ![w] = @ \ {r}]
      /\ UNCHANGED <<leases, lock, conn, up, asked, granted>>
  BY DEF WorkerAcquire
<1>3. r \in Requests /\ r[2] \in Pauses /\ p \in Procs \cup {Nobody}
  BY DEF IInv, Shape, TypeOK, Requests
<1>4. /\ q \in Pauses /\ q.conn = r[2].conn /\ q.key = r[2].key
      /\ q \in held[w] \/ (q = r[2] /\ \A e \in held[w] : ~(e.conn = q.conn /\ e.key = q.key))
  BY <1>1, <1>3 DEF Existing, IInv, Shape, TypeOK
<1>5. /\ held' \in [Workers -> SUBSET Pauses]
      /\ \A v \in Workers : held'[v] = IF v = w THEN held[w] \cup {q} ELSE held[v]
  BY <1>1, <1>4 DEF IInv, Shape, TypeOK
<1>6. OnePausePerKey'
  BY <1>4, <1>5 DEF IInv, OnePausePerKey
<1>7. CASE p = Nobody
  <2>1. load.faults # {}
    BY <1>7 DEF IInv, Faultless, NothingIsLost
  <2>2. net' \in [Workers -> SUBSET Requests] /\ NetShape'
    BY <1>1, <1>2, <1>7, Answered DEF IInv, Shape
  <2>3. TypeOK' /\ CleanupShape'
    BY <1>1, <1>2, <1>5, <1>7, <2>2 DEF IInv, Shape, TypeOK, CleanupShape
  <2> QED BY <1>6, <2>1, <2>2, <2>3 DEF IInv, Shape, Faultless
<1>8. CASE p # Nobody
  <2> DEFINE t == task[p]
             u == [t EXCEPT !.pc = "answered"]
             l == [u.lease EXCEPT !.id = q.id]
             x == [u EXCEPT !.lease = l]
  <2>1. p \in Procs /\ Asks(r, w, t)
    BY <1>3, <1>8 DEF IInv, Shape, NetShape
  <2>2. t.pc = "acquiring" /\ Resolve[t.lease.sel] = w /\ PauseOf(t.lease) = r[2]
    BY <1>2, <2>1 DEF Asks
  <2>3. t \in Acquirings /\ t.lease \in Leases /\ p \in Tasks /\ p \notin Conns
    BY <2>1, <2>2, TaskKinds, Commands DEF IInv, Shape, TypeOK, Acquirings
  <2>4. u \in Acquirings /\ u.pc = "answered" /\ u.lease = t.lease
    BY <2>3, AcquiringMoves
  <2>5. task' = [task EXCEPT ![p] = x]
    BY <1>1, <1>8, <2>1 DEF IInv, Shape, TypeOK
  <2>6. q.id \in Ids
    BY <1>4 DEF Pauses
  <2> HIDE DEF t, u
  <2>7. /\ x \in Acquirings /\ x.pc = "answered" /\ x.lease = l /\ l \in Leases
        /\ l.id = q.id /\ l.conn = t.lease.conn /\ l.sel = t.lease.sel /\ l.key = t.lease.key
    BY <2>4, <2>6, IdAnswered
  <2> HIDE DEF l, x
  <2>8. PauseOf(l) = q /\ Resolve[l.sel] = w
    BY <1>4, <2>2, <2>7 DEF PauseOf, Pauses
  <2>9. task'[p] = x /\ \A o \in Procs \ {p} : task'[o] = task[o]
    BY <2>1, <2>5 DEF IInv, Shape, TypeOK
  <2>10. x.pc \notin Waiting
    BY <2>7 DEF Waiting
  <2>11. /\ net' \in [Workers -> SUBSET Requests] /\ NetShape'
         /\ NothingIsLost => NothingIsLost'
    BY <1>2, <2>9, <2>10, Answered DEF IInv, Shape
  <2>12. TypeOK'
    BY <1>2, <1>5, <2>1, <2>5, <2>7, <2>11 DEF IInv, Shape, TypeOK, TaskStates, Acquirings
  <2>13. CleanupShape'
    BY <1>2, <2>3, <2>9 DEF IInv, Shape, CleanupShape, Procs
  <2>14. ASSUME load.faults = {} PROVE Tracked' /\ HeldIsKnown'
    <3>1. Tracked /\ HeldIsKnown
      BY <2>14 DEF IInv, Faultless
    <3>2. CarriedAt(p, w, r[2]) /\ Started(p)
      BY <2>2, <2>3 DEF CarriedAt, Carries, Spot, Started, t
    <3>3. q \in held[w] \/ CarriedAt(p, w, q)
      BY <1>4, <3>2
    <3>4. \A v \in Workers, y \in Pauses : LeasedAt(v, y)' = LeasedAt(v, y)
      BY <1>2 DEF LeasedAt, Spot, PauseOf
    <3>5. \A o \in Procs \ {p}, v \in Workers, y \in Pauses : CarriedAt(o, v, y)' = CarriedAt(o, v, y)
      BY <2>9 DEF CarriedAt
    <3>6. \A v \in Workers, y \in Pauses : CarriedAt(p, v, y)' => v = w /\ y = q
      BY <2>7, <2>8, <2>9 DEF CarriedAt, Carries, Spot
    <3>7. \A v \in Workers, y \in Pauses : At(v, y)' => At(v, y)
      BY <1>5, <2>1, <3>3, <3>4, <3>5, <3>6 DEF At
    <3>8. IdsAgree' /\ IdsCounted'
      BY <1>2, <3>1, <3>7 DEF Tracked, IdsAgree, IdsCounted
    <3>9. IdsFresh'
      <4> SUFFICES ASSUME NEW o \in Procs, Started(o)', NEW v \in Workers, NEW y \in Pauses,
                          Elsewhere(o, v, y)'
                   PROVE  y.id # task'[o].lease.id
        BY DEF IdsFresh
      <4>1. o # p
        BY <2>7, <2>9 DEF Started
      <4>2. Started(o) /\ task'[o] = task[o]
        BY <2>9, <4>1 DEF Started
      <4>3. Elsewhere(o, v, y)
        BY <1>5, <2>1, <3>3, <3>4, <3>5, <3>6, <4>1 DEF Elsewhere
      <4> QED BY <3>1, <4>2, <4>3 DEF Tracked, IdsFresh
    <3>10. DroppedIsLifted'
      <4> SUFFICES ASSUME NEW o \in Procs, task'[o].pc = "drop", NEW v \in Workers, NEW y \in held'[v]
                   PROVE  y.id # task'[o].lease.id
        BY DEF DroppedIsLifted
      <4>1. o # p /\ task'[o] = task[o]
        BY <2>7, <2>9
      <4>2. CASE y \in held[v]
        BY <3>1, <4>1, <4>2 DEF Tracked, DroppedIsLifted
      <4>3. CASE y \notin held[v]
        <5>1. y = r[2] /\ y.id = t.lease.id
          BY <1>4, <1>5, <2>2, <4>3 DEF PauseOf
        <5>2. task[o].lease \in Leases
          BY <4>1, TaskKinds DEF Liftings, IInv, Shape, TypeOK
        <5>3. Spot(task[o].lease, Resolve[task[o].lease.sel], PauseOf(task[o].lease))
          BY DEF Spot
        <5>4. Elsewhere(p, Resolve[task[o].lease.sel], PauseOf(task[o].lease))
          BY <4>1, <5>2, <5>3 DEF Elsewhere, CarriedAt, Carries
        <5>5. PauseOf(task[o].lease).id # t.lease.id
          BY <2>1, <3>1, <3>2, <5>2, <5>4, PauseType DEF Tracked, IdsFresh, t
        <5> QED BY <4>1, <5>1, <5>5 DEF PauseOf
      <4> QED BY <4>2, <4>3
    <3>11. HeldIsKnown'
      <4> SUFFICES ASSUME NEW v \in Workers, NEW y \in held'[v] PROVE Known(y)'
        BY DEF HeldIsKnown, Known
      <4>1. CASE y \in held[v]
        <5>1. Known(y)
          BY <2>14, <3>1, <4>1 DEF HeldIsKnown, Known
        <5>2. p \in Tasks /\ t.pc = "acquiring" /\ t = task[p]
          BY <2>2, <2>3 DEF t
        <5> QED BY <1>2, <2>9, <5>1, <5>2 DEF Known, Procs, PauseOf
      <4>2. CASE y = q
        BY <2>3, <2>7, <2>8, <2>9, <4>2 DEF Known, PauseOf
      <4> QED BY <1>5, <4>1, <4>2
    <3> QED BY <3>8, <3>9, <3>10, <3>11 DEF Tracked
  <2> QED BY <1>6, <2>11, <2>12, <2>13, <2>14 DEF IInv, Shape, Faultless
<1> QED BY <1>7, <1>8

\* The owner's pause is lifted; a release then unlocks the table, a sweep goes
\* on to drop the record.
LEMMA WorkerReleaseKeeps ==
  ASSUME IInv, UNCHANGED load, NEW w \in Workers, NEW r \in net[w], WorkerRelease(w, r)
  PROVE  IInv'
<1> DEFINE p == r[1].by
           H == {e \in held[w] : ~(e.id = r[2].id /\ e.conn = r[2].conn)}
<1>1. /\ r[1].op = "release" /\ net' = [net EXCEPT ![w] = @ \ {r}]
      /\ held' = [held EXCEPT ![w] = H]
      /\ UNCHANGED <<conn, up, asked, granted>>
  BY DEF WorkerRelease
<1>2. r \in Requests /\ r[2] \in Pauses /\ p \in Procs \cup {Nobody}
  BY DEF IInv, Shape, TypeOK, Requests
<1>3. /\ held' \in [Workers -> SUBSET Pauses]
      /\ \A v \in Workers : held'[v] = IF v = w THEN H ELSE held[v]
      /\ \A v \in Workers : held'[v] \subseteq held[v]
  BY <1>1 DEF IInv, Shape, TypeOK
<1>4. OnePausePerKey'
  BY <1>3 DEF IInv, OnePausePerKey
<1>5. CASE p = Nobody
  <2>1. UNCHANGED <<task, leases, lock>>
    BY <1>5 DEF WorkerRelease
  <2>2. load.faults # {}
    BY <1>5 DEF IInv, Faultless, NothingIsLost
  <2>3. net' \in [Workers -> SUBSET Requests] /\ NetShape'
    BY <1>1, <1>5, <2>1, Answered DEF IInv, Shape
  <2>4. TypeOK' /\ CleanupShape'
    BY <1>1, <1>3, <2>1, <2>3 DEF IInv, Shape, TypeOK, CleanupShape
  <2> QED BY <1>4, <2>2, <2>3, <2>4 DEF IInv, Shape, Faultless
<1>6. CASE p # Nobody
  <2>1. p \in Procs /\ Asks(r, w, task[p])
    BY <1>2, <1>6 DEF IInv, Shape, NetShape
  <2>2. /\ task[p].pc \in {"releasing", "lifting"}
        /\ Resolve[task[p].lease.sel] = w /\ PauseOf(task[p].lease) = r[2]
    BY <1>1, <2>1 DEF Asks
  <2>3. task[p].lease \in Leases /\ task[p].lease.id = r[2].id
    BY <2>1, <2>2, TaskKinds DEF PauseOf, Releasings, Liftings, IInv, Shape, TypeOK
  <2>4. ASSUME load.faults = {}, NEW v \in Workers, NEW q \in held'[v]
        PROVE  q.id # r[2].id
    <3>1. Spot(task[p].lease, w, r[2]) /\ Carries(task[p], task[p].lease)
      BY <2>2 DEF Spot, Carries
    <3>2. At(w, r[2]) /\ At(v, q) /\ q \in Pauses
      BY <1>3, <2>1, <2>3, <3>1 DEF At, CarriedAt
    <3>3. q.id = r[2].id => v = w /\ q = r[2]
      BY <1>2, <2>4, <3>2 DEF IInv, Faultless, Tracked, IdsAgree
    <3> QED BY <1>3, <3>3
  <2> DEFINE u == [task[p] EXCEPT !.pc = "drop"]
  <2>5. PICK t \in TaskStates :
          /\ task' = [task EXCEPT ![p] = t]
          /\ \/ /\ task[p].pc = "releasing" /\ t = Idle
                /\ leases' = {l \in leases : l.id # r[2].id} /\ lock' = Nobody
             \/ /\ task[p].pc = "lifting" /\ t \in Liftings /\ t.pc = "drop"
                /\ t.todo = task[p].todo /\ t.lease = task[p].lease
                /\ UNCHANGED <<leases, lock>>
    <3>1. CASE task[p].pc = "releasing"
      <4>1. /\ task' = [task EXCEPT ![p] = Idle]
            /\ leases' = {l \in leases : l.id # r[2].id} /\ lock' = Nobody
        BY <1>6, <3>1 DEF WorkerRelease
      <4>2. Idle \in TaskStates
        BY DEF Idle, TaskStates
      <4> QED BY <3>1, <4>1, <4>2
    <3>2. CASE task[p].pc = "lifting"
      <4>1. task' = [task EXCEPT ![p] = u] /\ UNCHANGED <<leases, lock>>
        BY <1>6, <3>2 DEF WorkerRelease
      <4>2. task[p] \in Liftings
        BY <2>1, <3>2, TaskKinds DEF IInv, Shape, TypeOK
      <4>3. /\ u \in Liftings /\ u.pc = "drop"
            /\ u.todo = task[p].todo /\ u.lease = task[p].lease
        BY <4>2 DEF Liftings
      <4>4. u \in TaskStates
        BY <4>3 DEF Liftings, TaskStates
      <4> QED BY <3>2, <4>1, <4>3, <4>4
    <3> QED BY <2>2, <3>1, <3>2
  <2>6. task'[p] = t /\ \A o \in Procs \ {p} : task'[o] = task[o]
    BY <2>1, <2>5 DEF IInv, Shape, TypeOK
  <2>7. leases' \subseteq leases /\ t.pc \in {"idle", "drop"}
    BY <2>5 DEF Idle
  <2>8. /\ net' \in [Workers -> SUBSET Requests] /\ NetShape'
        /\ NothingIsLost => NothingIsLost'
    BY <1>1, <2>6, <2>7, Answered DEF Waiting, IInv, Shape
  <2>9. TypeOK'
    BY <1>1, <1>3, <2>5, <2>8 DEF IInv, Shape, TypeOK
  <2>10. CleanupShape'
    BY <1>1, <2>2, <2>5, <2>6 DEF IInv, Shape, CleanupShape, Procs, Idle
  <2>11. ASSUME load.faults = {} PROVE Tracked' /\ HeldIsKnown'
    <3>1. Tracked /\ HeldIsKnown
      BY <2>11 DEF IInv, Faultless
    <3>2. /\ \A l \in Leases : Carries(t, l) => Carries(task[p], l)
          /\ ~Started(p)'
      BY <2>2, <2>5, <2>6, <2>7 DEF Carries, Started, Idle
    <3>3. t.pc = "drop" => \A v \in Workers : \A q \in held'[v] : q.id # t.lease.id
      BY <2>3, <2>4, <2>5, <2>11 DEF Idle
    <3>4. Tracked'
      BY <1>1, <1>3, <2>1, <2>6, <2>7, <2>9, <3>1, <3>2, <3>3, IdsMove DEF IInv, Shape, TypeOK
    <3>5. HeldIsKnown'
      <4> SUFFICES ASSUME NEW v \in Workers, NEW q \in held'[v] PROVE Known(q)'
        BY DEF HeldIsKnown, Known
      <4>1. Known(q)
        BY <1>3, <2>11, <3>1 DEF HeldIsKnown, Known
      <4>2. q.id # r[2].id
        BY <2>4, <2>11
      <4> QED BY <2>2, <2>5, <2>6, <4>1, <4>2 DEF Known, PauseOf, Procs
    <3> QED BY <3>4, <3>5
  <2> QED BY <1>4, <2>8, <2>9, <2>10, <2>11 DEF IInv, Shape, Faultless
<1> QED BY <1>5, <1>6

-----------------------------------------------------------------------------
(* The specification *)

\* At the start nothing is held, asked for or on its way.
LEMMA InitHolds == Init => IInv
<1> SUFFICES ASSUME Init PROVE IInv
  OBVIOUS
<1> USE DEF Init
<1>1. 0 \in 0..MaxDetaches /\ 0 \in 0..MaxDetaches + 1 /\ 0 \in 0..MaxAcquires
  BY BoundAssumption
<1>2. InUse \subseteq Workers
  BY LoadType, SelectorAssumption DEF InUse
<1>3. conn \in [Conns -> Connections] /\ \A c \in Conns : conn[c].epoch = 0
  BY <1>1, <1>2 DEF Connections
<1>4. \A p \in Procs : task[p] = Idle /\ task[p].pc = "idle"
  BY DEF Idle
<1>5. TypeOK
  BY <1>1, <1>3 DEF TypeOK, Connections, TaskStates, Idle
<1>6. CleanupShape /\ NetShape
  BY <1>1, <1>3, <1>4 DEF CleanupShape, NetShape, Procs
<1>7. OnePausePerKey
  BY DEF OnePausePerKey
<1>8. Faultless
  BY <1>4 DEF Faultless, NothingIsLost, Tracked, IdsAgree, IdsCounted, IdsFresh, DroppedIsLifted,
              HeldIsKnown, At, LeasedAt, CarriedAt, Carries, Started, Waiting
<1> QED BY <1>5, <1>6, <1>7, <1>8 DEF IInv, Shape

\* Every step keeps the invariant.
LEMMA NextKeeps == IInv /\ [Next /\ UNCHANGED load]_<<vars, load>> => IInv'
<1> SUFFICES ASSUME IInv, [Next /\ UNCHANGED load]_<<vars, load>> PROVE IInv'
  OBVIOUS
<1>1. CASE UNCHANGED <<vars, load>>
  <2>1. TypeOK' /\ CleanupShape'
    BY <1>1 DEF vars, IInv, Shape, TypeOK, CleanupShape
  <2> QED BY <1>1, <2>1, EnvStep DEF vars
<1>2. CASE Next /\ UNCHANGED load
  <2>1. ASSUME NEW p \in Procs, Step(p) PROVE IInv'
    BY <1>2, <2>1, AcquireLookKeeps, AcquireSendKeeps, AcquireGiveUpKeeps, AcquireCompareKeeps,
       AcquireRecordKeeps, ReleaseGiveUpKeeps, DetachRouteKeeps, SnapshotKeeps, SweepNextKeeps,
       SweepGiveUpKeeps, SweepDropKeeps, SweepEndKeeps DEF Step
  <2>2. ASSUME NEW c \in Conns, Client(c) PROVE IInv'
    BY <1>2, <2>2, AcquireCheckKeeps, ReleaseStartKeeps, DetachStartKeeps, ReattachKeeps,
       DetachAllKeeps, LoopEndsKeeps DEF Client
  <2>3. ASSUME NEW c \in Conns, CleanupStart(c) PROVE IInv'
    BY <1>2, <2>3, CleanupStartKeeps
  <2>4. ASSUME NEW w \in Workers, Worker(w) PROVE IInv'
    BY <1>2, <2>4, WorkerAcquireKeeps, WorkerReleaseKeeps, WorkerLifeKeeps DEF Worker
  <2> QED BY <1>2, <2>1, <2>2, <2>3, <2>4 DEF Next
<1> QED BY <1>1, <1>2

\* The invariant holds of every run.
LEMMA Inductive == Spec => []IInv
BY InitHolds, NextKeeps, PTL DEF Spec

\* Every variable keeps its type, for any connections, workers, selectors,
\* keys and bounds, whatever goes wrong.
THEOREM TypeCorrect == Spec => []TypeOK
<1>1. IInv => TypeOK
  BY DEF IInv, Shape
<1> QED BY <1>1, Inductive, PTL

\* No retry, timeout, restart or race of commands pauses a session twice for a
\* key (InputPauseTable::acquire).
THEOREM KeyPausesOnce == Spec => []OnePausePerKey
<1>1. IInv => OnePausePerKey
  BY DEF IInv
<1> QED BY <1>1, Inductive, PTL

\* As long as nothing fails, the supervisor can lift every pause that a worker
\* holds, however the commands of its clients interleave: the table has it, or
\* an acquire is about to record it (acquire_session_input_pause).
THEOREM EveryPauseIsKnown == Spec => []HeldIsKnown
<1>1. IInv => HeldIsKnown
  BY DEF IInv, Faultless, HeldIsKnown
<1> QED BY <1>1, Inductive, PTL

=============================================================================
