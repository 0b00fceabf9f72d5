----------------------- MODULE InputPauseClientProofs -----------------------
(***************************************************************************)
(* What a client of InputPause can rely on while nothing fails and clients  *)
(* wait for their answers, for any connections, workers, keys and bounds:   *)
(* what it was told it holds it holds, and when it has left, a session or   *)
(* altogether, no worker is paused for it.  Builds on InputPauseProofs.     *)
(***************************************************************************)
EXTENDS InputPauseProofs

Acquires == {"checked", "send", "acquiring", "answered", "record"}
Detaches == {"route", "snapshot"}
Sweeps == {"sweep", "lifting", "drop"}

\* A task in this state works for connection c.
Serves(t, c) ==
  \/ t.pc \in Acquires \cup {"releasing"} /\ t.lease.conn = c
  \/ t.pc \in Detaches \cup Sweeps /\ t.conn = c

\* A polite client has one command in dispatch at most, and none once it has
\* left; then its cleanup runs.
AloneAt(c) ==
  /\ \A p, o \in Procs : Serves(task[p], c) /\ Serves(task[o], c) => p = o
  /\ conn[c].loop # "open" => \A p \in Tasks : ~Serves(task[p], c)
  /\ task[c] # Idle => Serves(task[c], c) /\ conn[c].loop = "closing"
  /\ conn[c].loop # "failed"

\* A sweep is over leases of its connection, and only a cleanup names no session.
SweepsOwn(c) ==
  \A p \in Procs : Serves(task[p], c) =>
    /\ task[p].pc \in Sweeps => \A l \in task[p].todo : l.conn = c
    /\ task[p].pc \in {"lifting", "drop"} => task[p].lease \in task[p].todo
    /\ task[p].pc \in Detaches => (task[p].sels = {} <=> p = c)

\* A recorded pause is held, until the sweep that lifted it drops its record.
LeasesHeld(c) ==
  \A l \in leases : l.conn = c =>
    \/ PauseOf(l) \in held[Resolve[l.sel]]
    \/ \E p \in Procs : Serves(task[p], c) /\ task[p].pc = "drop" /\ task[p].lease.id = l.id

\* So is one that a worker has answered and that is not recorded yet.
AnswersHeld(c) ==
  \A p \in Procs : Serves(task[p], c) /\ task[p].pc \in {"answered", "record"} =>
    PauseOf(task[p].lease) \in held[Resolve[task[p].lease.sel]]

GrantsHeld(c) == \A g \in granted : g.conn = c => PauseOf(g) \in held[Resolve[g.sel]]

\* A command that is going to lift a pause is one the client gave it back with;
\* with the connection it gave back all.
GivenBack(c) ==
  \A g \in granted : g.conn = c =>
    /\ conn[c].loop = "open"
    /\ \A p \in Procs : Serves(task[p], c) =>
         /\ task[p].pc = "releasing" => PauseOf(g) # PauseOf(task[p].lease)
         /\ task[p].pc \in Detaches =>
              task[p].sels # {} /\ \A s \in task[p].sels : Resolve[s] # Resolve[g.sel]
         /\ task[p].pc \in Sweeps => \A l \in task[p].todo : PauseOf(g) # PauseOf(l)

\* The sweep of a cleanup has all that is recorded, and leaves nothing.
Gathered(c) ==
  /\ task[c].pc \in Sweeps => \A l \in leases : l.conn = c => l \in task[c].todo
  /\ conn[c].loop = "closed" => \A l \in leases : l.conn # c

\* Task p is going to lift l, which is of session s.
Takes(p, s, l) ==
  \/ task[p].pc \in Detaches /\ (task[p].sels = {} \/ s \in task[p].sels)
  \/ task[p].pc \in Sweeps /\ l \in task[p].todo

\* When sessions are called by their ids: no acquire is under way for a session
\* that is marked, and its pauses are being lifted once it is detached.
Marked(c) ==
  /\ \A p \in Procs : Serves(task[p], c) =>
       /\ task[p].pc \in Acquires => task[p].lease.sel \in Workers \ conn[c].detaching
       /\ task[p].pc \in Detaches => task[p].sels \subseteq Workers
  /\ \A l \in leases : l.conn = c => l.sel \in Workers
  /\ \A s \in conn[c].detaching :
       s \in conn[c].attached \/ \A l \in leases : l.conn = c /\ l.sel = s =>
         \E p \in Procs : Serves(task[p], c) /\ Takes(p, s, l)
Marks(c) == load.sels \subseteq Workers => Marked(c)

ClientInv(c) ==
  /\ AloneAt(c) /\ SweepsOwn(c) /\ LeasesHeld(c) /\ AnswersHeld(c)
  /\ GrantsHeld(c) /\ GivenBack(c) /\ Gathered(c) /\ Marks(c)
CalmInv == IInv /\ (Calm => \A c \in Conns : ClientInv(c))

-----------------------------------------------------------------------------
(* Lemmas *)

\* While nothing fails all workers are there, and every answer comes.
LEMMA CalmFacts ==
  ASSUME IInv, Calm
  PROVE  /\ load.polite /\ load.faults = {}
         /\ NothingIsLost /\ Tracked /\ HeldIsKnown
         /\ \A w \in Workers : up[w] = "up"
         /\ \A p \in Procs : task[p].pc \in Waiting => ~GivesUp(p)
<1>1. load.polite /\ load.faults = {}
  BY DEF Calm
<1>2. NothingIsLost /\ Tracked /\ HeldIsKnown
  BY <1>1 DEF IInv, Faultless
<1>3. ASSUME NEW p \in Procs, task[p].pc \in Waiting PROVE ~GivesUp(p)
  BY <1>1, <1>2, <1>3 DEF GivesUp, NothingIsLost
<1> QED BY <1>1, <1>2, <1>3 DEF NothingIsLost

\* A task works for one connection.
LEMMA ServesOne ==
  ASSUME NEW t, NEW c, NEW d, Serves(t, c), Serves(t, d)
  PROVE  c = d
BY DEF Serves, Acquires, Detaches, Sweeps

\* A connection without a busy task is served by none.
LEMMA NotBusy ==
  ASSUME TypeOK, NEW c \in Conns, SweepsOwn(c), ~Busy(c)
  PROVE  \A p \in Procs : ~Serves(task[p], c)
<1> SUFFICES ASSUME NEW p \in Procs, Serves(task[p], c) PROVE ConnOf(p) = c
  BY DEF Busy
<1>1. task[p] \in TaskStates
  BY DEF TypeOK
<1>2. CASE task[p].pc \in Acquires \cup {"releasing"}
  <2>1. task[p].lease.conn = c
    BY <1>2 DEF Serves, Acquires, Detaches, Sweeps
  <2>2. task[p] \in Acquirings \/ task[p] \in Releasings
    BY <1>1, <1>2, TaskKinds DEF Acquires
  <2>3. "lease" \in DOMAIN task[p] /\ "conn" \notin DOMAIN task[p]
    BY <2>2 DEF Acquirings, Releasings
  <2> QED BY <2>1, <2>3 DEF ConnOf
<1>3. CASE task[p].pc \in Detaches \cup {"sweep"}
  <2>1. task[p].conn = c
    BY <1>3 DEF Serves, Acquires, Detaches, Sweeps
  <2>2. task[p] \in Detachings \/ task[p] \in Sweepings
    BY <1>1, <1>3, TaskKinds DEF Detaches
  <2>3. "conn" \in DOMAIN task[p] /\ "lease" \notin DOMAIN task[p]
    BY <2>2 DEF Detachings, Sweepings
  <2> QED BY <2>1, <2>3 DEF ConnOf
<1>4. CASE task[p].pc \in {"lifting", "drop"}
  <2>1. task[p].conn = c /\ task[p].lease.conn = c
    BY <1>4 DEF Serves, Acquires, Detaches, Sweeps, SweepsOwn
  <2>2. task[p] \in Liftings
    BY <1>1, <1>4, TaskKinds
  <2>3. "conn" \in DOMAIN task[p] /\ "lease" \in DOMAIN task[p]
    BY <2>2 DEF Liftings
  <2> QED BY <2>1, <2>3 DEF ConnOf
<1> QED BY <1>2, <1>3, <1>4 DEF Serves, Acquires, Detaches, Sweeps

\* A step of another connection.
LEMMA OtherClient ==
  ASSUME TypeOK, UNCHANGED load, NEW d \in Conns, ClientInv(d),
         \A o \in Procs : \/ task'[o] = task[o]
                          \/ o # d /\ ~Serves(task[o], d) /\ ~Serves(task'[o], d),
         conn'[d] = conn[d],
         \A l : l.conn = d => (l \in leases' <=> l \in leases),
         \A w \in Workers : \A q : q.conn = d => (q \in held'[w] <=> q \in held[w]),
         \A g : g.conn = d => (g \in granted' <=> g \in granted)
  PROVE  ClientInv(d)'
<1>1. d \in Procs /\ task'[d] = task[d] /\ \A p \in Tasks : p \in Procs
  BY DEF Procs
<1>2. \A o \in Procs : \/ task'[o] = task[o]
                       \/ ~Serves(task[o], d) /\ ~Serves(task'[o], d)
  OBVIOUS
<1>3. AloneAt(d)'
  BY <1>1, <1>2 DEF ClientInv, AloneAt, Serves
<1>4. SweepsOwn(d)'
  BY <1>2 DEF ClientInv, SweepsOwn, Serves
<1>5. \A l \in leases' : l.conn = d => l \in leases
  OBVIOUS
<1>6. \A g \in granted' : g.conn = d => g \in granted
  OBVIOUS
<1>7. \A l \in Leases : PauseOf(l).conn = l.conn /\ Resolve[l.sel] \in Workers
  BY PauseType DEF PauseOf
<1>8. LeasesHeld(d)'
  <2> SUFFICES ASSUME NEW l \in leases, l.conn = d
               PROVE  \/ PauseOf(l) \in held'[Resolve[l.sel]]
                      \/ \E p \in Procs : Serves(task'[p], d) /\ task'[p].pc = "drop" /\ task'[p].lease.id = l.id
    BY <1>5 DEF LeasesHeld, PauseOf
  <2>1. l \in Leases
    BY DEF TypeOK
  <2>2. CASE PauseOf(l) \in held[Resolve[l.sel]]
    BY <1>7, <2>1, <2>2
  <2>3. CASE PauseOf(l) \notin held[Resolve[l.sel]]
    BY <1>2, <2>3 DEF ClientInv, LeasesHeld
  <2> QED BY <2>2, <2>3
<1>9. AnswersHeld(d)'
  <2> SUFFICES ASSUME NEW p \in Procs, Serves(task[p], d), task[p].pc \in {"answered", "record"}
               PROVE  PauseOf(task[p].lease) \in held'[Resolve[task[p].lease.sel]]
    BY <1>2 DEF AnswersHeld, PauseOf
  <2>1. PauseOf(task[p].lease) \in held[Resolve[task[p].lease.sel]]
    BY DEF ClientInv, AnswersHeld
  <2>2. task[p].lease \in Leases /\ task[p].lease.conn = d
    BY TaskKinds DEF TypeOK, Acquirings, Serves, Acquires, Detaches, Sweeps
  <2> QED BY <1>7, <2>1, <2>2
<1>10. GrantsHeld(d)'
  <2> SUFFICES ASSUME NEW g \in granted, g.conn = d PROVE PauseOf(g) \in held'[Resolve[g.sel]]
    BY <1>6 DEF GrantsHeld, PauseOf
  <2> QED BY <1>7 DEF TypeOK, ClientInv, GrantsHeld
<1>11. GivenBack(d)'
  BY <1>2, <1>6 DEF ClientInv, GivenBack, PauseOf
<1>12. Gathered(d)'
  BY <1>1, <1>5 DEF ClientInv, Gathered
<1>13. Marks(d)'
  <2> SUFFICES ASSUME load.sels \subseteq Workers PROVE Marked(d)'
    BY DEF Marks
  <2>1. Marked(d)
    BY DEF ClientInv, Marks
  <2>2. \A p \in Procs : Serves(task'[p], d) =>
          /\ task'[p].pc \in Acquires => task'[p].lease.sel \in Workers \ conn'[d].detaching
          /\ task'[p].pc \in Detaches => task'[p].sels \subseteq Workers
    BY <1>2, <2>1 DEF Marked
  <2>3. \A l \in leases' : l.conn = d => l.sel \in Workers
    BY <1>5, <2>1 DEF Marked
  <2>4. ASSUME NEW s \in conn'[d].detaching, s \notin conn'[d].attached,
               NEW l \in leases', l.conn = d, l.sel = s
        PROVE  \E p \in Procs : (Serves(task[p], d) /\ Takes(p, s, l))'
    <3>1. PICK p \in Procs : Serves(task[p], d) /\ Takes(p, s, l)
      BY <1>5, <2>1, <2>4 DEF Marked
    <3>2. task'[p] = task[p]
      BY <1>2, <3>1
    <3> QED BY <3>1, <3>2 DEF Takes
  <2> QED BY <2>2, <2>3, <2>4 DEF Marked
<1> QED BY <1>3, <1>4, <1>8, <1>9, <1>10, <1>11, <1>12, <1>13 DEF ClientInv


\* A step of the one task of a connection, or of a task that begins to serve it,
\* leaves it with that task.
LEMMA OnlyTask ==
  ASSUME NEW c \in Conns, AloneAt(c), NEW p \in Procs,
         \A o \in Procs \ {p} : task'[o] = task[o],
         Serves(task[p], c) \/ \A o \in Procs : ~Serves(task[o], c)
  PROVE  \A o \in Procs : Serves(task'[o], c) => o = p
BY DEF AloneAt

\* A connection that no command and no cleanup is at work for.
LEMMA RestingClient ==
  ASSUME NEW c \in Conns,
         \A o \in Procs : ~Serves(task'[o], c), task'[c] = Idle,
         conn'[c].loop # "failed",
         \A l \in leases' : l.conn = c => PauseOf(l) \in held'[Resolve[l.sel]],
         GrantsHeld(c)', conn'[c].loop = "open" \/ \A g \in granted' : g.conn # c,
         conn'[c].loop = "closed" => \A l \in leases' : l.conn # c,
         load'.sels \subseteq Workers =>
           /\ \A l \in leases' : l.conn = c => l.sel \in Workers
           /\ \A s \in conn'[c].detaching :
                s \in conn'[c].attached \/ \A l \in leases' : l.conn = c => l.sel # s
  PROVE  ClientInv(c)'
<1>1. AloneAt(c)' /\ SweepsOwn(c)' /\ AnswersHeld(c)' /\ GivenBack(c)' /\ Marks(c)'
  BY DEF AloneAt, SweepsOwn, AnswersHeld, GivenBack, Marks, Marked, Serves, Procs
<1>2. LeasesHeld(c)'
  BY DEF LeasesHeld, PauseOf
<1>3. Gathered(c)'
  BY DEF Gathered, Idle, Sweeps
<1> QED BY <1>1, <1>2, <1>3 DEF ClientInv

\* A command that begins to acquire, or goes on.
LEMMA AcquiringClient ==
  ASSUME TypeOK, CleanupShape, NEW c \in Conns, ClientInv(c), NEW p \in Tasks,
         UNCHANGED <<load, leases, conn, granted>>,
         \A o \in Procs \ {p} : task'[o] = task[o],
         \/ Serves(task[p], c) /\ task[p].pc \in Acquires
         \/ conn[c].loop = "open" /\ \A o \in Procs : ~Serves(task[o], c),
         task'[p].pc \in Acquires, task'[p].lease.conn = c,
         \A w \in Workers : held[w] \subseteq held'[w],
         task'[p].pc \in {"answered", "record"} =>
           PauseOf(task'[p].lease) \in held'[Resolve[task'[p].lease.sel]],
         load.sels \subseteq Workers => task'[p].lease.sel \in Workers \ conn[c].detaching
  PROVE  ClientInv(c)'
<1> USE DEF ClientInv
<1>1. p \in Procs /\ c \in Procs /\ p # c /\ task'[c] = task[c] /\ conn[c].loop = "open"
  BY ProcessAssumption DEF Procs, AloneAt
<1>2. \A o \in Procs : Serves(task'[o], c) => o = p
  BY <1>1, OnlyTask
<1>3. AloneAt(c)'
  BY <1>1, <1>2 DEF AloneAt
<1>4. SweepsOwn(c)' /\ GivenBack(c)'
  BY <1>2 DEF SweepsOwn, GivenBack, Acquires, Detaches, Sweeps
<1>5. AnswersHeld(c)'
  BY <1>2 DEF AnswersHeld, PauseOf
<1>6. \A o \in Procs : Serves(task[o], c) => task[o].pc \in Acquires
  BY <1>1 DEF AloneAt
<1>7. LeasesHeld(c)'
  BY <1>6, PauseType DEF LeasesHeld, TypeOK, Acquires, PauseOf
<1>8. GrantsHeld(c)'
  BY PauseType DEF GrantsHeld, TypeOK, PauseOf
<1>9. Gathered(c)'
  BY <1>1 DEF Gathered
<1>10. Marks(c)'
  <2> SUFFICES ASSUME load.sels \subseteq Workers PROVE Marked(c)'
    BY DEF Marks
  <2>1. Marked(c)
    BY DEF Marks
  <2>2. \A o \in Procs : \A s, l : Serves(task[o], c) => ~Takes(o, s, l)
    BY <1>6 DEF Takes, Acquires, Detaches, Sweeps
  <2> QED BY <1>2, <2>1, <2>2 DEF Marked, Acquires, Detaches
<1> QED BY <1>3, <1>4, <1>5, <1>7, <1>8, <1>9, <1>10


\* A task that serves one connection before and after leaves the others alone.
LEMMA NotServed ==
  ASSUME NEW c, NEW d, c # d, NEW t, Serves(t, c) \/ t = Idle
  PROVE  ~Serves(t, d)
BY ServesOne DEF Serves, Idle, Acquires, Detaches, Sweeps

\* Commands are tasks of their own.
LEMMA TaskNotConn == \A p \in Tasks : p \in Procs /\ p \notin Conns
BY ProcessAssumption DEF Procs

\* The only task of a connection.
LEMMA SoleTask ==
  ASSUME TypeOK, NEW c \in Conns, \A d \in Conns : ClientInv(d), NEW p \in Procs, Serves(task[p], c)
  PROVE  /\ \A o \in Procs : Serves(task[o], c) => o = p
         /\ p \in Tasks => conn[c].loop = "open" /\ task[c] = Idle
         /\ p \notin Tasks => p = c /\ conn[c].loop = "closing"
<1>1. \A d \in Conns : AloneAt(d)
  BY DEF ClientInv
<1>2. \A o \in Procs : Serves(task[o], c) => o = p
  BY <1>1 DEF AloneAt
<1>3. p \in Tasks => conn[c].loop = "open" /\ task[c] = Idle
  BY <1>1 DEF AloneAt
<1>4. ASSUME p \notin Tasks PROVE p = c /\ conn[c].loop = "closing"
  <2>1. p \in Conns /\ task[p] # Idle
    BY <1>4 DEF Procs, Serves, Idle, Acquires, Detaches, Sweeps
  <2>2. Serves(task[p], p) /\ conn[p].loop = "closing"
    BY <1>1, <2>1 DEF AloneAt
  <2> QED BY <2>2, ServesOne
<1> QED BY <1>2, <1>3, <1>4

\* What holds of a connection that no task serves.
LEMMA QuietClient ==
  ASSUME NEW c \in Conns, ClientInv(c), \A o \in Procs : ~Serves(task[o], c)
  PROVE  /\ \A l \in leases : l.conn = c => PauseOf(l) \in held[Resolve[l.sel]]
         /\ task[c] = Idle
         /\ load.sels \subseteq Workers =>
              /\ \A l \in leases : l.conn = c => l.sel \in Workers
              /\ \A s \in conn[c].detaching :
                   s \in conn[c].attached \/ \A l \in leases : l.conn = c => l.sel # s
BY DEF ClientInv, LeasesHeld, AloneAt, Marks, Marked, Procs

\* A connection that one task serves, and that is not acquiring.
LEMMA ServedClient ==
  ASSUME NEW c \in Conns, NEW p \in Procs, NEW t, task'[p] = t,
         Serves(t, c), t.pc \notin Acquires,
         \A o \in Procs : Serves(task'[o], c) => o = p,
         IF p \in Tasks THEN conn'[c].loop = "open" /\ task'[c] = Idle
                       ELSE p = c /\ conn'[c].loop = "closing",
         t.pc \in Sweeps => \A l \in t.todo : l.conn = c,
         t.pc \in {"lifting", "drop"} => t.lease \in t.todo,
         t.pc \in Detaches => (t.sels = {} <=> p = c),
         \A l \in leases' : l.conn = c =>
           PauseOf(l) \in held'[Resolve[l.sel]] \/ (t.pc = "drop" /\ t.lease.id = l.id),
         GrantsHeld(c)',
         \A g \in granted' : g.conn = c =>
           /\ conn'[c].loop = "open"
           /\ t.pc = "releasing" => PauseOf(g) # PauseOf(t.lease)
           /\ t.pc \in Detaches => t.sels # {} /\ \A s \in t.sels : Resolve[s] # Resolve[g.sel]
           /\ t.pc \in Sweeps => \A l \in t.todo : PauseOf(g) # PauseOf(l),
         p = c /\ t.pc \in Sweeps => \A l \in leases' : l.conn = c => l \in t.todo,
         load'.sels \subseteq Workers =>
           /\ t.pc \in Detaches => t.sels \subseteq Workers
           /\ \A l \in leases' : l.conn = c => l.sel \in Workers
           /\ \A s \in conn'[c].detaching :
                s \in conn'[c].attached \/ \A l \in leases' : l.conn = c /\ l.sel = s =>
                  \/ t.pc \in Detaches /\ (t.sels = {} \/ s \in t.sels)
                  \/ t.pc \in Sweeps /\ l \in t.todo
  PROVE  ClientInv(c)'
<1>1. c \in Procs /\ p # Nobody /\ (p \in Tasks => p # c)
  BY ProcessAssumption DEF Procs
<1>2. AloneAt(c)'
  BY <1>1 DEF AloneAt, Procs
<1>3. SweepsOwn(c)' /\ AnswersHeld(c)'
  BY DEF SweepsOwn, AnswersHeld, Acquires
<1>4. LeasesHeld(c)'
  BY DEF LeasesHeld, PauseOf
<1>5. GivenBack(c)'
  BY DEF GivenBack, PauseOf
<1>6. Gathered(c)'
  BY <1>1 DEF Gathered, Idle, Sweeps
<1>7. Marks(c)'
  BY DEF Marks, Marked, Takes
<1> QED BY <1>2, <1>3, <1>4, <1>5, <1>6, <1>7 DEF ClientInv

-----------------------------------------------------------------------------
(* acquire_session_input_pause *)

\* The detach marks keep new acquires away from a marked session.
LEMMA AcquireCheckClients ==
  ASSUME CalmInv, Calm, UNCHANGED load, NEW c \in Conns, NEW p \in Tasks, NEW s \in load.sels,
         NEW k \in load.keys, AcquireCheck(c, p, s, k)
  PROVE  \A d \in Conns : ClientInv(d)'
<1> DEFINE l == [id |-> asked', conn |-> c, sel |-> s, key |-> k]
           t == [pc |-> "checked", lease |-> l, epoch |-> 0, valid |-> TRUE]
<1>1. /\ IInv /\ TypeOK /\ CleanupShape /\ load.polite
      /\ \A d \in Conns : ClientInv(d)
  BY DEF CalmInv, IInv, Shape, Calm
<1>2. /\ conn[c].loop = "open" /\ ~Busy(c) /\ task[p] = Idle
      /\ {s, Resolve[s]} \cap conn[c].detaching = {}
      /\ task' = [task EXCEPT ![p] = t]
      /\ UNCHANGED <<leases, conn, held, granted>>
  BY <1>1 DEF AcquireCheck, Speaks
<1>3. \A o \in Procs : ~Serves(task[o], c)
  BY <1>1, <1>2, NotBusy DEF ClientInv
<1>4. p \in Procs /\ p \notin Conns /\ \A o \in Procs \ {p} : task'[o] = task[o]
  BY <1>1, <1>2, TaskNotConn DEF TypeOK
<1>5. task'[p] = t /\ t.pc = "checked" /\ t.lease = l /\ l.conn = c /\ l.sel = s /\ Serves(t, c)
  BY <1>1, <1>2, <1>4 DEF TypeOK, Serves, Acquires
<1> HIDE DEF t, l
<1>6. ClientInv(c)'
  BY <1>1, <1>2, <1>3, <1>4, <1>5, AcquiringClient DEF Acquires
<1>7. ASSUME NEW d \in Conns, d # c PROVE ClientInv(d)'
  BY <1>1, <1>2, <1>4, <1>5, <1>7, NotServed, OtherClient
<1> QED BY <1>6, <1>7

\* Steps of an acquire that leave the table and the clients alone.
LEMMA AcquiringMoveClients ==
  ASSUME CalmInv, Calm, UNCHANGED <<load, leases, conn, held, granted>>, NEW p \in Procs,
         task[p] \in Acquirings, \A o \in Procs \ {p} : task'[o] = task[o],
         task'[p].pc \in Acquires, task'[p].lease = task[p].lease,
         task'[p].pc \in {"answered", "record"} => task[p].pc \in {"answered", "record"}
  PROVE  \A d \in Conns : ClientInv(d)'
<1> DEFINE c == task[p].lease.conn
<1>1. /\ IInv /\ TypeOK /\ CleanupShape
      /\ \A d \in Conns : ClientInv(d)
  BY DEF CalmInv, IInv, Shape
<1>2. /\ task[p].pc \in Acquires /\ c \in Conns /\ p \in Tasks /\ p \notin Conns
      /\ task[p].lease \in Leases
  BY <1>1, Commands DEF Acquirings, Acquires, Leases
<1>3. Serves(task[p], c) /\ Serves(task'[p], c)
  BY <1>2 DEF Serves
<1>4. ClientInv(c)'
  <2>1. task'[p].pc \in {"answered", "record"} =>
          PauseOf(task'[p].lease) \in held'[Resolve[task'[p].lease.sel]]
    BY <1>1, <1>2, <1>3 DEF ClientInv, AnswersHeld
  <2>2. load.sels \subseteq Workers => task'[p].lease.sel \in Workers \ conn[c].detaching
    BY <1>1, <1>2, <1>3 DEF ClientInv, Marks, Marked
  <2> QED BY <1>1, <1>2, <1>3, <2>1, <2>2, AcquiringClient
<1>5. ASSUME NEW d \in Conns, d # c PROVE ClientInv(d)'
  BY <1>1, <1>2, <1>3, <1>5, NotServed, OtherClient
<1> QED BY <1>4, <1>5

\* A known key answers the pause it has; otherwise the epoch is read.
LEMMA AcquireLookClients ==
  ASSUME CalmInv, Calm, UNCHANGED load, NEW p \in Procs, AcquireLook(p)
  PROVE  \A d \in Conns : ClientInv(d)'
<1>1. /\ IInv /\ TypeOK /\ CleanupShape
      /\ \A d \in Conns : ClientInv(d)
  BY DEF CalmInv, IInv, Shape
<1>2. /\ task[p].pc = "checked" /\ task[p] \in Acquirings /\ task[p].lease \in Leases
      /\ p \in Tasks /\ p \notin Conns
      /\ UNCHANGED <<leases, lock, conn, held, net, up, asked>>
  BY <1>1, TaskKinds, Commands DEF AcquireLook, TypeOK, Acquirings
<1> PICK l \in Leases : l = task[p].lease
  BY <1>2
<1> PICK c \in Conns : c = l.conn
  BY DEF Leases
<1>3. Serves(task[p], c)
  BY <1>2 DEF Serves, Acquires
<1>4. ASSUME task' = [task EXCEPT ![p] = Idle],
             NEW e \in leases, e.conn = l.conn, e.key = l.key, Resolve[e.sel] = Resolve[l.sel],
             granted' = granted \cup {[l EXCEPT !.id = e.id]}
      PROVE  \A d \in Conns : ClientInv(d)'
  <2> DEFINE g == [l EXCEPT !.id = e.id]
  <2>1. e \in Leases /\ PauseOf(g) = PauseOf(e) /\ g.conn = c /\ Resolve[g.sel] = Resolve[e.sel]
    BY <1>1, <1>2, <1>4 DEF TypeOK, Leases, PauseOf
  <2> HIDE DEF g
  <2>2. task'[p] = Idle /\ \A o \in Procs \ {p} : task'[o] = task[o]
    BY <1>1, <1>4 DEF TypeOK
  <2>3. ASSUME NEW d \in Conns, d # c PROVE ClientInv(d)'
    BY <1>1, <1>2, <1>3, <1>4, <2>1, <2>2, <2>3, NotServed, OtherClient DEF g
  <2>4. \A o \in Procs : Serves(task[o], c) => o = p
    BY <1>1, <1>3 DEF ClientInv, AloneAt
  <2>5. \A o \in Procs : ~Serves(task'[o], c)
    BY <2>2, <2>4 DEF Serves, Idle, Acquires, Detaches, Sweeps
  <2>6. conn[c].loop = "open" /\ task'[c] = Idle
    <3>1. conn[c].loop = "open"
      BY <1>1, <1>2, <1>3 DEF ClientInv, AloneAt
    <3>2. task[c] = Idle
      BY <1>1, <3>1 DEF ClientInv, AloneAt
    <3> QED BY <1>2, <2>2, <3>1, <3>2 DEF Procs
  <2>7. \A x \in leases : x.conn = c => PauseOf(x) \in held[Resolve[x.sel]]
    BY <1>1, <1>2, <2>4 DEF ClientInv, LeasesHeld
  <2>8. GrantsHeld(c)'
    <3> SUFFICES ASSUME NEW h \in granted', h.conn = c PROVE PauseOf(h) \in held[Resolve[h.sel]]
      BY <1>2 DEF GrantsHeld, PauseOf
    <3>1. CASE h \in granted
      BY <1>1, <3>1 DEF ClientInv, GrantsHeld
    <3>2. CASE h = g
      BY <1>4, <2>1, <2>7, <3>2
    <3> QED BY <1>4, <3>1, <3>2 DEF g
  <2>9. load.sels \subseteq Workers =>
           /\ \A x \in leases : x.conn = c => x.sel \in Workers
           /\ \A s \in conn[c].detaching :
                s \in conn[c].attached \/ \A x \in leases : x.conn = c => x.sel # s
    BY <1>1, <1>2, <2>4 DEF ClientInv, Marks, Marked, Takes, Detaches, Sweeps
  <2>10. ClientInv(c)'
    BY <1>2, <2>5, <2>6, <2>7, <2>8, <2>9, RestingClient DEF PauseOf
  <2> QED BY <2>3, <2>10
<1>5. CASE /\ task' = [task EXCEPT ![p].pc = "send", ![p].epoch = conn[c].epoch]
           /\ UNCHANGED granted
  <2> DEFINE u == [task[p] EXCEPT !.pc = "send"]
             v == [u EXCEPT !.epoch = conn[c].epoch]
  <2>1. u \in Acquirings /\ u.pc = "send" /\ u.lease = l
    BY <1>2, AcquiringMoves
  <2>2. conn[c].epoch \in 0..MaxDetaches + 1
    BY <1>1, <1>2 DEF TypeOK
  <2>3. v.pc = "send" /\ v.lease = l
    BY <2>1, <2>2, EpochRead
  <2>4. task'[p] = v /\ \A o \in Procs \ {p} : task'[o] = task[o]
    BY <1>1, <1>5 DEF TypeOK
  <2> HIDE DEF u, v
  <2> QED BY <1>2, <1>5, <2>3, <2>4, AcquiringMoveClients DEF Acquires
<1> QED BY <1>4, <1>5 DEF AcquireLook


\* The request goes out; nothing refuses it.
LEMMA AcquireSendClients ==
  ASSUME CalmInv, Calm, UNCHANGED load, NEW p \in Procs, AcquireSend(p)
  PROVE  \A d \in Conns : ClientInv(d)'
<1> DEFINE u == [task[p] EXCEPT !.pc = "acquiring"]
<1>1. IInv /\ TypeOK
  BY DEF CalmInv, IInv, Shape
<1>2. task[p].pc = "send" /\ task[p] \in Acquirings /\ task[p].lease \in Leases
  BY <1>1, TaskKinds DEF AcquireSend, TypeOK, Acquirings
<1>3. ~Refused(task[p].lease)
  BY <1>1, <1>2, CalmFacts, PauseType DEF Refused
<1>4. task' = [task EXCEPT ![p] = u] /\ UNCHANGED <<leases, conn, held, granted>>
  BY <1>3 DEF AcquireSend, Send
<1>5. u.pc = "acquiring" /\ u.lease = task[p].lease
  BY <1>2, AcquiringMoves
<1>6. task'[p] = u /\ \A o \in Procs \ {p} : task'[o] = task[o]
  BY <1>1, <1>4 DEF TypeOK
<1> HIDE DEF u
<1> QED BY <1>2, <1>4, <1>5, <1>6, AcquiringMoveClients DEF Acquires

\* The answer is here; the pause is held since.
LEMMA AcquireCompareClients ==
  ASSUME CalmInv, Calm, UNCHANGED load, NEW p \in Procs, AcquireCompare(p)
  PROVE  \A d \in Conns : ClientInv(d)'
<1> DEFINE v == conn[task[p].lease.conn].epoch = task[p].epoch
           u == [task[p] EXCEPT !.pc = "record"]
           t == [u EXCEPT !.valid = v]
<1>1. IInv /\ TypeOK
  BY DEF CalmInv, IInv, Shape
<1>2. task[p].pc = "answered" /\ task[p] \in Acquirings
  BY <1>1, TaskKinds DEF AcquireCompare, TypeOK
<1>3. task' = [task EXCEPT ![p] = t] /\ UNCHANGED <<leases, conn, held, granted>>
  BY DEF AcquireCompare
<1>4. u \in Acquirings /\ u.pc = "record" /\ u.lease = task[p].lease
  BY <1>2, AcquiringMoves
<1>5. v \in BOOLEAN
  OBVIOUS
<1> HIDE DEF u, v
<1>6. LET x == [u EXCEPT !.valid = v] IN x \in Acquirings /\ x.pc = u.pc /\ x.lease = u.lease
  BY <1>4, <1>5, EpochCompared
<1>7. t.pc = "record" /\ t.lease = task[p].lease
  BY <1>4, <1>6
<1>8. task'[p] = t /\ \A o \in Procs \ {p} : task'[o] = task[o]
  BY <1>1, <1>3 DEF TypeOK
<1> HIDE DEF t
<1> QED BY <1>2, <1>3, <1>7, <1>8, AcquiringMoveClients DEF Acquires

\* A record under the id that a task carries is of the same pause.
LEMMA SameId ==
  ASSUME TypeOK, Tracked, NEW p \in Procs, NEW l \in Leases, Carries(task[p], l),
         NEW e \in leases, e.id = l.id
  PROVE  PauseOf(e) = PauseOf(l) /\ e.conn = l.conn /\ Resolve[e.sel] = Resolve[l.sel]
<1>1. e \in Leases
  BY DEF TypeOK
<1>2. Spot(l, Resolve[l.sel], PauseOf(l)) /\ Spot(e, Resolve[e.sel], PauseOf(e))
  BY DEF Spot
<1>3. At(Resolve[l.sel], PauseOf(l)) /\ At(Resolve[e.sel], PauseOf(e))
  BY <1>2 DEF At, LeasedAt, CarriedAt
<1>4. PauseOf(l) = PauseOf(e) /\ Resolve[e.sel] = Resolve[l.sel]
  BY <1>1, <1>3, PauseType DEF Tracked, IdsAgree, PauseOf
<1> QED BY <1>4 DEF PauseOf

\* What is recorded and what the client is told is held.
LEMMA AcquireRecordClients ==
  ASSUME CalmInv, Calm, UNCHANGED load, NEW p \in Procs, AcquireRecord(p)
  PROVE  \A d \in Conns : ClientInv(d)'
<1>1. /\ IInv /\ TypeOK /\ CleanupShape /\ Tracked
      /\ \A d \in Conns : ClientInv(d)
  BY CalmFacts DEF CalmInv, IInv, Shape
<1> PICK l \in Leases : l = task[p].lease
  BY <1>1, TaskKinds DEF AcquireRecord, TypeOK, Acquirings
<1> PICK c \in Conns : c = l.conn
  BY DEF Leases
<1>2. /\ task[p].pc = "record" /\ p \in Tasks /\ p \notin Conns
      /\ task' = [task EXCEPT ![p] = Idle]
      /\ UNCHANGED <<conn, held>>
      /\ leases' = {e \in leases : e.id # l.id} \cup {l}
      /\ granted' \subseteq granted \cup {l} /\ granted \subseteq granted'
  BY <1>1, Commands DEF AcquireRecord, Recorded
<1>3. Serves(task[p], c) /\ Carries(task[p], l)
  BY <1>2 DEF Serves, Acquires, Carries
<1>4. task'[p] = Idle /\ \A o \in Procs \ {p} : task'[o] = task[o]
  BY <1>1, <1>2 DEF TypeOK
<1>5. \A e \in leases : e.id = l.id => e.conn = c
  BY <1>1, <1>3, SameId
<1>6. ASSUME NEW d \in Conns, d # c PROVE ClientInv(d)'
  BY <1>1, <1>2, <1>3, <1>4, <1>5, <1>6, NotServed, OtherClient
<1>7. \A o \in Procs : Serves(task[o], c) => o = p
  BY <1>1, <1>3 DEF ClientInv, AloneAt
<1>8. \A o \in Procs : ~Serves(task'[o], c)
  BY <1>4, <1>7 DEF Serves, Idle, Acquires, Detaches, Sweeps
<1>9. conn[c].loop = "open"
  BY <1>1, <1>2, <1>3 DEF ClientInv, AloneAt
<1>10. task'[c] = Idle
  BY <1>1, <1>2, <1>4, <1>9 DEF ClientInv, AloneAt, Procs
<1>11. \A x \in leases' : x.conn = c => PauseOf(x) \in held[Resolve[x.sel]]
  <2>1. PauseOf(l) \in held[Resolve[l.sel]]
    BY <1>1, <1>2, <1>3 DEF ClientInv, AnswersHeld
  <2>2. \A x \in leases : x.conn = c => PauseOf(x) \in held[Resolve[x.sel]]
    BY <1>1, <1>2, <1>7 DEF ClientInv, LeasesHeld
  <2> QED BY <1>2, <2>1, <2>2
<1>12. GrantsHeld(c)'
  <2> SUFFICES ASSUME NEW h \in granted', h.conn = c PROVE PauseOf(h) \in held[Resolve[h.sel]]
    BY <1>2 DEF GrantsHeld, PauseOf
  <2>1. CASE h \in granted
    BY <1>1, <2>1 DEF ClientInv, GrantsHeld
  <2>2. CASE h = l
    BY <1>2, <1>11, <2>2
  <2> QED BY <1>2, <2>1, <2>2
<1>13. ASSUME load.sels \subseteq Workers
       PROVE  /\ \A x \in leases' : x.conn = c => x.sel \in Workers
              /\ \A s \in conn[c].detaching :
                   s \in conn[c].attached \/ \A x \in leases' : x.conn = c => x.sel # s
  <2>1. Marked(c)
    BY <1>1, <1>13 DEF ClientInv, Marks
  <2>2. l.sel \in Workers \ conn[c].detaching
    BY <1>2, <1>3, <2>1 DEF Marked, Acquires
  <2>3. \A s, x : ~(\E o \in Procs : Serves(task[o], c) /\ Takes(o, s, x))
    BY <1>2, <1>7 DEF Takes, Detaches, Sweeps
  <2> QED BY <1>2, <2>1, <2>2, <2>3 DEF Marked
<1>14. ClientInv(c)'
  BY <1>2, <1>8, <1>9, <1>10, <1>11, <1>12, <1>13, RestingClient DEF PauseOf
<1> QED BY <1>6, <1>14

\* The worker answers with a pause it holds.
LEMMA WorkerAcquireClients ==
  ASSUME CalmInv, Calm, UNCHANGED load, NEW w \in Workers, NEW r \in net[w], WorkerAcquire(w, r)
  PROVE  \A d \in Conns : ClientInv(d)'
<1>1. /\ IInv /\ TypeOK /\ CleanupShape /\ NothingIsLost
      /\ \A d \in Conns : ClientInv(d)
  BY CalmFacts DEF CalmInv, IInv, Shape
<1>2. r \in Requests /\ r[2] \in Pauses /\ r[1].by \in Procs /\ r[1].op = "acquire"
      /\ Asks(r, w, task[r[1].by])
  BY <1>1, ProcessAssumption DEF WorkerAcquire, NothingIsLost, IInv, Shape, NetShape, TypeOK, Requests
<1> PICK p \in Procs : p = r[1].by
  BY <1>2
<1>3. PICK q \in (IF Existing(w, r[2]) = {} THEN {r[2]} ELSE Existing(w, r[2])) :
        /\ held' = [held EXCEPT ![w] = @ \cup {q}]
        /\ task' = [task EXCEPT ![p].pc = "answered", ![p].lease.id = q.id]
  BY <1>2, ProcessAssumption DEF WorkerAcquire, Procs
<1>4. /\ q \in Pauses /\ q.conn = r[2].conn /\ q.key = r[2].key
      /\ UNCHANGED <<leases, conn, granted>>
  BY <1>1, <1>2, <1>3 DEF Existing, TypeOK, WorkerAcquire
<1>5. task[p].pc = "acquiring" /\ Resolve[task[p].lease.sel] = w /\ PauseOf(task[p].lease) = r[2]
  BY <1>2 DEF Asks
<1>6. task[p] \in Acquirings /\ task[p].lease \in Leases /\ p \in Tasks /\ p \notin Conns
  BY <1>1, <1>5, TaskKinds, Commands DEF TypeOK, Acquirings
<1> DEFINE u == [task[p] EXCEPT !.pc = "answered"]
           l == [u.lease EXCEPT !.id = q.id]
           x == [u EXCEPT !.lease = l]
<1>7. u \in Acquirings /\ u.pc = "answered" /\ u.lease = task[p].lease
  BY <1>6, AcquiringMoves
<1>8. task'[p] = x /\ \A o \in Procs \ {p} : task'[o] = task[o]
  BY <1>1, <1>3 DEF TypeOK
<1> HIDE DEF u
<1>17. q.id \in Ids
  BY <1>4 DEF Pauses
<1>18. LET k == [u.lease EXCEPT !.id = q.id]
           y == [u EXCEPT !.lease = k]
       IN /\ y \in Acquirings /\ y.pc = u.pc /\ y.lease = k /\ k \in Leases
          /\ k.id = q.id /\ k.conn = u.lease.conn /\ k.sel = u.lease.sel /\ k.key = u.lease.key
  BY <1>7, <1>17, IdAnswered
<1>9. /\ x.pc = "answered" /\ x.lease = l /\ l \in Leases /\ l.id = q.id
      /\ l.conn = task[p].lease.conn /\ l.sel = task[p].lease.sel /\ l.key = task[p].lease.key
  BY <1>7, <1>18
<1> HIDE DEF x, l
<1>10. PauseOf(l) = q /\ Resolve[l.sel] = w /\ q \in held'[w]
  BY <1>1, <1>3, <1>4, <1>5, <1>9 DEF PauseOf, Pauses, TypeOK
<1>11. \A v \in Workers : held'[v] = IF v = w THEN held[w] \cup {q} ELSE held[v]
  BY <1>1, <1>3 DEF TypeOK
<1> PICK c \in Conns : c = task[p].lease.conn
  BY <1>6 DEF Leases
<1>12. Serves(task[p], c) /\ Serves(x, c)
  BY <1>5, <1>9 DEF Serves, Acquires
<1>13. load.sels \subseteq Workers => l.sel \in Workers \ conn[c].detaching
  BY <1>1, <1>5, <1>9, <1>12 DEF ClientInv, Marks, Marked, Acquires
<1>14. ClientInv(c)'
  <2>1. /\ task[p].pc \in Acquires /\ Serves(task[p], c)
        /\ task'[p].pc \in Acquires /\ task'[p].lease = l /\ l.conn = c
    BY <1>5, <1>8, <1>9, <1>12 DEF Acquires
  <2>2. \A v \in Workers : held[v] \subseteq held'[v]
    BY <1>11
  <2>3. PauseOf(l) \in held'[Resolve[l.sel]]
    BY <1>10
  <2> QED BY <1>1, <1>4, <1>6, <1>8, <1>13, <2>1, <2>2, <2>3, AcquiringClient
<1>15. q.conn = c
  BY <1>9, <1>10 DEF PauseOf
<1>16. ASSUME NEW d \in Conns, d # c PROVE ClientInv(d)'
  BY <1>1, <1>4, <1>6, <1>8, <1>11, <1>12, <1>15, <1>16, NotServed, OtherClient
<1> QED BY <1>14, <1>16

-----------------------------------------------------------------------------
(* release_session_input_pause *)

\* The client has given the pause back when the call to lift it goes out.
LEMMA ReleaseStartClients ==
  ASSUME CalmInv, Calm, UNCHANGED load, NEW c \in Conns, NEW p \in Tasks, NEW s \in load.sels,
         NEW i \in Ids, ReleaseStart(c, p, s, i)
  PROVE  \A d \in Conns : ClientInv(d)'
<1>1. /\ IInv /\ TypeOK /\ CleanupShape /\ load.polite
      /\ \A w \in Workers : up[w] = "up"
      /\ \A d \in Conns : ClientInv(d)
  BY CalmFacts DEF CalmInv, IInv, Shape
<1>2. PICK l \in leases :
        /\ l.id = i /\ l.conn = c /\ up[Resolve[l.sel]] # "gone"
        /\ task' = [task EXCEPT ![p] = [pc |-> "releasing", lease |-> l]]
        /\ UNCHANGED leases
  <2>1. PICK l \in leases :
          /\ l.id = i /\ Releasable(l, c, s)
          /\ \/ up[Resolve[l.sel]] = "gone"
             \/ /\ task' = [task EXCEPT ![p] = [pc |-> "releasing", lease |-> l]]
                /\ UNCHANGED leases
    BY DEF ReleaseStart
  <2>2. up[Resolve[l.sel]] = "up"
    BY <1>1, PauseType DEF TypeOK
  <2> QED BY <2>1, <2>2 DEF Releasable
<1>3. /\ conn[c].loop = "open" /\ ~Busy(c) /\ task[p] = Idle
      /\ granted' = {g \in granted : ~(g.id = i /\ g.conn = c)}
      /\ UNCHANGED <<conn, held>>
  BY <1>1 DEF ReleaseStart, Speaks
<1> DEFINE t == [pc |-> "releasing", lease |-> l]
<1>4. \A o \in Procs : ~Serves(task[o], c)
  BY <1>1, <1>3, NotBusy DEF ClientInv
<1>5. p \in Procs /\ p \notin Conns /\ task'[p] = t /\ \A o \in Procs \ {p} : task'[o] = task[o]
  BY <1>1, <1>2, TaskNotConn DEF TypeOK
<1>6. t.pc = "releasing" /\ t.lease = l /\ Serves(t, c)
  BY <1>2 DEF Serves, Acquires, Detaches, Sweeps
<1> HIDE DEF t
<1>7. task[c] = Idle /\ task'[c] = Idle
  BY <1>1, <1>4, <1>5, QuietClient DEF Procs
<1>8. GrantsHeld(c)'
  BY <1>1, <1>3 DEF ClientInv, GrantsHeld, PauseOf
<1>9. \A g \in granted' : g.conn = c => PauseOf(g) # PauseOf(l)
  BY <1>2, <1>3 DEF PauseOf
<1>10. ClientInv(c)'
  <2>1. \A o \in Procs : Serves(task'[o], c) => o = p
    BY <1>4, <1>5
  <2>2. t.pc \notin Acquires \cup Detaches \cup Sweeps \cup {"drop"}
    BY <1>6 DEF Acquires, Detaches, Sweeps
  <2>3. /\ \A x \in leases' : x.conn = c => PauseOf(x) \in held'[Resolve[x.sel]]
        /\ load'.sels \subseteq Workers =>
             /\ \A x \in leases' : x.conn = c => x.sel \in Workers
             /\ \A m \in conn'[c].detaching :
                  m \in conn'[c].attached \/ \A x \in leases' : x.conn = c => x.sel # m
    BY <1>1, <1>2, <1>3, <1>4, QuietClient
  <2>4. /\ IF p \in Tasks THEN conn'[c].loop = "open" /\ task'[c] = Idle
                          ELSE p = c /\ conn'[c].loop = "closing"
        /\ \A g \in granted' : g.conn = c =>
             conn'[c].loop = "open" /\ PauseOf(g) # PauseOf(t.lease)
    BY <1>3, <1>6, <1>7, <1>9
  <2> QED BY <1>5, <1>6, <1>8, <2>1, <2>2, <2>3, <2>4, ServedClient DEF Sweeps
<1>11. ASSUME NEW d \in Conns, d # c PROVE ClientInv(d)'
  BY <1>1, <1>2, <1>3, <1>5, <1>6, <1>11, NotServed, OtherClient
<1> QED BY <1>10, <1>11

\* A pause is lifted for the client that gave it back; the others stay.
LEMMA WorkerReleaseClients ==
  ASSUME CalmInv, Calm, UNCHANGED load, NEW w \in Workers, NEW r \in net[w], WorkerRelease(w, r)
  PROVE  \A d \in Conns : ClientInv(d)'
<1>1. /\ IInv /\ TypeOK /\ CleanupShape /\ NothingIsLost /\ Tracked
      /\ \A d \in Conns : ClientInv(d)
  BY CalmFacts DEF CalmInv, IInv, Shape
<1>2. /\ r \in Requests /\ r[2] \in Pauses /\ r[1].by \in Procs /\ r[1].op = "release"
      /\ r[1].by # Nobody /\ Asks(r, w, task[r[1].by])
  BY <1>1, ProcessAssumption DEF WorkerRelease, NothingIsLost, IInv, Shape, NetShape, TypeOK, Requests, Procs
<1> PICK p \in Procs : p = r[1].by
  BY <1>2
<1> PICK q \in Pauses : q = r[2]
  BY <1>2
<1>3. /\ held' = [held EXCEPT ![w] = {e \in @ : ~(e.id = q.id /\ e.conn = q.conn)}]
      /\ UNCHANGED <<conn, granted>>
  BY DEF WorkerRelease
<1>4. \/ /\ task[p].pc = "releasing" /\ task' = [task EXCEPT ![p] = Idle]
         /\ leases' = {l \in leases : l.id # q.id}
      \/ /\ task[p].pc = "lifting" /\ task' = [task EXCEPT ![p].pc = "drop"]
         /\ UNCHANGED leases
  BY <1>2 DEF WorkerRelease, Asks
<1>5. Resolve[task[p].lease.sel] = w /\ PauseOf(task[p].lease) = q
  BY <1>2 DEF Asks
<1>6. task[p] \in Releasings \cup Liftings /\ task[p].lease \in Leases
  BY <1>1, <1>4, TaskKinds DEF TypeOK, Releasings, Liftings
<1> PICK k \in Leases : k = task[p].lease
  BY <1>6
<1>7. k.id = q.id /\ k.conn = q.conn /\ PauseOf(k) = q /\ Carries(task[p], k) /\ k.conn \in Conns
  BY <1>4, <1>5 DEF PauseOf, Carries, Leases
<1> PICK c \in Conns : c = k.conn
  BY <1>7
<1>8. Serves(task[p], c)
  <2>1. CASE task[p].pc = "releasing"
    BY <2>1 DEF Serves
  <2>2. CASE task[p].pc = "lifting"
    <3>1. task[p].conn \in Conns /\ Serves(task[p], task[p].conn)
      BY <1>6, <2>2 DEF Liftings, Releasings, Serves, Sweeps
    <3>2. k.conn = task[p].conn
      BY <1>1, <2>2, <3>1 DEF ClientInv, SweepsOwn, Sweeps
    <3> QED BY <3>1, <3>2
  <2> QED BY <1>4, <2>1, <2>2
<1>9. \A v \in Workers : held'[v] =
        IF v = w THEN {e \in held[w] : ~(e.id = q.id /\ e.conn = q.conn)} ELSE held[v]
  BY <1>1, <1>3 DEF TypeOK
<1>10. ASSUME NEW v \in Workers, NEW x \in held[v], x # q PROVE x \in held'[v]
  <2>1. Spot(k, w, q)
    BY <1>5, <1>7 DEF Spot
  <2>2. At(w, q) /\ At(v, x) /\ x \in Pauses
    BY <1>1, <1>7, <2>1 DEF At, CarriedAt, TypeOK
  <2>3. x.id # q.id
    BY <1>1, <1>10, <2>2 DEF Tracked, IdsAgree
  <2> QED BY <1>9, <2>3
<1>11. \A o \in Procs \ {p} : task'[o] = task[o]
  BY <1>1, <1>4 DEF TypeOK
<1>12. /\ \A o \in Procs : Serves(task[o], c) => o = p
       /\ p \in Tasks => conn[c].loop = "open" /\ task[c] = Idle
       /\ p \notin Tasks => p = c /\ conn[c].loop = "closing"
  BY <1>1, <1>8, SoleTask
<1>13. \A x \in leases : x.conn = c => PauseOf(x) \in held[Resolve[x.sel]] /\ Resolve[x.sel] \in Workers
  BY <1>1, <1>4, <1>12, PauseType DEF ClientInv, LeasesHeld, TypeOK
<1>14. \A g \in granted : g.conn = c => PauseOf(g) # q
  <2>1. CASE task[p].pc = "releasing"
    BY <1>1, <1>7, <1>8, <2>1 DEF ClientInv, GivenBack
  <2>2. CASE task[p].pc = "lifting"
    <3>1. k \in task[p].todo
      BY <1>1, <1>8, <2>2 DEF ClientInv, SweepsOwn
    <3> QED BY <1>1, <1>7, <1>8, <2>2, <3>1 DEF ClientInv, GivenBack, Sweeps
  <2> QED BY <1>4, <2>1, <2>2
<1>15. GrantsHeld(c)'
  BY <1>1, <1>3, <1>10, <1>14, PauseType DEF ClientInv, GrantsHeld, TypeOK, PauseOf
<1>16. \A x \in leases : x.conn = c /\ x.id # q.id => PauseOf(x) \in held'[Resolve[x.sel]]
  BY <1>10, <1>13 DEF PauseOf
<1>17. CASE /\ task[p].pc = "releasing" /\ task' = [task EXCEPT ![p] = Idle]
            /\ leases' = {l \in leases : l.id # q.id}
  <2>1. p \in Tasks /\ p \notin Conns
    BY <1>1, <1>17, Commands
  <2>2. task'[p] = Idle /\ task'[c] = Idle
    BY <1>1, <1>11, <1>12, <1>17, <2>1 DEF TypeOK, Procs
  <2>3. \A o \in Procs : ~Serves(task'[o], c)
    BY <1>11, <1>12, <2>2 DEF Serves, Idle, Acquires, Detaches, Sweeps
  <2>4. \A l \in leases' : l.conn = c => PauseOf(l) \in held'[Resolve[l.sel]]
    BY <1>16, <1>17
  <2>5. ASSUME load.sels \subseteq Workers
        PROVE  /\ \A l \in leases : l.conn = c => l.sel \in Workers
               /\ \A s \in conn[c].detaching :
                    s \in conn[c].attached \/ \A l \in leases : l.conn = c => l.sel # s
    <3>1. \A s, l : ~(\E o \in Procs : Serves(task[o], c) /\ Takes(o, s, l))
      BY <1>12, <1>17 DEF Takes, Detaches, Sweeps
    <3> QED BY <1>1, <2>5, <3>1 DEF ClientInv, Marks, Marked
  <2>6. ClientInv(c)'
    <3>1. conn'[c].loop = "open" /\ conn'[c].loop # "failed" /\ conn'[c].loop # "closed"
      BY <1>3, <1>8, <1>12, <2>1
    <3>2. load'.sels \subseteq Workers =>
           /\ \A l \in leases' : l.conn = c => l.sel \in Workers
           /\ \A s \in conn'[c].detaching :
                s \in conn'[c].attached \/ \A l \in leases' : l.conn = c => l.sel # s
      BY <1>3, <1>17, <2>5
    <3> QED BY <1>15, <2>2, <2>3, <2>4, <3>1, <3>2, RestingClient
  <2>7. \A e \in leases : e.id = q.id => e.conn = c
    BY <1>1, <1>7, SameId
  <2>8. ASSUME NEW d \in Conns, d # c PROVE ClientInv(d)'
    <3>1. \A o \in Procs : task'[o] = task[o] \/ (o # d /\ ~Serves(task[o], d) /\ ~Serves(task'[o], d))
      BY <1>8, <1>11, <2>1, <2>2, <2>8, NotServed
    <3>2. \A l : l.conn = d => (l \in leases' <=> l \in leases)
      BY <1>17, <2>7, <2>8
    <3>3. \A v \in Workers : \A x : x.conn = d => (x \in held'[v] <=> x \in held[v])
      BY <1>7, <1>9, <2>8
    <3> QED BY <1>1, <1>3, <3>1, <3>2, <3>3, OtherClient
  <2> QED BY <2>6, <2>8
<1>18. CASE /\ task[p].pc = "lifting" /\ task' = [task EXCEPT ![p].pc = "drop"]
            /\ UNCHANGED leases
  <2> PICK t : t = [task[p] EXCEPT !.pc = "drop"]
    OBVIOUS
  <2>1. /\ t.pc = "drop" /\ t.lease = k /\ t.conn = task[p].conn /\ t.todo = task[p].todo
        /\ t.conn = c
    <3>1. task[p] \in Liftings
      BY <1>1, <1>18, TaskKinds DEF TypeOK
    <3> QED BY <1>8, <1>18, <3>1 DEF Liftings, Serves, Acquires, Detaches, Sweeps
  <2>2. task'[p] = t
    BY <1>1, <1>18 DEF TypeOK
  <2>3. Serves(t, c) /\ t.pc \notin Acquires /\ t.pc \notin Detaches /\ t.pc \in Sweeps
    BY <2>1 DEF Serves, Acquires, Detaches, Sweeps
  <2>4. /\ \A o \in Procs : Serves(task'[o], c) => o = p
        /\ IF p \in Tasks THEN conn'[c].loop = "open" /\ task'[c] = Idle
                          ELSE p = c /\ conn'[c].loop = "closing"
    BY <1>3, <1>11, <1>12, ProcessAssumption DEF Procs
  <2>5. /\ \A l \in t.todo : l.conn = c
        /\ t.lease \in t.todo
        /\ p = c => \A l \in leases' : l.conn = c => l \in t.todo
        /\ \A g \in granted' : g.conn = c =>
             conn'[c].loop = "open" /\ \A l \in t.todo : PauseOf(g) # PauseOf(l)
    <3>1. task[p].pc \in Sweeps /\ t.todo = task[p].todo /\ t.lease = task[p].lease
      BY <1>18, <2>1 DEF Sweeps
    <3>2. /\ \A l \in t.todo : l.conn = c
          /\ t.lease \in t.todo
      BY <1>1, <1>8, <1>18, <3>1 DEF ClientInv, SweepsOwn
    <3>3. p = c => \A l \in leases' : l.conn = c => l \in t.todo
      BY <1>1, <1>18, <3>1 DEF ClientInv, Gathered
    <3>4. \A g \in granted' : g.conn = c =>
            conn'[c].loop = "open" /\ \A l \in t.todo : PauseOf(g) # PauseOf(l)
      BY <1>1, <1>3, <1>8, <3>1 DEF ClientInv, GivenBack
    <3> QED BY <3>2, <3>3, <3>4
  <2>6. \A l \in leases' : l.conn = c =>
          PauseOf(l) \in held'[Resolve[l.sel]] \/ (t.pc = "drop" /\ t.lease.id = l.id)
    BY <1>7, <1>16, <1>18, <2>1
  <2>7. ASSUME load.sels \subseteq Workers
        PROVE  /\ \A l \in leases' : l.conn = c => l.sel \in Workers
               /\ \A s \in conn'[c].detaching :
                    s \in conn'[c].attached \/ \A l \in leases' : l.conn = c /\ l.sel = s => l \in t.todo
    <3>1. \A s, l : (\E o \in Procs : Serves(task[o], c) /\ Takes(o, s, l)) => l \in t.todo
      BY <1>12, <1>18, <2>1 DEF Takes, Detaches, Sweeps
    <3> QED BY <1>1, <1>3, <1>18, <2>7, <3>1 DEF ClientInv, Marks, Marked
  <2>8. ClientInv(c)'
    <3>1. load'.sels \subseteq Workers =>
           /\ \A l \in leases' : l.conn = c => l.sel \in Workers
           /\ \A s \in conn'[c].detaching :
                s \in conn'[c].attached \/ \A l \in leases' : l.conn = c /\ l.sel = s => l \in t.todo
      BY <2>7
    <3>2. t.pc # "releasing" /\ c \in Conns /\ p \in Procs
      BY <2>1
    <3> QED BY ONLY SMTT(20), <1>15, <2>2, <2>3, <2>4, <2>5, <2>6, <3>1, <3>2, ServedClient
  <2>9. ASSUME NEW d \in Conns, d # c PROVE ClientInv(d)'
    <3>1. \A o \in Procs : task'[o] = task[o] \/ (o # d /\ ~Serves(task[o], d) /\ ~Serves(task'[o], d))
      <4>1. p # d /\ ~Serves(task[p], d) /\ ~Serves(t, d)
        BY <1>8, <1>12, <2>3, <2>9, NotServed, ProcessAssumption
      <4> QED BY <1>11, <2>2, <4>1
    <3> QED BY <1>1, <1>3, <1>7, <1>9, <1>18, <2>9, <3>1, OtherClient
  <2> QED BY <2>8, <2>9
<1> QED BY <1>4, <1>17, <1>18

-----------------------------------------------------------------------------
(* Detach, reattach, disconnect *)

\* A step for one connection that gives back only what is its own.
LEMMA OtherClients ==
  ASSUME TypeOK, UNCHANGED <<load, held>>, NEW c \in Conns, NEW p \in Procs,
         p \notin Tasks => p = c, \A d \in Conns : ClientInv(d),
         \A o \in Procs \ {p} : task'[o] = task[o],
         Serves(task[p], c) \/ task[p] = Idle, Serves(task'[p], c) \/ task'[p] = Idle,
         \A d \in Conns \ {c} : conn'[d] = conn[d],
         leases' \subseteq leases, \A l \in leases \ leases' : l.conn = c,
         granted' \subseteq granted, \A g \in granted \ granted' : g.conn = c
  PROVE  \A d \in Conns : d # c => ClientInv(d)'
<1> SUFFICES ASSUME NEW d \in Conns, d # c PROVE ClientInv(d)'
  OBVIOUS
<1>1. p # d /\ ~Serves(task[p], d) /\ ~Serves(task'[p], d)
  BY NotServed, ProcessAssumption
<1>2. \A o \in Procs : task'[o] = task[o] \/ (o # d /\ ~Serves(task[o], d) /\ ~Serves(task'[o], d))
  BY <1>1
<1> QED BY <1>2, OtherClient

\* The client has given back what it holds of the session when the detach begins.
LEMMA DetachStartClients ==
  ASSUME CalmInv, Calm, UNCHANGED load, NEW c \in Conns, NEW p \in Tasks, NEW s \in load.sels,
         DetachStart(c, p, s)
  PROVE  \A d \in Conns : ClientInv(d)'
<1>1. /\ IInv /\ TypeOK /\ load.polite /\ \A d \in Conns : ClientInv(d)
  BY CalmFacts DEF CalmInv, IInv, Shape
<1> PICK t : t = [pc |-> "route", conn |-> c, sels |-> {s}]
  OBVIOUS
<1>2. /\ conn[c].loop = "open" /\ ~Busy(c) /\ task[p] = Idle
      /\ conn' = [conn EXCEPT ![c].detaching = @ \cup {s}, ![c].epoch = @ + 1]
      /\ task' = [task EXCEPT ![p] = t]
      /\ granted' = {g \in granted : ~(g.conn = c /\ Resolve[g.sel] = Resolve[s])}
      /\ UNCHANGED <<leases, held>>
  BY <1>1 DEF DetachStart, Speaks
<1>3. \A o \in Procs : ~Serves(task[o], c)
  BY <1>1, <1>2, NotBusy DEF ClientInv
<1>4. p \in Procs /\ p \notin Conns /\ task'[p] = t /\ \A o \in Procs \ {p} : task'[o] = task[o]
  BY <1>1, <1>2, TaskNotConn DEF TypeOK
<1>5. /\ t.pc \in Detaches /\ t.sels = {s} /\ Serves(t, c)
      /\ t.pc \notin Acquires \cup Sweeps \cup {"releasing", "lifting", "drop"}
  BY DEF Serves, Acquires, Detaches, Sweeps
<1>6. /\ conn'[c].loop = "open" /\ conn'[c].attached = conn[c].attached
      /\ conn'[c].detaching = conn[c].detaching \cup {s}
      /\ \A d \in Conns \ {c} : conn'[d] = conn[d]
  BY <1>1, <1>2 DEF TypeOK
<1>7. task'[c] = Idle /\ \A o \in Procs : Serves(task'[o], c) => o = p
  BY <1>1, <1>3, <1>4, QuietClient DEF Procs
<1>8. GrantsHeld(c)'
  BY <1>1, <1>2 DEF ClientInv, GrantsHeld, PauseOf
<1>9. /\ \A l \in leases' : l.conn = c => PauseOf(l) \in held'[Resolve[l.sel]]
      /\ \A g \in granted' : g.conn = c => \A m \in t.sels : Resolve[m] # Resolve[g.sel]
  BY <1>1, <1>2, <1>3, <1>5, QuietClient
<1>10. load'.sels \subseteq Workers =>
         /\ t.sels \subseteq Workers
         /\ \A l \in leases' : l.conn = c => l.sel \in Workers
         /\ \A m \in conn'[c].detaching :
              m \in conn'[c].attached \/ m \in t.sels \/ \A l \in leases' : l.conn = c => l.sel # m
  BY <1>1, <1>2, <1>3, <1>5, <1>6, QuietClient
<1>11. ClientInv(c)'
  BY <1>4, <1>5, <1>6, <1>7, <1>8, <1>9, <1>10, ServedClient
<1>12. \A d \in Conns : d # c => ClientInv(d)'
  <2>1. /\ UNCHANGED held
        /\ leases' \subseteq leases /\ \A l \in leases \ leases' : l.conn = c
        /\ granted' \subseteq granted /\ \A g \in granted \ granted' : g.conn = c
    BY <1>2
  <2>2. p \in Procs /\ task[p] = Idle /\ Serves(task'[p], c)
    BY <1>2, <1>4, <1>5
  <2> QED BY <1>1, <1>4, <1>6, <2>1, <2>2, OtherClients
<1> QED BY <1>11, <1>12

\* The worker answers, and the client is no longer attached.
LEMMA DetachRouteClients ==
  ASSUME CalmInv, Calm, UNCHANGED load, NEW p \in Procs, DetachRoute(p)
  PROVE  \A d \in Conns : ClientInv(d)'
<1>1. /\ IInv /\ TypeOK /\ CleanupShape /\ load.faults = {} /\ \A w \in Workers : up[w] = "up"
      /\ \A d \in Conns : ClientInv(d)
  BY CalmFacts DEF CalmInv, IInv, Shape
<1>2. /\ task[p].pc = "route" /\ task[p] \in Detachings /\ p \in Tasks /\ p \notin Conns
      /\ UNCHANGED <<leases, held, granted>>
  BY <1>1, TaskKinds, Commands DEF DetachRoute, TypeOK
<1> PICK c \in Conns : c = task[p].conn
  BY <1>2 DEF Detachings
<1> PICK t : t = [task[p] EXCEPT !.pc = "snapshot"]
  OBVIOUS
<1>3. PICK s \in task[p].sels :
        /\ conn' = [conn EXCEPT ![c].attached = @ \ {Resolve[s]}]
        /\ task' = [task EXCEPT ![p] = t]
  <2>1. \A m \in task[p].sels : up[Resolve[m]] = "up"
    BY <1>1, <1>2, SelectorAssumption DEF Detachings
  <2> QED BY <1>1, <2>1 DEF DetachRoute
<1>4. /\ t.pc = "snapshot" /\ t.conn = c /\ t.sels = task[p].sels
      /\ Serves(task[p], c) /\ Serves(t, c) /\ t.pc \in Detaches /\ task[p].pc \in Detaches
      /\ task[p].pc \notin Sweeps \cup {"drop"}
      /\ t.pc \notin Acquires \cup Sweeps \cup {"releasing", "lifting", "drop"}
  BY <1>2 DEF Serves, Acquires, Detaches, Sweeps, Detachings
<1>5. task'[p] = t /\ \A o \in Procs \ {p} : task'[o] = task[o]
  BY <1>1, <1>3 DEF TypeOK
<1>6. \A o \in Procs : Serves(task[o], c) => o = p
  BY <1>1, <1>4, SoleTask
<1>7. conn[c].loop = "open" /\ task[c] = Idle
  BY <1>1, <1>2, <1>4, SoleTask
<1>8. /\ conn'[c].loop = "open" /\ conn'[c].attached = conn[c].attached \ {Resolve[s]}
      /\ conn'[c].detaching = conn[c].detaching
      /\ \A d \in Conns \ {c} : conn'[d] = conn[d]
  BY <1>1, <1>3, <1>7 DEF TypeOK
<1>9. task'[c] = Idle /\ \A o \in Procs : Serves(task'[o], c) => o = p
  BY <1>2, <1>5, <1>6, <1>7 DEF Procs
<1>10. GrantsHeld(c)'
  BY <1>1, <1>2 DEF ClientInv, GrantsHeld, PauseOf
<1>11. \A l \in leases' : l.conn = c => PauseOf(l) \in held'[Resolve[l.sel]]
  BY <1>1, <1>2, <1>4, <1>6 DEF ClientInv, LeasesHeld
<1>12. \A g \in granted' : g.conn = c => t.sels # {} /\ \A m \in t.sels : Resolve[m] # Resolve[g.sel]
  BY <1>1, <1>2, <1>4 DEF ClientInv, GivenBack
<1>13. t.sels # {}
  BY <1>3, <1>4
<1>14. ASSUME load'.sels \subseteq Workers
       PROVE  /\ t.sels \subseteq Workers
              /\ \A l \in leases' : l.conn = c => l.sel \in Workers
              /\ \A m \in conn'[c].detaching :
                   m \in conn'[c].attached \/ m \in t.sels \/ \A l \in leases' : l.conn = c => l.sel # m
  <2>1. Marked(c)
    BY <1>1, <1>14 DEF ClientInv, Marks
  <2>2. t.sels \subseteq Workers /\ Resolve[s] \in t.sels
    BY <1>3, <1>4, <2>1, SelectorAssumption DEF Marked
  <2>3. \A m, l : (\E o \in Procs : Serves(task[o], c) /\ Takes(o, m, l)) => m \in t.sels
    BY <1>4, <1>6, <1>13 DEF Takes
  <2> QED BY <1>2, <1>8, <2>1, <2>2, <2>3 DEF Marked
<1>15. ClientInv(c)'
  <2>1. t.sels = {} <=> p = c
    BY <1>2, <1>13
  <2>2. /\ task'[p] = t /\ Serves(t, c) /\ t.pc \in Detaches
        /\ t.pc \notin Acquires \cup Sweeps \cup {"releasing", "lifting", "drop"}
        /\ p \in Tasks /\ p \in Procs /\ c \in Conns
        /\ conn'[c].loop = "open" /\ task'[c] = Idle
    BY <1>2, <1>4, <1>5, <1>8, <1>9
  <2>3. load'.sels \subseteq Workers =>
          /\ t.sels \subseteq Workers
          /\ \A l \in leases' : l.conn = c => l.sel \in Workers
          /\ \A m \in conn'[c].detaching :
               m \in conn'[c].attached \/ m \in t.sels \/ \A l \in leases' : l.conn = c => l.sel # m
    BY <1>14
  <2> QED BY ONLY <1>9, <1>10, <1>11, <1>12, <2>1, <2>2, <2>3, ServedClient
<1>16. \A d \in Conns : d # c => ClientInv(d)'
  BY <1>1, <1>2, <1>4, <1>5, <1>8, OtherClients
<1> QED BY <1>15, <1>16

\* A connection whose task sweeps, with nothing else changed but the table.
LEMMA SweepingClient ==
  ASSUME TypeOK, UNCHANGED <<load, conn, held, granted>>,
         NEW c \in Conns, \A d \in Conns : ClientInv(d), NEW p \in Procs, NEW t, task'[p] = t,
         \A o \in Procs \ {p} : task'[o] = task[o],
         Serves(task[p], c), Serves(t, c), t.pc \in Sweeps,
         \A l \in t.todo : l.conn = c,
         t.pc \in {"lifting", "drop"} => t.lease \in t.todo,
         \A g \in granted : g.conn = c => \A l \in t.todo : PauseOf(g) # PauseOf(l),
         p = c => \A l \in leases' : l.conn = c => l \in t.todo,
         \A l \in leases' : l.conn = c =>
           l \in leases /\ (PauseOf(l) \in held[Resolve[l.sel]] \/ (t.pc = "drop" /\ t.lease.id = l.id)),
         \A s, l : l \in leases' /\ Takes(p, s, l) /\ l.conn = c /\ l.sel = s => l \in t.todo
  PROVE  ClientInv(c)'
<1>1. /\ \A o \in Procs : Serves(task[o], c) => o = p
      /\ p \in Tasks => conn[c].loop = "open" /\ task[c] = Idle
      /\ p \notin Tasks => p = c /\ conn[c].loop = "closing"
  BY SoleTask
<1>2. \A o \in Procs : Serves(task'[o], c) => o = p
  BY <1>1
<1>3. IF p \in Tasks THEN conn'[c].loop = "open" /\ task'[c] = Idle
                     ELSE p = c /\ conn'[c].loop = "closing"
  BY <1>1, ProcessAssumption DEF Procs
<1>4. GrantsHeld(c)'
  BY DEF ClientInv, GrantsHeld, PauseOf
<1>5. \A g \in granted' : g.conn = c => conn'[c].loop = "open" /\ \A l \in t.todo : PauseOf(g) # PauseOf(l)
  BY DEF ClientInv, GivenBack
<1>6. ASSUME load'.sels \subseteq Workers
      PROVE  /\ \A l \in leases' : l.conn = c => l.sel \in Workers
             /\ \A s \in conn'[c].detaching :
                  s \in conn'[c].attached \/ \A l \in leases' : l.conn = c /\ l.sel = s => l \in t.todo
  <2>1. Marked(c)
    BY <1>6 DEF ClientInv, Marks
  <2>2. \A s, l : (\E o \in Procs : Serves(task[o], c) /\ Takes(o, s, l)) => Takes(p, s, l)
    BY <1>1
  <2> QED BY <2>1, <2>2 DEF Marked
<1>7. t.pc \notin Acquires \cup Detaches \cup {"releasing"}
  BY DEF Acquires, Detaches, Sweeps
<1>8. \A l \in leases' : l.conn = c =>
        PauseOf(l) \in held'[Resolve[l.sel]] \/ (t.pc = "drop" /\ t.lease.id = l.id)
  OBVIOUS
<1> QED BY <1>2, <1>3, <1>4, <1>5, <1>6, <1>7, <1>8, ServedClient

\* The sweep is over what the table holds for the sessions given back.
LEMMA SnapshotClients ==
  ASSUME CalmInv, Calm, UNCHANGED load, NEW p \in Procs, Snapshot(p)
  PROVE  \A d \in Conns : ClientInv(d)'
<1>1. /\ IInv /\ TypeOK /\ Tracked /\ \A d \in Conns : ClientInv(d)
  BY CalmFacts DEF CalmInv, IInv, Shape
<1>2. /\ task[p].pc = "snapshot" /\ task[p] \in Detachings
      /\ UNCHANGED <<leases, conn, held, granted>>
  BY <1>1, TaskKinds DEF Snapshot, TypeOK
<1> PICK c \in Conns : c = task[p].conn
  BY <1>2 DEF Detachings
<1> PICK t : t = [pc |-> "sweep", conn |-> c, todo |-> {l \in leases : Covered(l, c, task[p].sels)}]
  OBVIOUS
<1>3. task'[p] = t /\ \A o \in Procs \ {p} : task'[o] = task[o]
  BY <1>1 DEF Snapshot, TypeOK
<1>4. Serves(task[p], c) /\ Serves(t, c) /\ t.pc \in Sweeps /\ t.pc \notin {"lifting", "drop"}
      /\ task[p].pc \in Detaches /\ task[p].pc \notin Sweeps
  BY <1>2 DEF Serves, Acquires, Detaches, Sweeps
<1>5. /\ \A o \in Procs : Serves(task[o], c) => o = p
      /\ p \notin Tasks => p = c
  BY <1>1, <1>4, SoleTask
<1>6. \A l \in leases : l.conn = c => PauseOf(l) \in held[Resolve[l.sel]]
  BY <1>1, <1>2, <1>5 DEF ClientInv, LeasesHeld
<1>7. \A l \in t.todo : l \in leases /\ l.conn = c
  BY DEF Covered
<1>8. ASSUME NEW g \in granted, g.conn = c, NEW l \in t.todo PROVE PauseOf(g) # PauseOf(l)
  <2>1. l \in Leases /\ g \in Leases /\ Resolve[l.sel] \in Workers /\ Resolve[g.sel] \in Workers
        /\ PauseOf(g) \in Pauses /\ PauseOf(l) \in Pauses
    BY <1>1, <1>7, PauseType DEF TypeOK
  <2>2. PauseOf(g) \in held[Resolve[g.sel]] /\ PauseOf(l) \in held[Resolve[l.sel]]
    BY <1>1, <1>6, <1>7, <1>8 DEF ClientInv, GrantsHeld
  <2>3. At(Resolve[g.sel], PauseOf(g)) /\ At(Resolve[l.sel], PauseOf(l))
    BY <2>2 DEF At
  <2>4. PauseOf(g) = PauseOf(l) => Resolve[g.sel] = Resolve[l.sel]
    BY <1>1, <2>1, <2>3 DEF Tracked, IdsAgree
  <2>5. task[p].sels # {} /\ \A s \in task[p].sels : Resolve[s] # Resolve[g.sel]
    BY <1>1, <1>4, <1>8 DEF ClientInv, GivenBack
  <2>6. l.sel \in task[p].sels \/ Resolve[l.sel] \in task[p].sels
    BY <2>5 DEF Covered
  <2>7. Resolve[Resolve[l.sel]] = Resolve[l.sel]
    BY <2>1, SelectorAssumption
  <2> QED BY <2>4, <2>5, <2>6, <2>7
<1>9. p = c => \A l \in leases : l.conn = c => l \in t.todo
  BY <1>1, <1>4 DEF ClientInv, SweepsOwn, Covered
<1>10. \A s, l : l \in leases /\ Takes(p, s, l) /\ l.conn = c /\ l.sel = s => l \in t.todo
  BY <1>4 DEF Takes, Covered
<1>11. ClientInv(c)'
  BY <1>1, <1>2, <1>3, <1>4, <1>6, <1>7, <1>8, <1>9, <1>10, SweepingClient
<1>12. \A d \in Conns : d # c => ClientInv(d)'
  BY <1>1, <1>2, <1>3, <1>4, <1>5, OtherClients
<1> QED BY <1>11, <1>12

\* One lease of the sweep after the other goes to its worker.
LEMMA SweepNextClients ==
  ASSUME CalmInv, Calm, UNCHANGED load, NEW p \in Procs, SweepNext(p)
  PROVE  \A d \in Conns : ClientInv(d)'
<1>1. /\ IInv /\ TypeOK /\ \A d \in Conns : ClientInv(d)
      /\ \A w \in Workers : up[w] = "up"
  BY CalmFacts DEF CalmInv, IInv, Shape
<1>2. /\ task[p].pc = "sweep" /\ task[p] \in Sweepings
      /\ UNCHANGED <<leases, conn, held, granted>>
  BY <1>1, TaskKinds DEF SweepNext, TypeOK
<1> PICK c \in Conns : c = task[p].conn
  BY <1>2 DEF Sweepings
<1>3. PICK l \in task[p].todo :
        task' = [task EXCEPT ![p] =
          [[pc |-> "drop", conn |-> c, todo |-> task[p].todo, lease |-> l] EXCEPT !.pc = "lifting"]]
  <2>1. \A l \in task[p].todo : up[Resolve[l.sel]] = "up"
    BY <1>1, <1>2, PauseType DEF Sweepings
  <2> QED BY <2>1 DEF SweepNext
<1> PICK t : t = [pc |-> "lifting", conn |-> c, todo |-> task[p].todo, lease |-> l]
  OBVIOUS
<1>4. task'[p] = t /\ \A o \in Procs \ {p} : task'[o] = task[o]
  BY <1>1, <1>3 DEF TypeOK
<1>5. /\ t.pc = "lifting" /\ t.pc # "drop" /\ t.todo = task[p].todo /\ t.lease \in t.todo
      /\ Serves(task[p], c) /\ Serves(t, c) /\ t.pc \in Sweeps /\ task[p].pc \in Sweeps
      /\ task[p].pc \notin Detaches \cup {"drop"}
  BY <1>2 DEF Serves, Acquires, Detaches, Sweeps
<1>6. /\ \A o \in Procs : Serves(task[o], c) => o = p
      /\ p \notin Tasks => p = c
  BY <1>1, <1>5, SoleTask
<1>7. \A x \in leases : x.conn = c => PauseOf(x) \in held[Resolve[x.sel]]
  BY <1>1, <1>5, <1>6 DEF ClientInv, LeasesHeld
<1>8. /\ \A x \in t.todo : x.conn = c
      /\ \A g \in granted : g.conn = c => \A x \in t.todo : PauseOf(g) # PauseOf(x)
      /\ p = c => \A x \in leases : x.conn = c => x \in t.todo
  BY <1>1, <1>5 DEF ClientInv, SweepsOwn, GivenBack, Gathered
<1>9. \A s, x : x \in leases /\ Takes(p, s, x) /\ x.conn = c /\ x.sel = s => x \in t.todo
  BY <1>5 DEF Takes
<1>10. ClientInv(c)'
  BY <1>1, <1>2, <1>4, <1>5, <1>7, <1>8, <1>9, SweepingClient
<1>11. \A d \in Conns : d # c => ClientInv(d)'
  BY <1>1, <1>2, <1>4, <1>5, <1>6, OtherClients
<1> QED BY <1>10, <1>11

\* The record of a lifted pause is dropped.
LEMMA SweepDropClients ==
  ASSUME CalmInv, Calm, UNCHANGED load, NEW p \in Procs, SweepDrop(p)
  PROVE  \A d \in Conns : ClientInv(d)'
<1>1. /\ IInv /\ TypeOK /\ Tracked /\ \A d \in Conns : ClientInv(d)
  BY CalmFacts DEF CalmInv, IInv, Shape
<1>2. /\ task[p].pc = "drop" /\ task[p] \in Liftings /\ task[p].lease \in Leases
      /\ UNCHANGED <<conn, held, granted>>
  BY <1>1, TaskKinds DEF SweepDrop, TypeOK, Liftings
<1> PICK c \in Conns : c = task[p].conn
  BY <1>2 DEF Liftings
<1> PICK k \in Leases : k = task[p].lease
  BY <1>2
<1> PICK t : t = [pc |-> "sweep", conn |-> c, todo |-> task[p].todo \ {k}]
  OBVIOUS
<1>3. /\ leases' = {l \in leases : l.id # k.id}
      /\ task'[p] = t /\ \A o \in Procs \ {p} : task'[o] = task[o]
  BY <1>1 DEF SweepDrop, TypeOK
<1>4. /\ t.pc = "sweep" /\ t.pc \notin {"lifting", "drop"} /\ t.todo = task[p].todo \ {k}
      /\ Serves(task[p], c) /\ Serves(t, c) /\ t.pc \in Sweeps /\ task[p].pc \in Sweeps
      /\ task[p].pc \notin Detaches /\ Carries(task[p], k)
  BY <1>2 DEF Serves, Acquires, Detaches, Sweeps, Carries
<1>5. /\ \A o \in Procs : Serves(task[o], c) => o = p
      /\ p \notin Tasks => p = c
  BY <1>1, <1>4, SoleTask
<1>6. k.conn = c
  BY <1>1, <1>2, <1>4 DEF ClientInv, SweepsOwn
<1>7. \A l \in leases' : l.conn = c => l \in leases /\ l # k /\ PauseOf(l) \in held[Resolve[l.sel]]
  BY <1>1, <1>3, <1>5 DEF ClientInv, LeasesHeld
<1>8. /\ \A l \in t.todo : l.conn = c
      /\ \A g \in granted : g.conn = c => \A l \in t.todo : PauseOf(g) # PauseOf(l)
      /\ p = c => \A l \in leases' : l.conn = c => l \in t.todo
  BY <1>1, <1>4, <1>7 DEF ClientInv, SweepsOwn, GivenBack, Gathered
<1>9. \A s, l : l \in leases' /\ Takes(p, s, l) /\ l.conn = c /\ l.sel = s => l \in t.todo
  BY <1>4, <1>7 DEF Takes
<1>10. ClientInv(c)'
  BY <1>1, <1>2, <1>3, <1>4, <1>7, <1>8, <1>9, SweepingClient
<1>11. leases' \subseteq leases /\ \A l \in leases \ leases' : l.conn = c
  BY <1>1, <1>3, <1>4, <1>6, SameId
<1>12. \A d \in Conns : d # c => ClientInv(d)'
  BY <1>1, <1>2, <1>3, <1>4, <1>5, <1>11, OtherClients
<1> QED BY <1>10, <1>12

\* A sweep that has lifted all leaves nothing of the sessions, or of the connection.
LEMMA SweepEndClients ==
  ASSUME CalmInv, Calm, UNCHANGED load, NEW p \in Procs, SweepEnd(p)
  PROVE  \A d \in Conns : ClientInv(d)'
<1>1. /\ IInv /\ TypeOK /\ \A d \in Conns : ClientInv(d)
  BY DEF CalmInv, IInv, Shape
<1>2. /\ task[p].pc = "sweep" /\ task[p] \in Sweepings /\ task[p].todo = {}
      /\ UNCHANGED <<leases, held, granted>>
  BY <1>1, TaskKinds DEF SweepEnd, TypeOK
<1> PICK c \in Conns : c = task[p].conn
  BY <1>2 DEF Sweepings
<1>3. task'[p] = Idle /\ \A o \in Procs \ {p} : task'[o] = task[o]
  BY <1>1 DEF SweepEnd, TypeOK
<1>4. Serves(task[p], c) /\ task[p].pc \in Sweeps /\ task[p].pc \notin Detaches \cup {"drop"}
  BY <1>2 DEF Serves, Acquires, Detaches, Sweeps
<1>5. /\ \A o \in Procs : Serves(task[o], c) => o = p
      /\ p \in Tasks => conn[c].loop = "open" /\ task[c] = Idle
      /\ p \notin Tasks => p = c
  BY <1>1, <1>4, SoleTask
<1>6. /\ conn'[c].loop = IF p \in Tasks THEN "open" ELSE "closed"
      /\ conn'[c].detaching = conn[c].detaching /\ conn'[c].attached = conn[c].attached
      /\ \A d \in Conns \ {c} : conn'[d] = conn[d]
  BY <1>1, <1>5, ProcessAssumption DEF SweepEnd, TypeOK
<1>7. task'[c] = Idle /\ \A o \in Procs : ~Serves(task'[o], c)
  BY <1>3, <1>5 DEF Procs, Serves, Idle, Acquires, Detaches, Sweeps
<1>8. /\ \A l \in leases' : l.conn = c => PauseOf(l) \in held'[Resolve[l.sel]]
      /\ GrantsHeld(c)'
      /\ p \notin Tasks => \A l \in leases' : l.conn # c
  BY <1>1, <1>2, <1>4, <1>5 DEF ClientInv, LeasesHeld, GrantsHeld, Gathered, PauseOf
<1>9. conn'[c].loop = "open" \/ \A g \in granted' : g.conn # c
  <2>1. CASE p \in Tasks
    BY <1>6, <2>1
  <2>2. CASE p \notin Tasks
    BY <1>1, <1>2, <1>4, <1>5, <2>2, SoleTask DEF ClientInv, GivenBack
  <2> QED BY <2>1, <2>2
<1>10. ASSUME load'.sels \subseteq Workers
       PROVE  /\ \A l \in leases' : l.conn = c => l.sel \in Workers
              /\ \A s \in conn'[c].detaching :
                   s \in conn'[c].attached \/ \A l \in leases' : l.conn = c => l.sel # s
  <2>1. Marked(c)
    BY <1>1, <1>10 DEF ClientInv, Marks
  <2>2. \A s, l : ~(\E o \in Procs : Serves(task[o], c) /\ Takes(o, s, l))
    BY <1>2, <1>4, <1>5 DEF Takes
  <2> QED BY <1>2, <1>6, <2>1, <2>2 DEF Marked
<1>11. ClientInv(c)'
  <2>1. conn'[c].loop # "failed" /\ (conn'[c].loop = "closed" => p \notin Tasks)
    BY <1>6
  <2> QED BY <1>7, <1>8, <1>9, <1>10, <2>1, RestingClient
<1>12. \A d \in Conns : d # c => ClientInv(d)'
  BY <1>1, <1>2, <1>3, <1>4, <1>5, <1>6, OtherClients
<1> QED BY <1>11, <1>12

\* When its loop ends a client gives back all that it holds.
LEMMA DisconnectClients ==
  ASSUME CalmInv, Calm, UNCHANGED load, NEW c \in Conns, Disconnect(c)
  PROVE  \A d \in Conns : ClientInv(d)'
<1>1. /\ IInv /\ TypeOK /\ load.polite /\ \A d \in Conns : ClientInv(d)
  BY CalmFacts DEF CalmInv, IInv, Shape
<1>2. /\ ~Busy(c) /\ conn[c].loop = "open" /\ granted' = {g \in granted : g.conn # c}
      /\ UNCHANGED <<leases, task, held>>
  BY <1>1 DEF Disconnect, Speaks
<1>3. /\ conn'[c].loop = "closing"
      /\ conn'[c].detaching = conn[c].detaching /\ conn'[c].attached = conn[c].attached
      /\ \A d \in Conns \ {c} : conn'[d] = conn[d]
  BY <1>1 DEF Disconnect, TypeOK
<1>4. \A o \in Procs : ~Serves(task[o], c)
  BY <1>1, <1>2, NotBusy DEF ClientInv
<1>5. ClientInv(c)'
  <2>1. /\ \A l \in leases' : l.conn = c => PauseOf(l) \in held'[Resolve[l.sel]]
        /\ task'[c] = Idle /\ \A o \in Procs : ~Serves(task'[o], c)
    BY <1>1, <1>2, <1>4, QuietClient
  <2>2. GrantsHeld(c)' /\ \A g \in granted' : g.conn # c
    BY <1>2 DEF GrantsHeld, PauseOf
  <2>3. load'.sels \subseteq Workers =>
          /\ \A l \in leases' : l.conn = c => l.sel \in Workers
          /\ \A s \in conn'[c].detaching :
               s \in conn'[c].attached \/ \A l \in leases' : l.conn = c => l.sel # s
    BY <1>1, <1>2, <1>3, <1>4, QuietClient
  <2> QED BY <1>3, <2>1, <2>2, <2>3, RestingClient
<1>6. ASSUME NEW d \in Conns, d # c PROVE ClientInv(d)'
  BY <1>1, <1>2, <1>3, <1>6, OtherClient
<1> QED BY <1>5, <1>6

\* The cleanup begins with nothing left that the client counts on.
LEMMA CleanupStartClients ==
  ASSUME CalmInv, Calm, UNCHANGED load, NEW c \in Conns, CleanupStart(c)
  PROVE  \A d \in Conns : ClientInv(d)'
<1>1. /\ IInv /\ TypeOK /\ \A d \in Conns : ClientInv(d)
  BY DEF CalmInv, IInv, Shape
<1> PICK t : t = [pc |-> "snapshot", conn |-> c, sels |-> {}]
  OBVIOUS
<1>2. /\ conn[c].loop = "closing" /\ task[c] = Idle
      /\ UNCHANGED <<leases, held, granted>>
  BY DEF CleanupStart
<1>3. /\ conn'[c].loop = "closing"
      /\ conn'[c].detaching = conn[c].detaching /\ conn'[c].attached = conn[c].attached
      /\ \A d \in Conns \ {c} : conn'[d] = conn[d]
  BY <1>1, <1>2 DEF CleanupStart, TypeOK
<1>4. c \in Procs /\ c \notin Tasks /\ task'[c] = t /\ \A o \in Procs \ {c} : task'[o] = task[o]
  BY <1>1, ProcessAssumption DEF CleanupStart, TypeOK, Procs
<1>5. \A o \in Procs : ~Serves(task[o], c)
  <2> SUFFICES ASSUME NEW o \in Procs, Serves(task[o], c) PROVE FALSE
    OBVIOUS
  <2>1. o \notin Tasks
    BY <1>1, <1>2 DEF ClientInv, AloneAt
  <2>2. o = c
    BY <1>1, <2>1, SoleTask
  <2> QED BY <1>2, <2>2 DEF Serves, Idle, Acquires, Detaches, Sweeps
<1>6. /\ Serves(t, c) /\ t.pc \in Detaches /\ t.sels = {}
      /\ t.pc \notin Acquires \cup Sweeps \cup {"releasing", "lifting", "drop"}
  BY DEF Serves, Acquires, Detaches, Sweeps
<1>7. \A o \in Procs : Serves(task'[o], c) => o = c
  BY <1>4, <1>5
<1>8. GrantsHeld(c)' /\ \A g \in granted' : g.conn # c
  BY <1>1, <1>2 DEF ClientInv, GrantsHeld, GivenBack, PauseOf
<1>9. /\ \A l \in leases' : l.conn = c => PauseOf(l) \in held'[Resolve[l.sel]]
      /\ load'.sels \subseteq Workers =>
           /\ t.sels \subseteq Workers
           /\ \A l \in leases' : l.conn = c => l.sel \in Workers
  BY <1>1, <1>2, <1>5, <1>6, QuietClient
<1>10. ClientInv(c)'
  BY <1>3, <1>4, <1>6, <1>7, <1>8, <1>9, ServedClient
<1>11. \A d \in Conns : d # c => ClientInv(d)'
  BY <1>1, <1>2, <1>3, <1>4, <1>6, OtherClients
<1> QED BY <1>10, <1>11

\* Marks of sessions a client is attached to, or a reattach.
LEMMA MarkingClients ==
  ASSUME CalmInv, Calm, UNCHANGED load, NEW c \in Conns,
         DetachAll(c) \/ \E s, t \in load.sels : Reattach(c, s, t)
  PROVE  \A d \in Conns : ClientInv(d)'
<1>1. /\ IInv /\ TypeOK /\ load.polite /\ load \in Loads /\ \A d \in Conns : ClientInv(d)
  BY CalmFacts DEF CalmInv, IInv, Shape
<1>2. /\ ~Busy(c) /\ conn[c].loop = "open"
      /\ UNCHANGED <<leases, task, held>>
      /\ granted' \subseteq granted /\ \A g \in granted \ granted' : g.conn = c
  BY <1>1 DEF DetachAll, Reattach
<1>3. /\ conn'[c].loop = "open" /\ conn[c].attached \subseteq conn'[c].attached
      /\ conn'[c].detaching \subseteq conn[c].detaching \cup conn'[c].attached
      /\ \A d \in Conns \ {c} : conn'[d] = conn[d]
  <2>1. CASE DetachAll(c)
    BY <1>1, <1>2, <2>1 DEF DetachAll, TypeOK
  <2>2. ASSUME NEW s \in load.sels, NEW t \in load.sels, Reattach(c, s, t)
        PROVE  /\ conn'[c].loop = "open" /\ conn[c].attached \subseteq conn'[c].attached
               /\ conn'[c].detaching \subseteq conn[c].detaching
               /\ \A d \in Conns \ {c} : conn'[d] = conn[d]
    <3> PICK x : x = conn[c].detaching
                       \ ({s, t} \cup IF up[Resolve[t]] = "gone" THEN {} ELSE {Resolve[t]})
      OBVIOUS
    <3> PICK a : a = IF up[Resolve[t]] = "up" THEN conn[c].attached \cup {Resolve[t]}
                     ELSE conn[c].attached
      OBVIOUS
    <3>1. conn' = [conn EXCEPT ![c] = [[conn[c] EXCEPT !.detaching = x] EXCEPT !.attached = a]]
      BY <2>2 DEF Reattach
    <3>2. conn \in [Conns -> Connections] /\ conn[c] \in Connections
      BY <1>1 DEF TypeOK, Connections
    <3>3. /\ conn'[c] = [[conn[c] EXCEPT !.detaching = x] EXCEPT !.attached = a]
          /\ \A d \in Conns \ {c} : conn'[d] = conn[d]
      BY <3>1, <3>2
    <3>4. conn'[c].loop = "open" /\ conn'[c].detaching = x /\ conn'[c].attached = a
      BY <1>2, <3>2, <3>3 DEF Connections
    <3> QED BY <3>3, <3>4
  <2> QED BY <2>1, <2>2
<1>4. \A o \in Procs : ~Serves(task[o], c)
  BY <1>1, <1>2, NotBusy DEF ClientInv
<1>5. ClientInv(c)'
  <2>1. /\ \A l \in leases' : l.conn = c => PauseOf(l) \in held'[Resolve[l.sel]]
        /\ task'[c] = Idle /\ \A o \in Procs : ~Serves(task'[o], c)
    BY <1>1, <1>2, <1>4, QuietClient
  <2>2. GrantsHeld(c)'
    BY <1>1, <1>2 DEF ClientInv, GrantsHeld, PauseOf
  <2>3. load'.sels \subseteq Workers =>
          /\ \A l \in leases' : l.conn = c => l.sel \in Workers
          /\ \A s \in conn'[c].detaching :
               s \in conn'[c].attached \/ \A l \in leases' : l.conn = c => l.sel # s
    BY <1>1, <1>2, <1>3, <1>4, QuietClient
  <2> QED BY <1>3, <2>1, <2>2, <2>3, RestingClient
<1>6. ASSUME NEW d \in Conns, d # c PROVE ClientInv(d)'
  BY <1>1, <1>2, <1>3, <1>6, OtherClient
<1> QED BY <1>5, <1>6

-----------------------------------------------------------------------------
(* Theorems *)

\* At the start nobody holds anything.
LEMMA InitCalm == Init => CalmInv
<1> SUFFICES ASSUME Init PROVE CalmInv
  OBVIOUS
<1>1. \A p \in Procs : task[p] = Idle
  BY DEF Init
<1>2. \A p \in Procs, c \in Conns : ~Serves(task[p], c)
  BY <1>1 DEF Serves, Idle, Acquires, Detaches, Sweeps
<1>3. \A c \in Conns : conn[c].loop \in {"open", "closed"} /\ conn[c].detaching = {}
  BY DEF Init
<1>4. ASSUME NEW c \in Conns PROVE ClientInv(c)
  <2>1. AloneAt(c)
    BY <1>1, <1>2, <1>3 DEF AloneAt, Procs
  <2>2. SweepsOwn(c) /\ LeasesHeld(c) /\ AnswersHeld(c) /\ GrantsHeld(c) /\ GivenBack(c)
    BY <1>2 DEF Init, SweepsOwn, LeasesHeld, AnswersHeld, GrantsHeld, GivenBack
  <2>3. Gathered(c)
    BY DEF Init, Gathered
  <2>4. Marks(c)
    BY <1>2, <1>3 DEF Init, Marks, Marked
  <2> QED BY <2>1, <2>2, <2>3, <2>4 DEF ClientInv
<1> QED BY <1>4, InitHolds DEF CalmInv

\* A step that changes nothing of the table, the tasks and the clients.
LEMMA StutterClients ==
  ASSUME CalmInv, Calm, UNCHANGED <<leases, conn, task, held, granted, load>>
  PROVE  \A d \in Conns : ClientInv(d)'
<1>1. TypeOK /\ \A d \in Conns : ClientInv(d)
  BY DEF CalmInv, IInv, Shape
<1> QED BY <1>1, OtherClient

\* No worker leaves and no call or write fails while clients are calm.
LEMMA NothingFails ==
  ASSUME IInv, Calm
  PROVE  /\ \A p \in Procs : ~AcquireGiveUp(p) /\ ~ReleaseGiveUp(p) /\ ~SweepGiveUp(p)
         /\ \A c \in Conns : ~WriteFails(c)
         /\ \A w \in Workers : ~WorkerDies(w) /\ ~WorkerBack(w)
BY CalmFacts DEF AcquireGiveUp, ReleaseGiveUp, SweepGiveUp, Waiting, WriteFails, WorkerDies, WorkerBack

\* Every step keeps what a calm client relies on.
LEMMA NextCalm == CalmInv /\ [Next /\ UNCHANGED load]_<<vars, load>> => CalmInv'
<1> SUFFICES ASSUME CalmInv, [Next /\ UNCHANGED load]_<<vars, load>> PROVE CalmInv'
  OBVIOUS
<1>1. IInv /\ IInv' /\ UNCHANGED load
  BY NextKeeps DEF CalmInv
<1>2. Calm' => Calm
  BY <1>1 DEF Calm
<1>3. ASSUME Calm PROVE \A d \in Conns : ClientInv(d)'
  <2>1. CASE UNCHANGED <<vars, load>>
    BY <1>3, <2>1, StutterClients DEF vars
  <2>2. ASSUME NEW p \in Procs, Step(p) PROVE \A d \in Conns : ClientInv(d)'
    BY <1>1, <1>3, <2>2, AcquireLookClients, AcquireSendClients, AcquireCompareClients,
       AcquireRecordClients, DetachRouteClients, SnapshotClients, SweepNextClients,
       SweepDropClients, SweepEndClients, NothingFails DEF Step
  <2>3. ASSUME NEW c \in Conns, Client(c) PROVE \A d \in Conns : ClientInv(d)'
    BY <1>1, <1>3, <2>3, AcquireCheckClients, ReleaseStartClients, DetachStartClients,
       MarkingClients, DisconnectClients, NothingFails DEF Client
  <2>4. ASSUME NEW c \in Conns, CleanupStart(c) PROVE \A d \in Conns : ClientInv(d)'
    BY <1>1, <1>3, <2>4, CleanupStartClients
  <2>5. ASSUME NEW w \in Workers, Worker(w) PROVE \A d \in Conns : ClientInv(d)'
    BY <1>1, <1>3, <2>5, WorkerAcquireClients, WorkerReleaseClients, NothingFails DEF Worker
  <2> QED BY <2>1, <2>2, <2>3, <2>4, <2>5 DEF Next
<1> QED BY <1>1, <1>2, <1>3 DEF CalmInv

\* The invariant holds of every run.
LEMMA CalmInductive == Spec => []CalmInv
BY InitCalm, NextCalm, PTL DEF Spec

\* A client that was told it holds a pause holds it until it gives it back: no
\* command, detach or disconnect of another client lifts it, and no retry or
\* dedupe of its own (acquire_session_input_pause, release_session_input_pause).
THEOREM GrantIsHeld == Spec => []GrantHolds
<1>1. CalmInv => GrantHolds
  BY DEF CalmInv, ClientInv, GrantsHeld, GrantHolds, IInv, Shape, TypeOK, Leases
<1> QED BY <1>1, CalmInductive, PTL

\* What a worker holds for a client that no task serves is in the table.
LEMMA HeldIsLeased ==
  ASSUME CalmInv, Calm, NEW c \in Conns, ~Busy(c), NEW w \in Workers, NEW q \in HeldBy(c, w)
  PROVE  \E l \in leases : l.conn = c /\ PauseOf(l) = q /\ Resolve[l.sel] = w
<1>1. /\ IInv /\ TypeOK /\ Tracked /\ HeldIsKnown /\ ClientInv(c) /\ load.faults = {}
      /\ q \in held[w] /\ q.conn = c
  BY CalmFacts DEF CalmInv, IInv, Shape, HeldBy
<1>2. \A p \in Procs : ~Serves(task[p], c)
  BY <1>1, NotBusy DEF ClientInv
<1>3. ASSUME NEW p \in Tasks, task[p].pc \in {"answered", "record"}, PauseOf(task[p].lease) = q
      PROVE  FALSE
  BY <1>1, <1>2, <1>3 DEF Procs, Serves, Acquires, PauseOf
<1>4. PICK l \in leases : PauseOf(l) = q
  BY <1>1, <1>3 DEF HeldIsKnown
<1>5. l \in Leases /\ q \in Pauses /\ l.conn = c
  BY <1>1, <1>4 DEF TypeOK, PauseOf
<1>6. At(w, q) /\ At(Resolve[l.sel], q)
  BY <1>1, <1>4 DEF At, LeasedAt, Spot
<1>7. Resolve[l.sel] = w
  BY <1>1, <1>5, <1>6, PauseType DEF Tracked, IdsAgree
<1> QED BY <1>4, <1>5, <1>7

\* When a connection is closed and its cleanup over, no worker is paused for it
\* (release_all_client_pauses).
THEOREM ClosedIsReleased == Spec => []ClosedHoldsNothing
<1>1. ASSUME CalmInv PROVE ClosedHoldsNothing
  <2> SUFFICES ASSUME Calm, NEW c \in Conns, conn[c].loop = "closed", ~Busy(c),
                      NEW w \in Workers, NEW q \in HeldBy(c, w)
               PROVE  FALSE
    BY DEF ClosedHoldsNothing
  <2>1. \A l \in leases : l.conn # c
    BY <1>1 DEF CalmInv, ClientInv, Gathered
  <2> QED BY <1>1, <2>1, HeldIsLeased
<1> QED BY <1>1, CalmInductive, PTL

\* The marks of a client are what it called a session, or ids.
LEMMA MarksGrow ==
  ASSUME TypeOK, Next
  PROVE  \A c \in Conns : conn'[c].detaching \subseteq conn[c].detaching \cup load.sels \cup Workers
<1> DEFINE Grows == \A c \in Conns :
             conn'[c].detaching \subseteq conn[c].detaching \cup load.sels \cup Workers
<1>1. UNCHANGED conn => Grows
  OBVIOUS
<1>2. ASSUME NEW p \in Procs, Step(p) PROVE Grows
  <2>1. CASE DetachRoute(p)
    BY <2>1 DEF DetachRoute, TypeOK
  <2>2. CASE SweepEnd(p)
    BY <2>2 DEF SweepEnd, TypeOK
  <2>3. CASE UNCHANGED conn
    BY <1>1, <2>3
  <2> HIDE DEF Grows
  <2> QED BY <1>2, <2>1, <2>2, <2>3 DEF Step, AcquireLook, AcquireSend, AcquireGiveUp,
        AcquireCompare, AcquireRecord, ReleaseGiveUp, Snapshot, SweepNext, SweepGiveUp, SweepDrop
<1>3. ASSUME NEW c \in Conns, Client(c) \/ CleanupStart(c) PROVE Grows
  <2>1. ASSUME NEW s \in load.sels, NEW p \in Tasks, DetachStart(c, p, s) PROVE Grows
    BY <2>1 DEF DetachStart, TypeOK
  <2>2. ASSUME NEW s \in load.sels, NEW t \in load.sels, Reattach(c, s, t) PROVE Grows
    BY <2>2 DEF Reattach, TypeOK
  <2>3. CASE DetachAll(c)
    BY <2>3 DEF DetachAll, TypeOK
  <2>4. CASE Disconnect(c) \/ WriteFails(c) \/ CleanupStart(c)
    BY <2>4 DEF Disconnect, WriteFails, CleanupStart, TypeOK
  <2>5. CASE UNCHANGED conn
    BY <1>1, <2>5
  <2> HIDE DEF Grows
  <2> QED BY <1>3, <2>1, <2>2, <2>3, <2>4, <2>5 DEF Client, AcquireCheck, ReleaseStart
<1>4. ASSUME NEW w \in Workers, Worker(w) PROVE UNCHANGED conn
  BY <1>4 DEF Worker, WorkerAcquire, WorkerRelease, WorkerDies, WorkerBack
<1> HIDE DEF Grows
<1> QED BY <1>1, <1>2, <1>3, <1>4 DEF Next, Grows

\* So they are ids where clients use ids.
MarkedByIds == load.sels \subseteq Workers => \A c \in Conns : conn[c].detaching \subseteq Workers
LEMMA MarksAreIds == Spec => []MarkedByIds
<1>1. Init => MarkedByIds
  BY DEF Init, MarkedByIds
<1>2. TypeOK /\ MarkedByIds /\ [Next /\ UNCHANGED load]_<<vars, load>> => MarkedByIds'
  BY MarksGrow DEF MarkedByIds, vars
<1> QED BY <1>1, <1>2, TypeCorrect, PTL DEF Spec

\* Of clients that call sessions by their ids: a session such a client has
\* detached from, and has not attached to again, is not paused for it either
\* (begin_detach_pause_bookkeeping, release_client_pauses_for_sessions).
THEOREM LeaversAreReleased ==
  ASSUME \A L \in Loads : L.sels \subseteq Workers
  PROVE  Spec => []LeaversHoldNothing
<1>1. ASSUME CalmInv, MarkedByIds PROVE DetachedHoldsNothing
  <2> SUFFICES ASSUME Calm, NEW c \in Conns, ~Busy(c), NEW s \in conn[c].detaching,
                      Resolve[s] \notin conn[c].attached, NEW q \in HeldBy(c, Resolve[s])
               PROVE  FALSE
    BY DEF DetachedHoldsNothing
  <2>1. /\ IInv /\ TypeOK /\ ClientInv(c) /\ load.sels \subseteq Workers
    BY <1>1 DEF CalmInv, IInv, Shape
  <2>2. s \in Workers /\ Resolve[s] = s
    BY <1>1, <2>1, SelectorAssumption DEF MarkedByIds
  <2>3. Marked(c) /\ \A p \in Procs : ~Serves(task[p], c)
    BY <2>1, NotBusy DEF ClientInv, Marks
  <2>4. PICK l \in leases : l.conn = c /\ Resolve[l.sel] = Resolve[s]
    BY <1>1, <2>2, HeldIsLeased
  <2> QED BY <2>1, <2>2, <2>3, <2>4, SelectorAssumption DEF Marked
<1> QED BY <1>1, ClosedIsReleased, CalmInductive, MarksAreIds, PTL DEF LeaversHoldNothing

=============================================================================
