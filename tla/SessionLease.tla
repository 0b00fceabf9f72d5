---------------------------- MODULE SessionLease ----------------------------
(***************************************************************************)
(* The runtime lease of ONE session file (crates/pa-daemon/src/lease.rs).  *)
(*                                                                         *)
(* Several processes share an agent directory.  `<key>.lock` is the lease  *)
(* directory and names its owner; `<key>.lock.guard` is a bare directory   *)
(* that serializes the mutations of the lease.  Every step below is one    *)
(* file-system call (mkdir, stat, read, rename, rmdir), the grain at which *)
(* the processes really interleave, and a process may be killed between    *)
(* any two of them.  A killed process never returns: a relaunch, or a pid  *)
(* recycled by the kernel, is another member of Procs, which is what the   *)
(* start-identity check of owner_alive achieves.                           *)
(***************************************************************************)
EXTENDS Naturals, FiniteSets

CONSTANTS
  Procs,         \* process incarnations that open this session
  Actors,        \* threads of those processes that call the lease API
  ProcOf,        \* the process a thread belongs to
  Tokens,        \* the uuids that can be in use at one time (bound)
  NoOwner,       \* read_owner = Ok(None): no owner.json
  NoGuard,       \* no guard directory
  Unverifiable,  \* processes whose liveness the platform cannot answer
  StaleAfter,    \* STALE_GUARD_AFTER, in ticks
  Slack,         \* THROUGH_STALE_SLACK, in ticks
  Prompt,        \* no runnable thread is held up for a whole tick
  IOErrors       \* owner reads and the reclaim rename may fail

ASSUME ActorsAssumption == ProcOf \in [Actors -> Procs]
ASSUME OwnerAssumption == NoOwner \notin [proc : Procs, token : Tokens]
ASSUME GuardAssumption == NoGuard \notin [by : Actors, age : 0..(StaleAfter + 1)]
ASSUME TimeAssumption == StaleAfter \in Nat /\ Slack \in Nat
ASSUME ModeAssumption == Prompt \in BOOLEAN /\ IOErrors \in BOOLEAN

VARIABLES
  alive,     \* alive[p]: process p is running
  guard,     \* the guard directory: who made it (history only) and its age
  lease,     \* the lease directory: its owner.json, or NoOwner
  held,      \* SessionLease objects that exist in a live process
  released,  \* those whose `released` flag is set
  op,        \* op[a]: the lease call thread a is in
  pc,        \* pc[a]: the next file-system call of thread a
  tok,       \* tok[a]: the SessionLease object a's call is about
  tries,     \* tries[a]: renames this acquire has attempted
  wait,      \* wait[a]: ticks left before a's guard deadline
  torn       \* history: the guard of a live holder has been removed by another

vars == <<alive, guard, lease, held, released, op, pc, tok, tries, wait, torn>>

Owner == [proc : Procs, token : Tokens]

Guard == [by : Actors, age : 0..(StaleAfter + 1)]

\* `for _ in 0..3`
AcquireTries == 3

\* Mutant: an open gives up when the guard turns stale.
ThroughStale_NoSlack == StaleAfter

\* The deadline of GuardWait::ThroughStale.
ThroughStale == StaleAfter + Slack

\* The steps taken inside with_lease_guard's action, and the removal after it.
Section == {"acqRename", "acqReadOwner", "acqReclaim", "relReadOwner",
            "relReclaim", "appReadOwner", "appWrite", "unlock"}

FirstStep == [acquire |-> "acqRename", release |-> "relReadOwner",
              append |-> "appReadOwner"]

TypeOK ==
  /\ alive \in [Procs -> BOOLEAN]
  /\ guard \in Guard \cup {NoGuard}
  /\ lease \in Owner \cup {NoOwner}
  /\ held \subseteq Owner
  /\ released \subseteq held
  /\ op \in [Actors -> {"none", "acquire", "release", "append"}]
  /\ pc \in [Actors -> Section \cup {"idle", "guard", "stealReadOwner", "stealRemove"}]
  /\ tok \in [Actors -> Owner \cup {NoOwner}]
  /\ tries \in [Actors -> 0..AcquireTries]
  /\ wait \in [Actors -> 0..ThroughStale]
  /\ torn \in BOOLEAN

Init ==
  /\ alive = [p \in Procs |-> TRUE]
  /\ guard = NoGuard
  /\ lease = NoOwner
  /\ held = {}
  /\ released = {}
  /\ op = [a \in Actors |-> "none"]
  /\ pc = [a \in Actors |-> "idle"]
  /\ tok = [a \in Actors |-> NoOwner]
  /\ tries = [a \in Actors |-> 0]
  /\ wait = [a \in Actors |-> 0]
  /\ torn = FALSE

-----------------------------------------------------------------------------
(* Helpers *)

Running(a) == alive[ProcOf[a]]

\* Mutant: an owner whose liveness cannot be established counts as dead.
OwnerAlive_DoubtIsDeath(o) == alive[o.proc] /\ o.proc \notin Unverifiable

\* owner_alive: a dead pid, or a recycled one, is dead; an owner whose
\* liveness cannot be established counts as alive.
OwnerAlive(o) == alive[o.proc] \/ o.proc \in Unverifiable

\* The owner read finds a process that must not be displaced.
LiveOwner == lease # NoOwner /\ OwnerAlive(lease)

InSection(a) == Running(a) /\ pc[a] \in Section

\* uuid::new_v4: a token nothing refers to any more is as good as a new one.
FreshTokens ==
  {t \in Tokens : \A o \in held \cup {lease} \cup {tok[a] : a \in Actors} :
                     o # NoOwner => o.token # t}

\* Mutant: any guard in the way is a stale one.
GuardStale_AnyAge == guard # NoGuard

\* The guard is older than STALE_GUARD_AFTER.
GuardStale == guard # NoGuard /\ guard.age > StaleAfter

\* Removing the guard directory takes away a live holder's exclusion when that
\* holder is another thread still inside its section.
Tears(a) == guard # NoGuard /\ guard.by # a /\ InSection(guard.by)

RemoveGuard(a) == guard' = NoGuard /\ torn' = (torn \/ Tears(a))

Goto(a, step) == pc' = [pc EXCEPT ![a] = step]

\* The call returns to its caller.
Return(a) ==
  /\ Goto(a, "idle")
  /\ op' = [op EXCEPT ![a] = "none"]
  /\ tok' = [tok EXCEPT ![a] = NoOwner]
  /\ tries' = [tries EXCEPT ![a] = 0]
  /\ wait' = [wait EXCEPT ![a] = 0]

\* Objects a caller of `acquire` has got back and not released.
Usable == {o \in held \ released :
             \A a \in Actors : op[a] = "acquire" => tok[a] # o}

-----------------------------------------------------------------------------
(* The calls *)

Call(a, what, o) ==
  /\ Running(a)
  /\ pc[a] = "idle"
  /\ Goto(a, "guard")
  /\ op' = [op EXCEPT ![a] = what]
  /\ tok' = [tok EXCEPT ![a] = o]
  /\ UNCHANGED <<alive, guard, lease, held, tries, torn>>

\* acquire_runtime_session_lease: waits for the guard through its stale window.
CallAcquire(a) ==
  /\ Call(a, "acquire", NoOwner)
  /\ wait' = [wait EXCEPT ![a] = ThroughStale]
  /\ UNCHANGED released

\* SessionLease::release, explicit or from Drop: the first call wins the swap.
CallRelease(a) ==
  \E o \in Usable :
    /\ o.proc = ProcOf[a]
    /\ Call(a, "release", o)
    /\ released' = released \cup {o}
    /\ UNCHANGED wait

\* SessionLease::append, refused at once when the object was released.
CallAppend(a) ==
  \E o \in Usable :
    /\ o.proc = ProcOf[a]
    /\ Call(a, "append", o)
    /\ UNCHANGED <<released, wait>>

\* The last Arc of a released object is dropped.
DropLease(o) ==
  /\ o \in released
  /\ \A a \in Actors : tok[a] # o
  /\ held' = held \ {o}
  /\ released' = released \ {o}
  /\ UNCHANGED <<alive, guard, lease, op, pc, tok, tries, wait, torn>>

-----------------------------------------------------------------------------
(* with_lease_guard *)

AtGuard(a) == Running(a) /\ pc[a] = "guard"

\* create_dir succeeds.
GuardCreate(a) ==
  /\ AtGuard(a)
  /\ guard = NoGuard
  /\ guard' = [by |-> a, age |-> 0]
  /\ Goto(a, FirstStep[op[a]])
  /\ UNCHANGED <<alive, lease, held, released, op, tok, tries, wait, torn>>

\* The budget is spent: the deadline for an open, the (unmodelled) count of
\* fast attempts for a release or an append.  The call fails; a release that
\* fails here leaves its lease behind.
GuardExhausted(a) ==
  /\ AtGuard(a)
  /\ guard # NoGuard
  /\ op[a] = "acquire" => wait[a] = 0
  /\ Return(a)
  /\ UNCHANGED <<alive, guard, lease, held, released, torn>>

\* The guard is old enough for its owner to be looked at.
GuardLooksStale(a) ==
  /\ AtGuard(a)
  /\ op[a] = "acquire" => wait[a] > 0
  /\ GuardStale
  /\ Goto(a, "stealReadOwner")
  /\ UNCHANGED <<alive, guard, lease, held, released, op, tok, tries, wait, torn>>

\* The lease owner stands in for the guard's holder.
StealReadOwner(a) ==
  /\ Running(a)
  /\ pc[a] = "stealReadOwner"
  /\ \/ ~LiveOwner /\ Goto(a, "stealRemove")
     \/ (LiveOwner \/ IOErrors) /\ Goto(a, "guard")
  /\ UNCHANGED <<alive, guard, lease, held, released, op, tok, tries, wait, torn>>

\* remove_dir_all takes whatever guard is there by now; if none is, the failed
\* removal leads back to the same loop.
StealRemove(a) ==
  /\ Running(a)
  /\ pc[a] = "stealRemove"
  /\ RemoveGuard(a)
  /\ Goto(a, "guard")
  /\ UNCHANGED <<alive, lease, held, released, op, tok, tries, wait>>

\* The removal after the action, unconditional, and the return.
Unlock(a) ==
  /\ Running(a)
  /\ pc[a] = "unlock"
  /\ RemoveGuard(a)
  /\ Return(a)
  /\ UNCHANGED <<alive, lease, held, released>>

-----------------------------------------------------------------------------
(* The action of acquire *)

\* A candidate with its owner.json is renamed onto the lease directory.  The
\* candidate is private to the thread until then.
AcqRename(a) ==
  /\ Running(a)
  /\ pc[a] = "acqRename"
  /\ \/ /\ lease = NoOwner
        /\ \E t \in FreshTokens :
             /\ lease' = [proc |-> ProcOf[a], token |-> t]
             /\ held' = held \cup {lease'}
             /\ tok' = [tok EXCEPT ![a] = lease']
        /\ Goto(a, "unlock")
        /\ UNCHANGED tries
     \/ /\ lease # NoOwner
        /\ Goto(a, "acqReadOwner")
        /\ tries' = [tries EXCEPT ![a] = @ + 1]
        /\ UNCHANGED <<lease, held, tok>>
  /\ UNCHANGED <<alive, guard, released, op, wait, torn>>

\* A live owner refuses the open (session_already_active), an unreadable one
\* fails it; anything else is reclaimed.
AcqReadOwner(a) ==
  /\ Running(a)
  /\ pc[a] = "acqReadOwner"
  /\ \/ (LiveOwner \/ IOErrors) /\ Goto(a, "unlock")
     \/ ~LiveOwner /\ Goto(a, "acqReclaim")
  /\ UNCHANGED <<alive, guard, lease, held, released, op, tok, tries, wait, torn>>

\* reclaim_stale: renames away whatever is at the lease path by now.
ReclaimStale == lease' = NoOwner \/ (IOErrors /\ lease' = lease)

\* Mutant: one attempt too many.
AcqReclaim_FourthTry(a) ==
  /\ Running(a)
  /\ pc[a] = "acqReclaim"
  /\ ReclaimStale
  /\ Goto(a, IF tries[a] <= AcquireTries THEN "acqRename" ELSE "unlock")
  /\ UNCHANGED <<alive, guard, held, released, op, tok, tries, wait, torn>>

\* After the third attempt only the choice of the error message is left.
AcqReclaim(a) ==
  /\ Running(a)
  /\ pc[a] = "acqReclaim"
  /\ ReclaimStale
  /\ Goto(a, IF tries[a] < AcquireTries THEN "acqRename" ELSE "unlock")
  /\ UNCHANGED <<alive, guard, held, released, op, tok, tries, wait, torn>>

-----------------------------------------------------------------------------
(* The actions of release and append *)

\* Only the owner of this very token is reclaimed.
RelReadOwner(a) ==
  /\ Running(a)
  /\ pc[a] = "relReadOwner"
  /\ \/ lease = tok[a] /\ Goto(a, "relReclaim")
     \/ (lease # tok[a] \/ IOErrors) /\ Goto(a, "unlock")
  /\ UNCHANGED <<alive, guard, lease, held, released, op, tok, tries, wait, torn>>

RelReclaim(a) ==
  /\ Running(a)
  /\ pc[a] = "relReclaim"
  /\ ReclaimStale
  /\ Goto(a, "unlock")
  /\ UNCHANGED <<alive, guard, held, released, op, tok, tries, wait, torn>>

\* Mutant: the check made before the wait for the guard is trusted.
AppReadOwner_Unchecked(a) ==
  /\ Running(a)
  /\ pc[a] = "appReadOwner"
  /\ Goto(a, "appWrite")
  /\ UNCHANGED <<alive, guard, lease, held, released, op, tok, tries, wait, torn>>

\* The final ownership check of an append.
AppReadOwner(a) ==
  /\ Running(a)
  /\ pc[a] = "appReadOwner"
  /\ \/ lease = tok[a] /\ tok[a] \notin released /\ Goto(a, "appWrite")
     \/ (lease # tok[a] \/ tok[a] \in released \/ IOErrors) /\ Goto(a, "unlock")
  /\ UNCHANGED <<alive, guard, lease, held, released, op, tok, tries, wait, torn>>

\* append_cached: a thread at "appWrite" is writing and syncing its rows.
AppWrite(a) ==
  /\ Running(a)
  /\ pc[a] = "appWrite"
  /\ Goto(a, "unlock")
  /\ UNCHANGED <<alive, guard, lease, held, released, op, tok, tries, wait, torn>>

-----------------------------------------------------------------------------
(* The environment *)

\* kill -9: memory goes, directories stay.
Crash(p) ==
  /\ alive[p]
  /\ alive' = [alive EXCEPT ![p] = FALSE]
  /\ held' = {o \in held : o.proc # p}
  /\ released' = {o \in released : o.proc # p}
  /\ op' = [a \in Actors |-> IF ProcOf[a] = p THEN "none" ELSE op[a]]
  /\ pc' = [a \in Actors |-> IF ProcOf[a] = p THEN "idle" ELSE pc[a]]
  /\ tok' = [a \in Actors |-> IF ProcOf[a] = p THEN NoOwner ELSE tok[a]]
  /\ tries' = [a \in Actors |-> IF ProcOf[a] = p THEN 0 ELSE tries[a]]
  /\ wait' = [a \in Actors |-> IF ProcOf[a] = p THEN 0 ELSE wait[a]]
  /\ UNCHANGED <<guard, lease, torn>>

\* A thread that only sleeps until its next look at the guard.
Asleep(a) ==
  AtGuard(a) => /\ guard # NoGuard
                /\ ~GuardStale \/ LiveOwner
                /\ op[a] = "acquire" => wait[a] > 0

Tick ==
  /\ Prompt => \A a \in Actors :
                 /\ ~(Running(a) /\ pc[a] \in Section \cup {"stealReadOwner", "stealRemove"})
                 /\ Asleep(a)
  /\ \/ guard # NoGuard /\ guard.age <= StaleAfter
     \/ \E a \in Actors : wait[a] > 0
  /\ guard' = IF guard # NoGuard /\ guard.age <= StaleAfter
                THEN [guard EXCEPT !.age = @ + 1] ELSE guard
  /\ wait' = [a \in Actors |-> IF wait[a] > 0 THEN wait[a] - 1 ELSE 0]
  /\ UNCHANGED <<alive, lease, held, released, op, pc, tok, tries, torn>>

-----------------------------------------------------------------------------

Step(a) ==
  \/ GuardCreate(a) \/ GuardExhausted(a) \/ GuardLooksStale(a)
  \/ StealReadOwner(a) \/ StealRemove(a) \/ Unlock(a)
  \/ AcqRename(a) \/ AcqReadOwner(a) \/ AcqReclaim(a)
  \/ RelReadOwner(a) \/ RelReclaim(a)
  \/ AppReadOwner(a) \/ AppWrite(a)

Next ==
  \/ \E a \in Actors : CallAcquire(a) \/ CallRelease(a) \/ CallAppend(a) \/ Step(a)
  \/ \E o \in held : DropLease(o)
  \/ \E p \in Procs : Crash(p)
  \/ Tick

Spec == Init /\ [][Next]_vars

\* Threads are scheduled and time passes; nobody is obliged to call anything.
FairSpec ==
  /\ Spec
  /\ \A a \in Actors : WF_vars(Step(a))
  /\ WF_vars(Tick)

\* Every process keeps trying to open the session.
RetrySpec == FairSpec /\ \A a \in Actors : WF_vars(CallAcquire(a))

-----------------------------------------------------------------------------
(* The inductive invariant *)

\* Only live processes have objects in memory.
HeldAlive == \A o \in held : alive[o.proc]

\* Where in a call a thread can be.
CallShape ==
  \A a \in Actors :
    /\ pc[a] \in {"guard", "stealReadOwner", "stealRemove"} => op[a] # "none"
    /\ pc[a] \in {"idle", "guard", "stealReadOwner", "stealRemove"} => tries[a] = 0
    /\ pc[a] = "acqRename" => tries[a] < AcquireTries
    /\ pc[a] \in {"acqRename", "acqReadOwner", "acqReclaim"} => op[a] = "acquire"
    /\ pc[a] \in {"relReadOwner", "relReclaim"} => op[a] = "release"
    /\ op[a] = "release" => tok[a] \in released /\ tok[a].proc = ProcOf[a]

\* A thread in its section made the guard that is there now: at most one is.
SectionOwnsGuard ==
  ~torn => \A a \in Actors : InSection(a) => guard # NoGuard /\ guard.by = a

\* What a thread read of the owner still holds when it acts on it.
ReadsHold ==
  ~torn => \A a \in Actors : Running(a) =>
             /\ pc[a] = "appWrite" => lease = tok[a]
             /\ pc[a] = "relReclaim" => lease = tok[a]
             /\ pc[a] = "acqReclaim" => lease \notin held

-----------------------------------------------------------------------------
(* Properties *)

\* "One process may host one runtime per canonical session file" (lease.rs:3).
OneRuntimePerFile == \A o1, o2 \in held \ released : o1 = o2

\* As long as no live holder has lost its guard, a live runtime's lease is the
\* one on disk: a probe (live_lease_owner) never misses it, and no second
\* process can have acquired the file.
HeldIsOnDisk == ~torn => \A o \in held \ released : lease = o

\* Same condition: a thread writing rows is the only one to do so, owns the
\* lease, and is alone between its ownership check and the end of its write.
CommitsAreSerialized ==
  ~torn => \A a \in Actors :
             Running(a) /\ pc[a] = "appWrite" =>
               /\ lease = tok[a]
               /\ \A b \in Actors \ {a} : ~InSection(b)

\* Same condition: nothing but its own release takes the lease of a live
\* process, whatever a stale read of the owner said earlier.
LiveOwnerKept == [][~torn /\ lease \in held \ released => lease' = lease]_vars

\* The wait of an open covers the stale window: the last live process gets the
\* lease at its first attempt whatever the dead ones left behind.
LoneOpenSucceeds ==
  \A a \in Actors :
    (/\ AtGuard(a) /\ op[a] = "acquire" /\ wait[a] = ThroughStale
     /\ ~LiveOwner
     /\ \A p \in Procs \ {ProcOf[a]} : ~alive[p])
      ~> (held # {} \/ ~Running(a))

\* The inductive invariant behind HeldIsOnDisk, CommitsAreSerialized and
\* LiveOwnerKept.
IInv ==
  TypeOK /\ HeldAlive /\ CallShape /\ SectionOwnsGuard /\ ReadsHold /\ HeldIsOnDisk

\* "A guard older than this is stale and gets reclaimed" (lease.rs:230).
StaleGuardReclaimed ==
  GuardStale ~> (~GuardStale \/ \A p \in Procs : ~alive[p])

=============================================================================
