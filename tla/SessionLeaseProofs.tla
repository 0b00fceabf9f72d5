------------------------- MODULE SessionLeaseProofs -------------------------
(***************************************************************************)
(* Proofs about SessionLease, for any number of processes, threads and     *)
(* tokens, any stale window, and crashes, delays and I/O errors anywhere.  *)
(***************************************************************************)
EXTENDS SessionLease, TLAPS

USE ActorsAssumption, OwnerAssumption, GuardAssumption, TimeAssumption,
    ModeAssumption

\* A call moves its thread from "idle" to the guard and touches nothing shared.
LEMMA CallPreserves ==
  ASSUME IInv, NEW a \in Actors, CallAcquire(a) \/ CallRelease(a) \/ CallAppend(a)
  PROVE  IInv'
<1>1. CASE CallAcquire(a)
  <2>1. TypeOK'
    BY <1>1 DEF IInv, TypeOK, CallAcquire, Call, Goto, ThroughStale
  <2>2. HeldAlive' /\ CallShape'
    BY <1>1 DEF IInv, TypeOK, HeldAlive, CallShape, CallAcquire, Call, Goto
  <2>3. SectionOwnsGuard' /\ ReadsHold' /\ HeldIsOnDisk'
    BY <1>1 DEF IInv, TypeOK, SectionOwnsGuard, ReadsHold, HeldIsOnDisk,
                InSection, Running, Section, CallAcquire, Call, Goto
  <2> QED BY <2>1, <2>2, <2>3 DEF IInv
<1>2. CASE CallRelease(a)
  <2> PICK o \in Usable : /\ o.proc = ProcOf[a]
                          /\ Call(a, "release", o)
                          /\ released' = released \cup {o}
                          /\ UNCHANGED wait
    BY <1>2 DEF CallRelease
  <2>0. o \in held /\ o \in Owner
    BY DEF IInv, TypeOK, Usable
  <2>1. TypeOK'
    BY <2>0 DEF IInv, TypeOK, Call, Goto
  <2>2. HeldAlive' /\ CallShape'
    BY <2>0 DEF IInv, TypeOK, HeldAlive, CallShape, Call, Goto
  <2>3. SectionOwnsGuard' /\ ReadsHold' /\ HeldIsOnDisk'
    BY <2>0 DEF IInv, TypeOK, SectionOwnsGuard, ReadsHold, HeldIsOnDisk,
                InSection, Running, Section, Call, Goto
  <2> QED BY <2>1, <2>2, <2>3 DEF IInv
<1>3. CASE CallAppend(a)
  <2> PICK o \in Usable : /\ o.proc = ProcOf[a]
                          /\ Call(a, "append", o)
                          /\ UNCHANGED <<released, wait>>
    BY <1>3 DEF CallAppend
  <2>0. o \in held /\ o \in Owner
    BY DEF IInv, TypeOK, Usable
  <2>1. TypeOK'
    BY <2>0 DEF IInv, TypeOK, Call, Goto
  <2>2. HeldAlive' /\ CallShape'
    BY <2>0 DEF IInv, TypeOK, HeldAlive, CallShape, Call, Goto
  <2>3. SectionOwnsGuard' /\ ReadsHold' /\ HeldIsOnDisk'
    BY <2>0 DEF IInv, TypeOK, SectionOwnsGuard, ReadsHold, HeldIsOnDisk,
                InSection, Running, Section, Call, Goto
  <2> QED BY <2>1, <2>2, <2>3 DEF IInv
<1> QED BY <1>1, <1>2, <1>3

\* Waiting for the guard and taking it: only the thread that creates the guard
\* enters its section.
LEMMA GuardStepPreserves ==
  ASSUME IInv, NEW a \in Actors,
         GuardCreate(a) \/ GuardExhausted(a) \/ GuardLooksStale(a) \/ StealReadOwner(a)
  PROVE  IInv'
<1>1. CASE GuardCreate(a)
  <2>1. TypeOK'
    BY <1>1 DEF IInv, TypeOK, CallShape, Guard, Owner, Section, AcquireTries, Running,
                GuardCreate, AtGuard, Goto, FirstStep
  <2>2. HeldAlive' /\ CallShape'
    BY <1>1 DEF IInv, TypeOK, HeldAlive, CallShape, AcquireTries, Running, Owner,
                GuardCreate, AtGuard, Goto, FirstStep
  <2>3. SectionOwnsGuard' /\ ReadsHold' /\ HeldIsOnDisk'
    BY <1>1 DEF IInv, TypeOK, HeldAlive, CallShape, SectionOwnsGuard, ReadsHold,
                HeldIsOnDisk, InSection, Running, Section, Owner, Guard,
                GuardCreate, AtGuard, Goto, FirstStep
  <2> QED BY <2>1, <2>2, <2>3 DEF IInv
<1>2. CASE GuardExhausted(a)
  <2>1. TypeOK'
    BY <1>2 DEF IInv, TypeOK, CallShape, Guard, Owner, Section, AcquireTries, Running,
                GuardExhausted, AtGuard, Return, Goto, ThroughStale
  <2>2. HeldAlive' /\ CallShape'
    BY <1>2 DEF IInv, TypeOK, HeldAlive, CallShape, AcquireTries, Running, Owner,
                GuardExhausted, AtGuard, Return, Goto
  <2>3. SectionOwnsGuard' /\ ReadsHold' /\ HeldIsOnDisk'
    BY <1>2 DEF IInv, TypeOK, HeldAlive, CallShape, SectionOwnsGuard, ReadsHold,
                HeldIsOnDisk, InSection, Running, Section, Owner, Guard,
                GuardExhausted, AtGuard, Return, Goto
  <2> QED BY <2>1, <2>2, <2>3 DEF IInv
<1>3. CASE GuardLooksStale(a)
  <2>1. TypeOK'
    BY <1>3 DEF IInv, TypeOK, CallShape, Guard, Owner, Section, AcquireTries, Running,
                GuardLooksStale, AtGuard, Goto
  <2>2. HeldAlive' /\ CallShape'
    BY <1>3 DEF IInv, TypeOK, HeldAlive, CallShape, AcquireTries, Running, Owner,
                GuardLooksStale, AtGuard, Goto
  <2>3. SectionOwnsGuard' /\ ReadsHold' /\ HeldIsOnDisk'
    BY <1>3 DEF IInv, TypeOK, HeldAlive, CallShape, SectionOwnsGuard, ReadsHold,
                HeldIsOnDisk, InSection, Running, Section, Owner, Guard,
                GuardLooksStale, AtGuard, Goto
  <2> QED BY <2>1, <2>2, <2>3 DEF IInv
<1>4. CASE StealReadOwner(a)
  <2>1. TypeOK'
    BY <1>4 DEF IInv, TypeOK, CallShape, Guard, Owner, Section, AcquireTries, Running,
                StealReadOwner, Goto
  <2>2. HeldAlive' /\ CallShape'
    BY <1>4 DEF IInv, TypeOK, HeldAlive, CallShape, AcquireTries, Running, Owner,
                StealReadOwner, Goto
  <2>3. SectionOwnsGuard' /\ ReadsHold' /\ HeldIsOnDisk'
    BY <1>4 DEF IInv, TypeOK, HeldAlive, CallShape, SectionOwnsGuard, ReadsHold,
                HeldIsOnDisk, InSection, Running, Section, Owner, Guard,
                StealReadOwner, Goto
  <2> QED BY <2>1, <2>2, <2>3 DEF IInv
<1> QED BY <1>1, <1>2, <1>3, <1>4

\* Removing the guard, by a thief or at the end of a section: either the guard
\* was nobody's any more, or it is recorded as torn.
LEMMA RemovalPreserves ==
  ASSUME IInv, NEW a \in Actors,
         StealRemove(a) \/ Unlock(a)
  PROVE  IInv'
<1>1. CASE StealRemove(a)
  <2>1. TypeOK'
    BY <1>1 DEF IInv, TypeOK, CallShape, Guard, Owner, Section, AcquireTries, Running,
                StealRemove, RemoveGuard, Tears, Goto
  <2>2. HeldAlive' /\ CallShape'
    BY <1>1 DEF IInv, TypeOK, HeldAlive, CallShape, AcquireTries, Running, Owner,
                StealRemove, RemoveGuard, Tears, Goto
  <2>3. SectionOwnsGuard' /\ ReadsHold' /\ HeldIsOnDisk'
    BY <1>1 DEF IInv, TypeOK, HeldAlive, CallShape, SectionOwnsGuard, ReadsHold,
                HeldIsOnDisk, InSection, Running, Section, Owner, Guard,
                StealRemove, RemoveGuard, Tears, Goto
  <2> QED BY <2>1, <2>2, <2>3 DEF IInv
<1>2. CASE Unlock(a)
  <2>1. TypeOK'
    BY <1>2 DEF IInv, TypeOK, CallShape, Guard, Owner, Section, AcquireTries, Running,
                Unlock, RemoveGuard, Tears, Return, Goto, ThroughStale
  <2>2. HeldAlive' /\ CallShape'
    BY <1>2 DEF IInv, TypeOK, HeldAlive, CallShape, AcquireTries, Running, Owner,
                Unlock, RemoveGuard, Tears, Return, Goto
  <2>3. SectionOwnsGuard' /\ ReadsHold' /\ HeldIsOnDisk'
    BY <1>2 DEF IInv, TypeOK, HeldAlive, CallShape, SectionOwnsGuard, ReadsHold,
                HeldIsOnDisk, InSection, Running, Section, Owner, Guard,
                Unlock, RemoveGuard, Tears, Return, Goto
  <2> QED BY <2>1, <2>2, <2>3 DEF IInv
<1> QED BY <1>1, <1>2

\* The section of an acquire: it ends up owning the lease only when nobody
\* held it.
LEMMA AcquirePreserves ==
  ASSUME IInv, NEW a \in Actors,
         AcqRename(a) \/ AcqReadOwner(a) \/ AcqReclaim(a)
  PROVE  IInv'
<1>1. CASE AcqRename(a)
  <2>1. TypeOK'
    <3>1. CASE lease = NoOwner
      <4> PICK t \in FreshTokens :
             /\ lease' = [proc |-> ProcOf[a], token |-> t]
             /\ held' = held \cup {lease'}
             /\ tok' = [tok EXCEPT ![a] = lease']
        BY <1>1, <3>1 DEF AcqRename
      <4>1. lease' \in Owner
        BY DEF Owner, FreshTokens
      <4> QED BY <4>1, <1>1, <3>1 DEF IInv, TypeOK, Section, AcqRename, Goto
    <3>2. CASE lease # NoOwner
      BY <1>1, <3>2 DEF IInv, TypeOK, CallShape, Section, AcquireTries, AcqRename, Goto
    <3> QED BY <3>1, <3>2
  <2>2. HeldAlive'
    BY <1>1 DEF IInv, TypeOK, HeldAlive, Running, AcqRename
  <2>4. CallShape'
    BY <1>1 DEF IInv, TypeOK, CallShape, AcquireTries, AcqRename, Goto
  <2>3. SectionOwnsGuard' /\ ReadsHold' /\ HeldIsOnDisk'
    BY <1>1 DEF IInv, TypeOK, HeldAlive, CallShape, SectionOwnsGuard, ReadsHold,
                HeldIsOnDisk, InSection, Running, Section, Owner, Guard,
                AcqRename, Goto, FreshTokens
  <2> QED BY <2>1, <2>2, <2>3, <2>4 DEF IInv
<1>2. CASE AcqReadOwner(a)
  <2>1. TypeOK'
    BY <1>2 DEF IInv, TypeOK, CallShape, Guard, Owner, Section, AcquireTries, Running,
                AcqReadOwner, LiveOwner, OwnerAlive, Goto
  <2>2. HeldAlive' /\ CallShape'
    BY <1>2 DEF IInv, TypeOK, HeldAlive, CallShape, AcquireTries, Running, Owner,
                AcqReadOwner, LiveOwner, OwnerAlive, Goto
  <2>3. SectionOwnsGuard' /\ ReadsHold' /\ HeldIsOnDisk'
    BY <1>2 DEF IInv, TypeOK, HeldAlive, CallShape, SectionOwnsGuard, ReadsHold,
                HeldIsOnDisk, InSection, Running, Section, Owner, Guard,
                AcqReadOwner, LiveOwner, OwnerAlive, Goto
  <2> QED BY <2>1, <2>2, <2>3 DEF IInv
<1>3. CASE AcqReclaim(a)
  <2>1. TypeOK'
    BY <1>3 DEF IInv, TypeOK, CallShape, Guard, Owner, Section, AcquireTries, Running,
                AcqReclaim, ReclaimStale, Goto
  <2>2. HeldAlive' /\ CallShape'
    BY <1>3 DEF IInv, TypeOK, HeldAlive, CallShape, AcquireTries, Running, Owner,
                AcqReclaim, ReclaimStale, Goto
  <2>3. SectionOwnsGuard' /\ ReadsHold' /\ HeldIsOnDisk'
    BY <1>3 DEF IInv, TypeOK, HeldAlive, CallShape, SectionOwnsGuard, ReadsHold,
                HeldIsOnDisk, InSection, Running, Section, Owner, Guard,
                AcqReclaim, ReclaimStale, Goto
  <2> QED BY <2>1, <2>2, <2>3 DEF IInv
<1> QED BY <1>1, <1>2, <1>3

\* The sections of a release and of an append.
LEMMA ReleaseAppendPreserves ==
  ASSUME IInv, NEW a \in Actors,
         RelReadOwner(a) \/ RelReclaim(a) \/ AppReadOwner(a) \/ AppWrite(a)
  PROVE  IInv'
<1>1. CASE RelReadOwner(a)
  <2>1. TypeOK'
    BY <1>1 DEF IInv, TypeOK, CallShape, Guard, Owner, Section, AcquireTries, Running,
                RelReadOwner, Goto
  <2>2. HeldAlive' /\ CallShape'
    BY <1>1 DEF IInv, TypeOK, HeldAlive, CallShape, AcquireTries, Running, Owner,
                RelReadOwner, Goto
  <2>3. SectionOwnsGuard' /\ ReadsHold' /\ HeldIsOnDisk'
    BY <1>1 DEF IInv, TypeOK, HeldAlive, CallShape, SectionOwnsGuard, ReadsHold,
                HeldIsOnDisk, InSection, Running, Section, Owner, Guard,
                RelReadOwner, Goto
  <2> QED BY <2>1, <2>2, <2>3 DEF IInv
<1>2. CASE RelReclaim(a)
  <2>1. TypeOK'
    BY <1>2 DEF IInv, TypeOK, CallShape, Guard, Owner, Section, AcquireTries, Running,
                RelReclaim, ReclaimStale, Goto
  <2>2. HeldAlive' /\ CallShape'
    BY <1>2 DEF IInv, TypeOK, HeldAlive, CallShape, AcquireTries, Running, Owner,
                RelReclaim, ReclaimStale, Goto
  <2>3. SectionOwnsGuard' /\ ReadsHold' /\ HeldIsOnDisk'
    BY <1>2 DEF IInv, TypeOK, HeldAlive, CallShape, SectionOwnsGuard, ReadsHold,
                HeldIsOnDisk, InSection, Running, Section, Owner, Guard,
                RelReclaim, ReclaimStale, Goto
  <2> QED BY <2>1, <2>2, <2>3 DEF IInv
<1>3. CASE AppReadOwner(a)
  <2>1. TypeOK'
    BY <1>3 DEF IInv, TypeOK, CallShape, Guard, Owner, Section, AcquireTries, Running,
                AppReadOwner, Goto
  <2>2. HeldAlive' /\ CallShape'
    BY <1>3 DEF IInv, TypeOK, HeldAlive, CallShape, AcquireTries, Running, Owner,
                AppReadOwner, Goto
  <2>3. SectionOwnsGuard' /\ ReadsHold' /\ HeldIsOnDisk'
    BY <1>3 DEF IInv, TypeOK, HeldAlive, CallShape, SectionOwnsGuard, ReadsHold,
                HeldIsOnDisk, InSection, Running, Section, Owner, Guard,
                AppReadOwner, Goto
  <2> QED BY <2>1, <2>2, <2>3 DEF IInv
<1>4. CASE AppWrite(a)
  <2>1. TypeOK'
    BY <1>4 DEF IInv, TypeOK, CallShape, Guard, Owner, Section, AcquireTries, Running,
                AppWrite, Goto
  <2>2. HeldAlive' /\ CallShape'
    BY <1>4 DEF IInv, TypeOK, HeldAlive, CallShape, AcquireTries, Running, Owner,
                AppWrite, Goto
  <2>3. SectionOwnsGuard' /\ ReadsHold' /\ HeldIsOnDisk'
    BY <1>4 DEF IInv, TypeOK, HeldAlive, CallShape, SectionOwnsGuard, ReadsHold,
                HeldIsOnDisk, InSection, Running, Section, Owner, Guard,
                AppWrite, Goto
  <2> QED BY <2>1, <2>2, <2>3 DEF IInv
<1> QED BY <1>1, <1>2, <1>3, <1>4

\* The last Arc of a released object goes away.
LEMMA DropPreserves ==
  ASSUME IInv, NEW o \in held, DropLease(o)
  PROVE  IInv'
<1>1. TypeOK' /\ HeldAlive' /\ CallShape'
  BY DEF IInv, TypeOK, HeldAlive, CallShape, DropLease
<1>2. SectionOwnsGuard' /\ ReadsHold' /\ HeldIsOnDisk'
  BY DEF IInv, TypeOK, SectionOwnsGuard, ReadsHold, HeldIsOnDisk, InSection, Running,
         DropLease
<1> QED BY <1>1, <1>2 DEF IInv

\* A kill takes the objects and the calls of one process, and no directory.
LEMMA CrashPreserves ==
  ASSUME IInv, NEW p \in Procs, Crash(p)
  PROVE  IInv'
<1>1. TypeOK'
  BY DEF IInv, TypeOK, Crash, ThroughStale, AcquireTries
<1>2. HeldAlive' /\ CallShape'
  BY DEF IInv, TypeOK, HeldAlive, CallShape, Crash
<1>3. SectionOwnsGuard' /\ ReadsHold' /\ HeldIsOnDisk'
  BY DEF IInv, TypeOK, SectionOwnsGuard, ReadsHold, HeldIsOnDisk, InSection, Running,
         Section, Crash
<1> QED BY <1>1, <1>2, <1>3 DEF IInv

\* Time ages the guard and shortens the waits.
LEMMA TickPreserves ==
  ASSUME IInv, Tick
  PROVE  IInv'
<1>1. TypeOK'
  BY DEF IInv, TypeOK, Tick, Guard, ThroughStale
<1>2. HeldAlive' /\ CallShape'
  BY DEF IInv, TypeOK, HeldAlive, CallShape, Tick
<1>3. SectionOwnsGuard' /\ ReadsHold' /\ HeldIsOnDisk'
  BY DEF IInv, TypeOK, SectionOwnsGuard, ReadsHold, HeldIsOnDisk, InSection, Running,
         Section, Guard, Tick
<1> QED BY <1>1, <1>2, <1>3 DEF IInv

-----------------------------------------------------------------------------

\* An empty agent directory with no call in flight satisfies the invariant.
LEMMA InitEstablishes == Init => IInv
<1> SUFFICES ASSUME Init PROVE IInv
  OBVIOUS
<1>1. TypeOK
  <2>1. 0 \in 0..AcquireTries /\ 0 \in 0..ThroughStale
    BY DEF AcquireTries, ThroughStale
  <2> QED BY <2>1 DEF Init, TypeOK
<1>2. HeldAlive /\ CallShape
  BY DEF Init, HeldAlive, CallShape
<1>3. SectionOwnsGuard /\ ReadsHold /\ HeldIsOnDisk
  BY DEF Init, SectionOwnsGuard, ReadsHold, HeldIsOnDisk, InSection, Section
<1> QED BY <1>1, <1>2, <1>3 DEF IInv

\* Every file-system call, crash and tick preserves it (the lemmas above, one per
\* group of actions).
LEMMA StepPreserves == IInv /\ [Next]_vars => IInv'
<1> SUFFICES ASSUME IInv, [Next]_vars PROVE IInv'
  OBVIOUS
<1>1. ASSUME NEW a \in Actors, CallAcquire(a) \/ CallRelease(a) \/ CallAppend(a)
      PROVE  IInv'
  BY <1>1, CallPreserves
<1>2. ASSUME NEW a \in Actors, Step(a)
      PROVE  IInv'
  BY <1>2, GuardStepPreserves, RemovalPreserves, AcquirePreserves,
     ReleaseAppendPreserves DEF Step
<1>3. ASSUME NEW o \in held, DropLease(o)
      PROVE  IInv'
  BY <1>3, DropPreserves
<1>4. ASSUME NEW p \in Procs, Crash(p)
      PROVE  IInv'
  BY <1>4, CrashPreserves
<1>5. CASE Tick
  BY <1>5, TickPreserves
<1>6. CASE UNCHANGED vars
  BY <1>6 DEF vars, IInv, TypeOK, HeldAlive, CallShape, SectionOwnsGuard, ReadsHold,
              HeldIsOnDisk, InSection, Running
<1> QED BY <1>1, <1>2, <1>3, <1>4, <1>5, <1>6 DEF Next

\* The invariant holds throughout every behaviour of the lease protocol.
LEMMA Invariance == Spec => []IInv
BY InitEstablishes, StepPreserves, PTL DEF Spec

\* Every variable of the lease protocol keeps its type (all of lease.rs).
THEOREM TypeCorrect == Spec => []TypeOK
<1>1. IInv => TypeOK
  BY DEF IInv
<1> QED BY <1>1, Invariance, PTL

\* Up to the first time a live holder's guard is removed, a live runtime's lease
\* is the one on disk (acquire_runtime_session_lease, release, live_lease_owner).
THEOREM HeldLeaseIsOnDisk == Spec => []HeldIsOnDisk
<1>1. IInv => HeldIsOnDisk
  BY DEF IInv
<1> QED BY <1>1, Invariance, PTL

\* Under the same condition at most one runtime is hosted: "One process may host
\* one runtime per canonical session file" (lease.rs:3).
THEOREM OneRuntimeWhileUntorn == Spec => [](~torn => OneRuntimePerFile)
<1>1. IInv => (~torn => OneRuntimePerFile)
  BY DEF IInv, HeldIsOnDisk, OneRuntimePerFile
<1> QED BY <1>1, Invariance, PTL

\* Under the same condition the rows of an append are written by the owner alone
\* (SessionLease::append).
THEOREM SerializedCommits == Spec => []CommitsAreSerialized
<1>1. IInv => CommitsAreSerialized
  BY DEF IInv, ReadsHold, SectionOwnsGuard, CommitsAreSerialized, InSection, Section
<1> QED BY <1>1, Invariance, PTL

\* Under the same condition no step takes a live owner's lease: reclaim_stale,
\* which renames away whatever it finds, only ever finds what was read.
THEOREM LiveOwnerIsKept == Spec => LiveOwnerKept
<1> DEFINE Kept == ~torn /\ lease \in held \ released => lease' = lease
<1>1. IInv /\ [Next]_vars => Kept
  <2> SUFFICES ASSUME IInv, [Next]_vars, ~torn, lease \in held \ released
               PROVE  lease' = lease
    OBVIOUS
  <2>0. lease # NoOwner
    BY DEF IInv, TypeOK, Owner
  <2>1. ASSUME NEW a \in Actors, Step(a)
        PROVE  lease' = lease
    BY <2>0, <2>1 DEF Step, GuardCreate, GuardExhausted, GuardLooksStale,
         StealReadOwner, StealRemove, Unlock, AcqRename, AcqReadOwner, AcqReclaim,
         RelReadOwner, RelReclaim, AppReadOwner, AppWrite, IInv, CallShape, ReadsHold
  <2> QED BY <2>1 DEF Next, vars, CallAcquire, CallRelease, CallAppend, Call,
                      DropLease, Crash, Tick
<1> QED BY <1>1, Invariance, PTL DEF Spec, LiveOwnerKept

=============================================================================
