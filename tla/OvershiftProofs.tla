-------------------------- MODULE OvershiftProofs ---------------------------
(***************************************************************************)
(* The lock, for every number of instances, every lease length and every   *)
(* retry policy: its invariants, and that it implements a lease.           *)
(*                                                                         *)
(* The migration engine, for every number of deployments and rollbacks and *)
(* every set of files: the runs use the lock as LeaderLock describes it,   *)
(* their variables keep their types, their critical sections exclude each  *)
(* other, and rows tell the truth; recorded versions stay a prefix,        *)
(* apply() returns Ok only with everything deployed, a checksum is logged  *)
(* only with every module of its plan in the database, and a rollback      *)
(* without error removed what it saw.                                      *)
(***************************************************************************)
EXTENDS Overshift, Extrema

\* An instance sleeps only before an attempt it still has (lock.rs, acquire):
\* this is what bounds the loop variable, and makes the typing inductive.
SleepersMayRetry ==
  \A i \in Instance : pc[i] = "sleep" => attempt[i] < MaxRetries

\* A record that was never created holds nothing.
NoRecordNoHolder == ~seeded => holder = NoHolder

LockInv == LockTypeOK /\ SleepersMayRetry /\ NoRecordNoHolder

\* The inductive invariant of the lock (lock.rs, acquire and try_acquire).
LEMMA LockInvariant == LockSpec => []LockInv
<1> USE LockAssumption DEF LockAssumption, LockInv, SleepersMayRetry, NoRecordNoHolder
<1>1. LockInit => LockInv
  <2> SUFFICES ASSUME LockInit PROVE LockInv
    OBVIOUS
  <2>1. pc \in [Instance -> Location] /\ seeded \in BOOLEAN
    BY DEF LockInit, Location
  <2>2. attempt \in [Instance -> 0 .. MaxRetries] /\ sleep \in [Instance -> 0 .. RetryInterval]
    BY DEF LockInit
  <2>3. left \in [Instance -> -1 .. LeaseTicks] /\ ttl \in -1 .. LeaseTicks
    BY DEF LockInit
  <2> QED
    BY <2>1, <2>2, <2>3 DEF LockInit, LockTypeOK
<1>2. LockInv /\ [LockNext]_lockVars => LockInv'
  <2> SUFFICES ASSUME LockInv, [LockNext]_lockVars
               PROVE  LockInv'
    OBVIOUS
  <2> USE DEF LockTypeOK, Location, Acquiring, record
  <2>1. ASSUME NEW i \in Instance, Acquire(i) PROVE LockInv'
    BY <2>1 DEF Acquire
  <2>2. ASSUME NEW i \in Instance, Seed(i) PROVE LockInv'
    BY <2>2 DEF Seed
  <2>3. ASSUME NEW i \in Instance, CheckHeld(i) PROVE LockInv'
    BY <2>3 DEF CheckHeld, Leave
  <2>4. ASSUME NEW i \in Instance, Claim(i) PROVE LockInv'
    BY <2>4 DEF Claim, Claimable, Leave
  <2>5. ASSUME NEW i \in Instance, ClaimMiss(i) PROVE LockInv'
    BY <2>5 DEF ClaimMiss, Leave
  <2>6. ASSUME NEW i \in Instance, ClaimFails(i) PROVE LockInv'
    BY <2>6 DEF ClaimFails, Leave
  <2>7. ASSUME NEW i \in Instance, Wake(i) PROVE LockInv'
    BY <2>7 DEF Wake
  <2>8. ASSUME NEW i \in Instance, Release(i) PROVE LockInv'
    BY <2>8 DEF Release, ReleaseRow, SetFree
  <2>9. ASSUME NEW i \in Instance, ForceRelease(i) PROVE LockInv'
    BY <2>9 DEF ForceRelease, SetFree
  <2>10. ASSUME NEW i \in Instance, Crash(i) PROVE LockInv'
    BY <2>10 DEF Crash, Leave
  <2>11. CASE Tick
    BY <2>11 DEF Tick, CountDown
  <2>12. CASE UNCHANGED lockVars
    BY <2>12 DEF lockVars
  <2> QED
    BY <2>1, <2>2, <2>3, <2>4, <2>5, <2>6, <2>7, <2>8, <2>9, <2>10, <2>11, <2>12
    DEF LockNext, AcquireStep
<1> QED
  BY <1>1, <1>2, PTL DEF LockSpec

\* Every variable of the lock keeps its type; in particular an instance
\* never makes more than MAX_RETRIES attempts (lock.rs, acquire).
THEOREM LockTypeCorrect == LockSpec => []LockTypeOK
  BY LockInvariant, PTL DEF LockInv

\* A lease the database granted is in the record until it runs out.
THEOREM LeasesAgree == LockSpec => []LeaseAgrees
<1> USE LockAssumption DEF LockAssumption
<1>1. LockInit => LeaseAgrees
  BY DEF LockInit, LeaseAgrees
<1>2. LockInv /\ LeaseAgrees /\ [LockNext]_lockVars => LeaseAgrees'
  <2> SUFFICES ASSUME LockInv, LeaseAgrees, [LockNext]_lockVars
               PROVE  LeaseAgrees'
    OBVIOUS
  <2> USE DEF LockInv, NoRecordNoHolder, LockTypeOK, LeaseAgrees
  <2>1. ASSUME UNCHANGED <<holder, ttl, left>> PROVE LeaseAgrees'
    BY <2>1
  <2>2. ASSUME NEW i \in Instance, Claim(i) PROVE LeaseAgrees'
    BY <2>2 DEF Claim, Claimable
  <2>3. ASSUME NEW i \in Instance, Release(i) PROVE LeaseAgrees'
    BY <2>3 DEF Release, ReleaseRow, SetFree
  <2>4. ASSUME NEW i \in Instance, ForceRelease(i) PROVE LeaseAgrees'
    BY <2>4 DEF ForceRelease, SetFree
  <2>5. CASE Tick
    BY <2>5 DEF Tick, CountDown
  <2>6. ASSUME NEW i \in Instance,
               Acquire(i) \/ Seed(i) \/ CheckHeld(i) \/ ClaimMiss(i)
                 \/ ClaimFails(i) \/ Wake(i) \/ Crash(i)
        PROVE  UNCHANGED <<holder, ttl, left>>
    BY <2>6 DEF Acquire, Seed, CheckHeld, ClaimMiss, ClaimFails, Wake, Crash, record
  <2> QED
    BY <2>1, <2>2, <2>3, <2>4, <2>5, <2>6 DEF LockNext, AcquireStep, lockVars
<1> QED
  BY <1>1, <1>2, LockInvariant, PTL DEF LockSpec

\* acquire() hands out nothing but running leases.
THEOREM AcquiredLeased == LockSpec => AcquiredIsLeased
<1>1. LockInv /\ LeaseAgrees /\ [LockNext]_lockVars
        => [\A i \in Instance : pc[i] # "held" /\ pc'[i] = "held" => left'[i] > 0]_lockVars
  <2> SUFFICES ASSUME LockInv, LeaseAgrees, LockNext,
                      NEW i \in Instance, pc[i] # "held", pc'[i] = "held"
               PROVE  left'[i] > 0
    BY DEF lockVars
  <2> USE LockAssumption DEF LockAssumption, LockInv, LockTypeOK
  <2>1. ASSUME NEW j \in Instance, CheckHeld(j) PROVE left'[i] > 0
    BY <2>1 DEF CheckHeld, IsHeld, Leave, LeaseAgrees, record
  <2>2. ASSUME NEW j \in Instance, Claim(j) PROVE left'[i] > 0
    BY <2>2 DEF Claim, Leave
  <2>3. ASSUME NEW j \in Instance,
               Acquire(j) \/ Seed(j) \/ ClaimMiss(j) \/ ClaimFails(j) \/ Wake(j)
                 \/ Release(j) \/ ForceRelease(j) \/ Crash(j) \/ Tick
        PROVE  FALSE
    BY <2>3 DEF Acquire, Seed, ClaimMiss, ClaimFails, Wake, Release, ForceRelease,
                Crash, Tick, Leave
  <2> QED
    BY <2>1, <2>2, <2>3 DEF LockNext, AcquireStep
<1> QED
  BY <1>1, LockInvariant, LeasesAgree, PTL DEF LockSpec, AcquiredIsLeased

\* The leader_lock record, its queries and its retries implement the lease
\* that lock.rs's documentation promises.
THEOREM LockImplementsLease == LockSpec => ImplementsLease
<1> USE LockAssumption DEF LockAssumption
<1> DEFINE absOwner == IF ttl > 0 THEN holder ELSE NoHolder
           absLeft == IF ttl > 0 /\ holder # NoHolder THEN ttl ELSE 0
<1>1. LockInit => AbstractLease!LeaseInit
  BY DEF LockInit, AbstractLease!LeaseInit
<1>2. LockInv /\ LeaseAgrees /\ [LockNext]_lockVars
        => [AbstractLease!LeaseNext]_AbstractLease!leaseVars
  <2> SUFFICES ASSUME LockInv, [LockNext]_lockVars
               PROVE  [AbstractLease!LeaseNext]_AbstractLease!leaseVars
    OBVIOUS
  <2> USE DEF LockInv, NoRecordNoHolder, LockTypeOK, AbstractLease!LeaseNext, AbstractLease!leaseVars
  <2>1. ASSUME UNCHANGED <<holder, ttl>>
        PROVE  UNCHANGED AbstractLease!leaseVars
    BY <2>1
  <2>2. ASSUME NEW i \in Instance, Claim(i) PROVE AbstractLease!Grant(i)
    BY <2>2 DEF Claim, Claimable, AbstractLease!Grant
  <2>3. ASSUME NEW i \in Instance, Release(i)
        PROVE  AbstractLease!Return(i) \/ UNCHANGED AbstractLease!leaseVars
    BY <2>3 DEF Release, ReleaseRow, SetFree, AbstractLease!Return, AbstractLease!Vacate
  <2>4. ASSUME NEW i \in Instance, ForceRelease(i)
        PROVE  AbstractLease!Revoke \/ UNCHANGED AbstractLease!leaseVars
    BY <2>4 DEF ForceRelease, SetFree, AbstractLease!Revoke, AbstractLease!Vacate
  <2>5. CASE Tick
    <3>1. CASE absLeft = 1
      BY <2>5, <3>1 DEF Tick, CountDown, AbstractLease!Expire, AbstractLease!Vacate
    <3>2. CASE absLeft > 1
      BY <2>5, <3>2 DEF Tick, CountDown, AbstractLease!Elapse
    <3>3. CASE absLeft < 1
      BY <2>5, <3>3 DEF Tick, CountDown
    <3> QED
      BY <3>1, <3>2, <3>3
  <2>6. ASSUME NEW i \in Instance,
               Acquire(i) \/ Seed(i) \/ CheckHeld(i) \/ ClaimMiss(i)
                 \/ ClaimFails(i) \/ Wake(i) \/ Crash(i)
        PROVE  UNCHANGED <<holder, ttl>>
    BY <2>6 DEF Acquire, Seed, CheckHeld, ClaimMiss, ClaimFails, Wake, Crash, record
  <2> QED
    BY <2>1, <2>2, <2>3, <2>4, <2>5, <2>6 DEF LockNext, AcquireStep, lockVars
<1> QED
  BY <1>1, <1>2, LockInvariant, LeasesAgree, PTL
  DEF LockSpec, ImplementsLease, AbstractLease!LeaseSpec

-----------------------------------------------------------------------------
\* The migration engine: types, exclusion, rows.

\* What the runs do to the lock is what any user of SurrealLock may do
\* (plan.rs, apply and rollback; lock.rs).
LEMMA RunsUseLock == Spec => LockSpec
<1>1. Init => LockInit
  BY DEF Init
<1>2. [Next]_vars => [LockNext]_lockVars
  <2> SUFFICES ASSUME [Next]_vars PROVE LockNext \/ UNCHANGED lockVars
    OBVIOUS
  <2>1. ASSUME NEW r \in Instance, BeginApply(r) \/ BeginRollback(r)
        PROVE  Acquire(r) \/ UNCHANGED lockVars
    BY <2>1 DEF BeginApply, BeginRollback
  <2>2. ASSUME NEW r \in Instance, Finish(r) PROVE Release(r)
    BY <2>2 DEF Finish
  <2>3. ASSUME NEW r \in Instance, TryLock(r) PROVE AcquireStep(r)
    BY <2>3 DEF TryLock
  <2>4. ASSUME NEW r \in Instance, Die(r) PROVE Crash(r)
    BY <2>4 DEF Die
  <2>5. ASSUME NEW r \in Instance,
               ReadApplied(r) \/ ReadChecksums(r) \/ SkipApply(r) \/ RunMigration(r)
                 \/ RecordMigration(r) \/ LogMigration(r) \/ LogFailed(r) \/ ApplyModule(r)
                 \/ LogModule(r) \/ Validate(r) \/ RollbackStep(r) \/ NoLock(r)
        PROVE  UNCHANGED lockVars
    BY <2>5 DEF ReadApplied, ReadChecksums, SkipApply, RunMigration, RecordMigration,
                LogMigration, LogFailed, ApplyModule, LogModule, Validate, RollbackStep,
                SkipDown, RunDown, DeleteRow, LogRollback, NoLock
  <2>6. CASE Pass
    BY <2>6 DEF Pass, LockNext
  <2>7. CASE UNCHANGED vars
    BY <2>7 DEF vars
  <2> QED
    BY <2>1, <2>2, <2>3, <2>4, <2>5, <2>6, <2>7
    DEF Next, RunStep, ApplyStep, LockNext
<1> QED
  BY <1>1, <1>2, PTL DEF Spec, LockSpec

\* A run's variables and the databases; with LockTypeOK, this is TypeOK.
RunTypeOK ==
  /\ conf \in [Instance -> [job : Jobs, files : Manifest, target : {0} \cup Version]]
  /\ at \in [Instance -> {"idle", "read", "planned"} \cup Critical \cup Ended]
  /\ pending \in [Instance -> SUBSET Version]
  /\ modules \in [Instance -> SUBSET Module]
  /\ todo \in [Instance -> SUBSET Module]
  /\ erred \in [Instance -> BOOLEAN]
  /\ seen \in [Instance -> SUBSET Version]
  /\ count \in [Version -> Nat]
  /\ schema \in [Module -> Content \cup {Absent, Mixed}]
  /\ rows \in [Version -> Content \cup {Absent}]
  /\ recorded \in [Module -> Content \cup {Absent}]

\* A run is only where its job takes it (plan.rs: plan and apply, rollback).
JobMatches ==
  \A r \in Instance :
    /\ at[r] \in {"read", "planned"} \cup ApplyInner => conf[r].job = "apply"
    /\ at[r] \in RollbackLoop => conf[r].job = "rollback"

MigrationLoop == {"migrate", "record", "log", "logFailed"}

\* What is left to do comes from the run's files, and a loop's body is only
\* entered with something left (plan.rs, the loops of apply_inner and
\* rollback).  It is why every checksum the code writes is a file's.
WorkLeft ==
  \A r \in Instance :
    /\ conf[r].job = "apply" => pending[r] \subseteq DOMAIN conf[r].files.migrations
    /\ at[r] \in MigrationLoop \cup RollbackLoop => pending[r] # {}
    /\ modules[r] \subseteq DOMAIN conf[r].files.modules
    /\ todo[r] \subseteq modules[r]
    /\ at[r] \in {"planned"} \cup MigrationLoop => todo[r] = modules[r]
    /\ at[r] \in {"schema", "logSchema"} => todo[r] # {}

RunInv == RunTypeOK /\ JobMatches /\ WorkLeft

\* What the assumption says of the file sets, in the form the steps use it.
LEMMA FilesAreContent ==
  ASSUME NEW f \in Manifest \cup Deployed
  PROVE  /\ DOMAIN f.migrations \subseteq Version /\ DOMAIN f.modules \subseteq Module
         /\ \A v \in DOMAIN f.migrations : f.migrations[v] \in Content
         /\ \A m \in DOMAIN f.modules : f.modules[m] \in Content
  BY OvershiftAssumption DEF OvershiftAssumption

LEMMA RunInvInit == Init => RunInv
<1> SUFFICES ASSUME Init PROVE RunInv
  OBVIOUS
<1>1. PICK f \in Deployed :
        /\ count = [v \in Version |-> IF v \in DOMAIN f.migrations THEN 1 ELSE 0]
        /\ rows = Extend(f.migrations, Version)
        /\ schema = Extend(f.modules, Module)
        /\ recorded = schema
  BY DEF Init
<1>2. /\ count \in [Version -> Nat]
      /\ rows \in [Version -> Content \cup {Absent}]
      /\ schema \in [Module -> Content \cup {Absent}]
  BY <1>1, FilesAreContent DEF Extend
<1>3. /\ conf \in [Instance -> [job : Jobs, files : Manifest, target : {0} \cup Version]]
      /\ at = [r \in Instance |-> "idle"]
      /\ pending = [r \in Instance |-> {}] /\ modules = [r \in Instance |-> {}]
      /\ todo = [r \in Instance |-> {}] /\ seen = [r \in Instance |-> {}]
      /\ erred = [r \in Instance |-> FALSE]
  BY DEF Init
<1>4. RunTypeOK
  BY <1>1, <1>2, <1>3 DEF RunTypeOK
<1>5. JobMatches /\ WorkLeft
  BY <1>3 DEF JobMatches, WorkLeft, MigrationLoop, ApplyInner, RollbackLoop
<1> QED
  BY <1>4, <1>5 DEF RunInv

\* Every step keeps a run where its job takes it.
LEMMA JobStep == RunInv /\ [Next]_vars => JobMatches'
<1> SUFFICES ASSUME RunInv, [Next]_vars PROVE JobMatches'
  OBVIOUS
<1> USE DEF RunInv, RunTypeOK, JobMatches, ApplyInner, RollbackLoop, Ended, runVars, dbVars
<1>1. ASSUME NEW r \in Instance, ReadApplied(r) PROVE JobMatches'
  BY <1>1 DEF ReadApplied, AppliedVersions, ChecksumMismatch, Goto
<1>2. ASSUME NEW r \in Instance, ReadChecksums(r) PROVE JobMatches'
  BY <1>2 DEF ReadChecksums, Goto
<1>3. ASSUME NEW r \in Instance, SkipApply(r) PROVE JobMatches'
  BY <1>3 DEF SkipApply, Return, Goto
<1>4. ASSUME NEW r \in Instance, BeginApply(r) PROVE JobMatches'
  BY <1>4 DEF BeginApply, FirstStep, AfterMigrations, Goto
<1>5. ASSUME NEW r \in Instance, RunMigration(r) PROVE JobMatches'
  BY <1>5 DEF RunMigration, Break, Goto
<1>6. ASSUME NEW r \in Instance, RecordMigration(r) PROVE JobMatches'
  BY <1>6 DEF RecordMigration, NextUp, Break, Goto
<1>7. ASSUME NEW r \in Instance, LogMigration(r) PROVE JobMatches'
  BY <1>7 DEF LogMigration, NextUp, AfterMigrations, Break, Goto
<1>8. ASSUME NEW r \in Instance, LogFailed(r) PROVE JobMatches'
  BY <1>8 DEF LogFailed, AfterMigrations, Goto
<1>9. ASSUME NEW r \in Instance, ApplyModule(r) PROVE JobMatches'
  BY <1>9 DEF ApplyModule, NextModule, TextOf, Break, Goto
<1>10. ASSUME NEW r \in Instance, LogModule(r) PROVE JobMatches'
  BY <1>10 DEF LogModule, NextModule, TextOf, Break, Goto
<1>11. ASSUME NEW r \in Instance, Validate(r) PROVE JobMatches'
  BY <1>11 DEF Validate, Break, Goto
<1>12. ASSUME NEW r \in Instance, Finish(r) PROVE JobMatches'
  BY <1>12 DEF Finish, Return, Goto
<1>13. ASSUME NEW r \in Instance, BeginRollback(r) PROVE JobMatches'
  BY <1>13 DEF BeginRollback, ToRollback, AppliedVersions, Goto
<1>14. ASSUME NEW r \in Instance, SkipDown(r) PROVE JobMatches'
  BY <1>14 DEF SkipDown, NextInLoop, Goto
<1>15. ASSUME NEW r \in Instance, RunDown(r) PROVE JobMatches'
  BY <1>15 DEF RunDown, Break, Abandon, Goto
<1>16. ASSUME NEW r \in Instance, DeleteRow(r) PROVE JobMatches'
  BY <1>16 DEF DeleteRow, Abandon, Goto
<1>17. ASSUME NEW r \in Instance, LogRollback(r) PROVE JobMatches'
  BY <1>17 DEF LogRollback, NextInLoop, Abandon, Goto
<1>18. ASSUME NEW r \in Instance, NoLock(r) PROVE JobMatches'
  BY <1>18 DEF NoLock, Return, Goto
<1>19. ASSUME NEW r \in Instance, TryLock(r) \/ Die(r) PROVE JobMatches'
  BY <1>19 DEF TryLock, Die
<1>20. CASE Pass \/ UNCHANGED vars
  BY <1>20 DEF Pass, vars
<1> QED
  BY <1>1, <1>2, <1>3, <1>4, <1>5, <1>6, <1>7, <1>8, <1>9, <1>10, <1>11, <1>12, <1>13, <1>14, <1>15, <1>16, <1>17, <1>18, <1>19, <1>20
  DEF Next, RunStep, ApplyStep, RollbackStep

\* Every step leaves a run work of its own files only.
LEMMA WorkStep == RunInv /\ [Next]_vars => WorkLeft'
<1> SUFFICES ASSUME RunInv, [Next]_vars PROVE WorkLeft'
  OBVIOUS
<1> USE DEF RunInv, RunTypeOK, JobMatches, WorkLeft, MigrationLoop, ApplyInner, RollbackLoop, Ended, runVars, dbVars
<1>1. ASSUME NEW r \in Instance, ReadApplied(r) PROVE WorkLeft'
  BY <1>1 DEF ReadApplied, AppliedVersions, ChecksumMismatch, Goto
<1>2. ASSUME NEW r \in Instance, ReadChecksums(r) PROVE WorkLeft'
  BY <1>2 DEF ReadChecksums, Goto
<1>3. ASSUME NEW r \in Instance, SkipApply(r) PROVE WorkLeft'
  <2>1. todo' = [todo EXCEPT ![r] = {}] /\ modules' = [modules EXCEPT ![r] = {}]
    BY <1>3 DEF SkipApply, Return
  <2>2. /\ at' = [at EXCEPT ![r] = "ok"] \/ at' = [at EXCEPT ![r] = "err"]
        /\ UNCHANGED <<conf, pending>>
    BY <1>3 DEF SkipApply, Return, Goto
  <2> QED
    BY <2>1, <2>2
<1>4. ASSUME NEW r \in Instance, BeginApply(r) PROVE WorkLeft'
  BY <1>4 DEF BeginApply, FirstStep, AfterMigrations, Goto
<1>5. ASSUME NEW r \in Instance, RunMigration(r) PROVE WorkLeft'
  <2>1. at[r] = "migrate" /\ UNCHANGED <<conf, pending, modules, todo>>
    BY <1>5 DEF RunMigration
  <2>2. \E there \in {"record", "logFailed", "release"} : at' = [at EXCEPT ![r] = there]
    BY <1>5 DEF RunMigration, Break, Goto
  <2> QED
    BY <2>1, <2>2
<1>6. ASSUME NEW r \in Instance, RecordMigration(r) PROVE WorkLeft'
  BY <1>6 DEF RecordMigration, NextUp, Break, Goto
<1>7. ASSUME NEW r \in Instance, LogMigration(r) PROVE WorkLeft'
  BY <1>7 DEF LogMigration, NextUp, AfterMigrations, Break, Goto
<1>8. ASSUME NEW r \in Instance, LogFailed(r) PROVE WorkLeft'
  BY <1>8 DEF LogFailed, AfterMigrations, Goto
<1>9. ASSUME NEW r \in Instance, ApplyModule(r) PROVE WorkLeft'
  BY <1>9 DEF ApplyModule, NextModule, TextOf, Break, Goto
<1>10. ASSUME NEW r \in Instance, LogModule(r) PROVE WorkLeft'
  BY <1>10 DEF LogModule, NextModule, TextOf, Break, Goto
<1>11. ASSUME NEW r \in Instance, Validate(r) PROVE WorkLeft'
  BY <1>11 DEF Validate, Break, Goto
<1>12. ASSUME NEW r \in Instance, Finish(r) PROVE WorkLeft'
  <2>1. todo' = [todo EXCEPT ![r] = {}] /\ modules' = [modules EXCEPT ![r] = {}]
    BY <1>12 DEF Finish, Return
  <2>2. /\ at' = [at EXCEPT ![r] = "ok"] \/ at' = [at EXCEPT ![r] = "err"]
        /\ UNCHANGED <<conf, pending>>
    BY <1>12 DEF Finish, Return, Goto
  <2> QED
    BY <2>1, <2>2
<1>13. ASSUME NEW r \in Instance, BeginRollback(r) PROVE WorkLeft'
  BY <1>13 DEF BeginRollback, ToRollback, AppliedVersions, Goto
<1>14. ASSUME NEW r \in Instance, SkipDown(r) PROVE WorkLeft'
  BY <1>14 DEF SkipDown, NextInLoop, Goto
<1>15. ASSUME NEW r \in Instance, RunDown(r) PROVE WorkLeft'
  BY <1>15 DEF RunDown, Break, Abandon, Goto
<1>16. ASSUME NEW r \in Instance, DeleteRow(r) PROVE WorkLeft'
  BY <1>16 DEF DeleteRow, Abandon, Goto
<1>17. ASSUME NEW r \in Instance, LogRollback(r) PROVE WorkLeft'
  BY <1>17 DEF LogRollback, NextInLoop, Abandon, Goto
<1>18. ASSUME NEW r \in Instance, NoLock(r) PROVE WorkLeft'
  <2>1. todo' = [todo EXCEPT ![r] = {}] /\ modules' = [modules EXCEPT ![r] = {}]
    BY <1>18 DEF NoLock, Return
  <2>2. /\ at' = [at EXCEPT ![r] = "ok"] \/ at' = [at EXCEPT ![r] = "err"]
        /\ UNCHANGED <<conf, pending>>
    BY <1>18 DEF NoLock, Return, Goto
  <2> QED
    BY <2>1, <2>2
<1>19. ASSUME NEW r \in Instance, TryLock(r) \/ Die(r) PROVE WorkLeft'
  BY <1>19 DEF TryLock, Die
<1>20. CASE Pass \/ UNCHANGED vars
  BY <1>20 DEF Pass, vars
<1> QED
  BY <1>1, <1>2, <1>3, <1>4, <1>5, <1>6, <1>7, <1>8, <1>9, <1>10, <1>11, <1>12, <1>13, <1>14, <1>15, <1>16, <1>17, <1>18, <1>19, <1>20
  DEF Next, RunStep, ApplyStep, RollbackStep

\* One execution more of a version, if it is one (plan.rs, the migration loop).
LEMMA OneMore ==
  ASSUME NEW f \in [Version -> Nat], NEW n
  PROVE  [f EXCEPT ![n] = f[n] + 1] \in [Version -> Nat]
<1>1. CASE n \in Version
  BY <1>1
<1>2. CASE n \notin Version
  BY <1>2
<1> QED
  BY <1>1, <1>2

\* Every step keeps the types.
LEMMA TypeStep == RunInv /\ [Next]_vars => RunTypeOK'
<1> SUFFICES ASSUME RunInv, [Next]_vars PROVE RunTypeOK'
  OBVIOUS
<1> USE DEF RunInv, RunTypeOK, Critical, ApplyInner, RollbackLoop, Ended, runVars, dbVars
<1>1. ASSUME NEW r \in Instance, ReadApplied(r) PROVE RunTypeOK'
  <2>1. at' \in [Instance -> {"idle", "read", "planned"} \cup Critical \cup Ended]
    BY <1>1 DEF ReadApplied, Goto
  <2>2. pending' \in [Instance -> SUBSET Version]
    <3>1. DOMAIN conf[r].files.migrations \subseteq Version
      BY FilesAreContent
    <3>2. \/ UNCHANGED pending
          \/ pending' = [pending EXCEPT ![r] = DOMAIN conf[r].files.migrations \ AppliedVersions]
      BY <1>1 DEF ReadApplied
    <3> QED
      BY <3>1, <3>2
  <2>3. UNCHANGED <<conf, seen, modules, todo, erred, count, schema, rows, recorded>>
    BY <1>1 DEF ReadApplied
  <2> QED
    BY <2>1, <2>2, <2>3
<1>2. ASSUME NEW r \in Instance, ReadChecksums(r) PROVE RunTypeOK'
  <2>1. PICK ms \in {{}, DOMAIN conf[r].files.modules} :
          modules' = [modules EXCEPT ![r] = ms] /\ todo' = [todo EXCEPT ![r] = ms]
    BY <1>2 DEF ReadChecksums
  <2>2. ms \in SUBSET Module
    BY FilesAreContent
  <2> QED
    BY <1>2, <2>1, <2>2 DEF ReadChecksums, Goto
<1>3. ASSUME NEW r \in Instance, SkipApply(r) PROVE RunTypeOK'
  BY <1>3 DEF SkipApply, Return, Goto
<1>4. ASSUME NEW r \in Instance, BeginApply(r) PROVE RunTypeOK'
  BY <1>4 DEF BeginApply, FirstStep, AfterMigrations, Goto
<1>5. ASSUME NEW r \in Instance, RunMigration(r) PROVE RunTypeOK'
  <2>1. at' \in [Instance -> {"idle", "read", "planned"} \cup Critical \cup Ended]
    BY <1>5 DEF RunMigration, Break, Goto
  <2>2. count' \in [Version -> Nat]
    <3>1. count' = count \/ count' = [count EXCEPT ![NextUp(r)] = count[NextUp(r)] + 1]
      BY <1>5 DEF RunMigration
    <3>2. count \in [Version -> Nat]
      OBVIOUS
    <3> QED
      BY <3>1, <3>2, OneMore
  <2>3. erred' \in [Instance -> BOOLEAN]
    BY <1>5 DEF RunMigration, Break
  <2> QED
    BY <1>5, <2>1, <2>2, <2>3 DEF RunMigration
<1>6. ASSUME NEW r \in Instance, RecordMigration(r) PROVE RunTypeOK'
  <2>1. conf[r].files.migrations[NextUp(r)] \in Content
    <3>1. conf[r].job = "apply" /\ pending[r] # {}
      BY <1>6 DEF RecordMigration, JobMatches, WorkLeft, MigrationLoop
    <3>2. NextUp(r) \in pending[r]
      BY <3>1, MinIsLeast, OvershiftAssumption DEF NextUp, OvershiftAssumption
    <3> QED
      BY <3>1, <3>2, FilesAreContent DEF WorkLeft
  <2>2. at' \in [Instance -> {"idle", "read", "planned"} \cup Critical \cup Ended]
    BY <1>6 DEF RecordMigration, Break, Goto
  <2>3. rows' \in [Version -> Content \cup {Absent}]
    BY <1>6, <2>1 DEF RecordMigration
  <2>4. erred' \in [Instance -> BOOLEAN]
    BY <1>6 DEF RecordMigration, Break
  <2> QED
    BY <1>6, <2>2, <2>3, <2>4 DEF RecordMigration
<1>7. ASSUME NEW r \in Instance, LogMigration(r) PROVE RunTypeOK'
  <2>1. at' \in [Instance -> {"idle", "read", "planned"} \cup Critical \cup Ended]
    BY <1>7 DEF LogMigration, AfterMigrations, Break, Goto
  <2>2. pending' \in [Instance -> SUBSET Version]
    BY <1>7 DEF LogMigration
  <2>3. erred' \in [Instance -> BOOLEAN]
    BY <1>7 DEF LogMigration, Break
  <2> QED
    BY <1>7, <2>1, <2>2, <2>3 DEF LogMigration
<1>8. ASSUME NEW r \in Instance, LogFailed(r) PROVE RunTypeOK'
  BY <1>8 DEF LogFailed, AfterMigrations, Goto
<1>9. ASSUME NEW r \in Instance, ApplyModule(r) PROVE RunTypeOK'
  <2>1. TextOf(r, NextModule(r)) \in Content
    <3>1. todo[r] # {}
      BY <1>9 DEF ApplyModule, WorkLeft
    <3>2. NextModule(r) \in todo[r]
      BY <3>1, MinIsLeast, OvershiftAssumption DEF NextModule, OvershiftAssumption
    <3>3. todo[r] \subseteq modules[r] /\ modules[r] \subseteq DOMAIN conf[r].files.modules
      BY DEF WorkLeft
    <3>4. NextModule(r) \in DOMAIN conf[r].files.modules
      BY <3>2, <3>3
    <3> QED
      BY <3>4, FilesAreContent DEF TextOf
  <2>2. at' \in [Instance -> {"idle", "read", "planned"} \cup Critical \cup Ended]
    BY <1>9 DEF ApplyModule, Break, Goto
  <2>3. schema' \in [Module -> Content \cup {Absent, Mixed}]
    <3>1. PICK now \in {TextOf(r, NextModule(r)), Mixed, schema[NextModule(r)]} :
            schema' = [schema EXCEPT ![NextModule(r)] = now]
      BY <1>9 DEF ApplyModule
    <3> QED
      BY <2>1, <3>1
  <2>4. erred' \in [Instance -> BOOLEAN]
    BY <1>9 DEF ApplyModule, Break
  <2>5. todo' \in [Instance -> SUBSET Module]
    BY <1>9 DEF ApplyModule
  <2> QED
    BY <1>9, <2>2, <2>3, <2>4, <2>5 DEF ApplyModule
<1>10. ASSUME NEW r \in Instance, LogModule(r) PROVE RunTypeOK'
  <2>1. TextOf(r, NextModule(r)) \in Content
    <3>1. todo[r] # {}
      BY <1>10 DEF LogModule, WorkLeft
    <3>2. NextModule(r) \in todo[r]
      BY <3>1, MinIsLeast, OvershiftAssumption DEF NextModule, OvershiftAssumption
    <3>3. todo[r] \subseteq modules[r] /\ modules[r] \subseteq DOMAIN conf[r].files.modules
      BY DEF WorkLeft
    <3>4. NextModule(r) \in DOMAIN conf[r].files.modules
      BY <3>2, <3>3
    <3> QED
      BY <3>4, FilesAreContent DEF TextOf
  <2>2. at' \in [Instance -> {"idle", "read", "planned"} \cup Critical \cup Ended]
    BY <1>10 DEF LogModule, Break, Goto
  <2>3. recorded' \in [Module -> Content \cup {Absent}]
    BY <1>10, <2>1 DEF LogModule
  <2>4. erred' \in [Instance -> BOOLEAN]
    BY <1>10 DEF LogModule, Break
  <2>5. todo' \in [Instance -> SUBSET Module]
    BY <1>10 DEF LogModule
  <2> QED
    BY <1>10, <2>2, <2>3, <2>4, <2>5 DEF LogModule
<1>11. ASSUME NEW r \in Instance, Validate(r) PROVE RunTypeOK'
  BY <1>11 DEF Validate, Break, Goto
<1>12. ASSUME NEW r \in Instance, Finish(r) PROVE RunTypeOK'
  BY <1>12 DEF Finish, Return, Goto
<1>13. ASSUME NEW r \in Instance, BeginRollback(r) PROVE RunTypeOK'
  BY <1>13 DEF BeginRollback, ToRollback, AppliedVersions, Goto
<1>14. ASSUME NEW r \in Instance, SkipDown(r) PROVE RunTypeOK'
  BY <1>14 DEF SkipDown, NextInLoop, Goto
<1>15. ASSUME NEW r \in Instance, RunDown(r) PROVE RunTypeOK'
  <2>1. at' \in [Instance -> {"idle", "read", "planned"} \cup Critical \cup Ended]
    BY <1>15 DEF RunDown, Break, Abandon, Goto
  <2>2. UNCHANGED count \/ (count[NextDown(r)] > 0 /\ count' = [count EXCEPT ![NextDown(r)] = @ - 1])
    BY <1>15 DEF RunDown
  <2>3. count' \in [Version -> Nat]
    BY <2>2
  <2>4. erred' \in [Instance -> BOOLEAN]
    BY <1>15 DEF RunDown, Break, Abandon
  <2> QED
    BY <1>15, <2>1, <2>2, <2>3, <2>4 DEF RunDown
<1>16. ASSUME NEW r \in Instance, DeleteRow(r) PROVE RunTypeOK'
  BY <1>16 DEF DeleteRow, Abandon, Goto
<1>17. ASSUME NEW r \in Instance, LogRollback(r) PROVE RunTypeOK'
  <2>1. at' \in [Instance -> {"idle", "read", "planned"} \cup Critical \cup Ended]
    BY <1>17 DEF LogRollback, NextInLoop, Abandon, Goto
  <2>2. pending' \in [Instance -> SUBSET Version]
    BY <1>17 DEF LogRollback, NextInLoop
  <2>3. erred' \in [Instance -> BOOLEAN]
    BY <1>17 DEF LogRollback, Abandon
  <2> QED
    BY <1>17, <2>1, <2>2, <2>3 DEF LogRollback
<1>18. ASSUME NEW r \in Instance, NoLock(r) PROVE RunTypeOK'
  BY <1>18 DEF NoLock, Return, Goto
<1>19. ASSUME NEW r \in Instance, TryLock(r) \/ Die(r) PROVE RunTypeOK'
  BY <1>19 DEF TryLock, Die
<1>20. CASE Pass \/ UNCHANGED vars
  BY <1>20 DEF Pass, vars
<1> QED
  BY <1>1, <1>2, <1>3, <1>4, <1>5, <1>6, <1>7, <1>8, <1>9, <1>10, <1>11, <1>12, <1>13, <1>14, <1>15, <1>16, <1>17, <1>18, <1>19, <1>20
  DEF Next, RunStep, ApplyStep, RollbackStep

LEMMA RunInvariant == Spec => []RunInv
<1>1. RunInv /\ [Next]_vars => RunInv'
  BY JobStep, WorkStep, TypeStep DEF RunInv
<1> QED
  BY <1>1, RunInvInit, PTL DEF Spec

\* Every variable keeps its type: in particular every row of migration_lock
\* and every changelog entry has the checksum of some file (plan.rs,
\* record_migration; changelog.rs, record_entry).
THEOREM TypeCorrect == Spec => []TypeOK
<1>1. LockTypeOK /\ RunInv => TypeOK
  BY DEF TypeOK, RunInv, RunTypeOK
<1> QED
  BY <1>1, RunsUseLock, LockTypeCorrect, RunInvariant, PTL

\* A run in its critical section has the running lease, or one that runs out
\* this very tick, which nobody can claim yet (lock.rs, try_acquire).
LeaseHeld ==
  \A r \in Instance : InCritical(r) => holder = r /\ ttl = left[r] /\ left[r] >= 0

LEMMA LeaseHeldStep ==
  ASSUME "overrun" \notin Faults
  PROVE  LockInv /\ LeaseAgrees /\ RunTypeOK /\ LeaseHeld /\ [Next]_vars => LeaseHeld'
<1> SUFFICES ASSUME LockInv, LeaseAgrees, RunTypeOK, LeaseHeld, [Next]_vars
             PROVE  LeaseHeld'
  OBVIOUS
<1> USE LockAssumption DEF LockAssumption, LockInv, LockTypeOK, RunTypeOK, LeaseHeld,
        InCritical, Critical, ApplyInner, RollbackLoop, Ended
<1>1. ASSUME UNCHANGED lockVars, \A r \in Instance : InCritical(r)' => InCritical(r)
      PROVE  LeaseHeld'
  BY <1>1 DEF lockVars
<1>2. ASSUME NEW r \in Instance, BeginApply(r) PROVE LeaseHeld'
  BY <1>2 DEF BeginApply, Acquire, Goto, record
<1>3. ASSUME NEW r \in Instance, BeginRollback(r) PROVE LeaseHeld'
  BY <1>3 DEF BeginRollback, Acquire, Goto, record, lockVars
<1>4. ASSUME NEW r \in Instance, Finish(r) PROVE LeaseHeld'
  <2>1. \A q \in Instance : InCritical(q) => q = r
    BY <1>4 DEF Finish
  <2>2. \A q \in Instance : ~InCritical(q)'
    BY <1>4, <2>1 DEF Finish, Release, Return, Goto
  <2> QED
    BY <2>2
<1>5. ASSUME NEW r \in Instance, TryLock(r) PROVE LeaseHeld'
  <2>1. UNCHANGED at
    BY <1>5 DEF TryLock, runVars
  <2>2. CASE Claim(r)
    <3>1. \A q \in Instance : ~InCritical(q)
      BY <2>2 DEF Claim, Claimable
    <3>2. holder' = r /\ ttl' = LeaseTicks /\ left'[r] = LeaseTicks
      BY <2>2 DEF Claim
    <3>3. \A q \in Instance : q # r => ~InCritical(q)'
      BY <2>1, <2>2, <3>1 DEF Claim, Leave
    <3> QED
      BY <3>2, <3>3
  <2>3. CASE CheckHeld(r)
    BY <2>1, <2>3 DEF CheckHeld, IsHeld, Leave, LeaseAgrees, record
  <2>4. CASE Seed(r) \/ ClaimMiss(r) \/ ClaimFails(r) \/ Wake(r)
    BY <2>1, <2>4 DEF Seed, ClaimMiss, ClaimFails, Wake, Leave, record
  <2> QED
    BY <1>5, <2>2, <2>3, <2>4 DEF TryLock, AcquireStep
<1>6. ASSUME NEW r \in Instance, Die(r) PROVE LeaseHeld'
  BY <1>6 DEF Die, Crash, Leave, record, runVars
<1>7. CASE Pass
  <2>1. ASSUME NEW r \in Instance, InCritical(r)' PROVE InCritical(r) /\ left[r] > 0
    BY <1>7, <2>1 DEF Pass, Tick, runVars
  <2> QED
    BY <1>7, <2>1 DEF Pass, Tick, CountDown
<1>8. ASSUME NEW r \in Instance,
             ReadApplied(r) \/ ReadChecksums(r) \/ SkipApply(r) \/ NoLock(r)
      PROVE  UNCHANGED lockVars /\ \A q \in Instance : InCritical(q)' => InCritical(q)
  BY <1>8 DEF ReadApplied, ReadChecksums, SkipApply, NoLock, Return, Goto, lockVars
<1>9. ASSUME NEW r \in Instance,
             RunMigration(r) \/ RecordMigration(r) \/ LogMigration(r) \/ LogFailed(r)
               \/ ApplyModule(r) \/ LogModule(r) \/ Validate(r) \/ RollbackStep(r)
      PROVE  UNCHANGED lockVars /\ \A q \in Instance : InCritical(q)' => InCritical(q)
  <2>1. UNCHANGED lockVars /\ InCritical(r)
    BY <1>9 DEF RunMigration, RecordMigration, LogMigration, LogFailed, ApplyModule,
                LogModule, Validate, RollbackStep, SkipDown, RunDown, DeleteRow, LogRollback
  <2>2. \E where : at' = [at EXCEPT ![r] = where]
    BY <1>9 DEF RunMigration, RecordMigration, LogMigration, LogFailed, ApplyModule,
                LogModule, Validate, RollbackStep, SkipDown, RunDown, DeleteRow, LogRollback,
                NextInLoop, Break, Abandon, Goto
  <2> QED
    BY <2>1, <2>2 DEF lockVars
<1>10. CASE UNCHANGED vars
  BY <1>10 DEF vars, lockVars, runVars
<1> QED
  BY <1>1, <1>2, <1>3, <1>4, <1>5, <1>6, <1>7, <1>8, <1>9, <1>10
  DEF Next, RunStep, ApplyStep

LEMMA LeaseHeldInvariant ==
  ASSUME "overrun" \notin Faults
  PROVE  Spec => []LeaseHeld
<1>1. Init => LeaseHeld
  BY DEF Init, LeaseHeld, InCritical, Critical, ApplyInner, RollbackLoop
<1>2. RunInv => RunTypeOK
  BY DEF RunInv
<1> QED
  BY <1>1, <1>2, LeaseHeldStep, RunsUseLock, LockInvariant, LeasesAgree, RunInvariant, PTL
  DEF Spec

\* Two runs are never in their critical sections together, as long as each
\* ends its own before its lease runs out (lock.rs:4).
THEOREM CriticalSectionsExclude ==
  ASSUME "overrun" \notin Faults
  PROVE  Spec => []CriticalExclusive
<1>1. LeaseHeld => CriticalExclusive
  BY DEF LeaseHeld, CriticalExclusive
<1> QED
  BY <1>1, LeaseHeldInvariant, PTL

\* Run r is, or stopped, between the down migration of version v and the
\* deletion of its row (plan.rs, rollback).
RollingBack(r, v) ==
  /\ conf[r].job = "rollback" /\ v \in pending[r]
  /\ at[r] \in {"release"} \cup Ended \/ (at[r] = "delete" /\ v = NextDown(r))

\* RowsAreApplied, exact about the version a rollback is at.
RowsBacked ==
  \A v \in Version :
    rows[v] # Absent /\ count[v] = 0 => \E r \in Instance : RollingBack(r, v)

\* The migration about to be recorded has taken effect.
AboutToRecord(r) == InCritical(r) /\ at[r] = "record"
RecordBacked ==
  \A r \in Instance, v \in Version : AboutToRecord(r) /\ v = NextUp(r) => count[v] > 0

\* A run records a migration only with the lock in hand, or died there.
RecordHeld == \A r \in Instance : at[r] = "record" => pc[r] \in {"held", "crashed"}

RowInv == RowsBacked /\ RecordBacked

LEMMA RecordHeldStep == RunTypeOK /\ LockTypeOK /\ RecordHeld /\ [Next]_vars => RecordHeld'
<1> SUFFICES ASSUME RunTypeOK, LockTypeOK, RecordHeld, [Next]_vars PROVE RecordHeld'
  OBVIOUS
<1> USE DEF RunTypeOK, LockTypeOK, RecordHeld
<1>1. ASSUME NEW r \in Instance,
             ReadApplied(r) \/ ReadChecksums(r) \/ SkipApply(r) \/ BeginApply(r)
               \/ BeginRollback(r) \/ Finish(r) \/ NoLock(r)
      PROVE  RecordHeld'
  <2>1. \A q \in Instance : q # r => pc'[q] = pc[q]
    BY <1>1 DEF ReadApplied, ReadChecksums, SkipApply, BeginApply, BeginRollback, Finish,
                NoLock, Acquire, Release, lockVars
  <2>2. \E where : at' = [at EXCEPT ![r] = where] /\ where # "record"
    BY <1>1 DEF ReadApplied, ReadChecksums, SkipApply, BeginApply, BeginRollback, Finish,
                NoLock, FirstStep, AfterMigrations, Return, Goto
  <2> QED
    BY <2>1, <2>2
<1>2. ASSUME NEW r \in Instance,
             RunMigration(r) \/ RecordMigration(r) \/ LogMigration(r) \/ LogFailed(r)
               \/ ApplyModule(r) \/ LogModule(r) \/ Validate(r) \/ RollbackStep(r)
      PROVE  RecordHeld'
  <2>1. pc[r] = "held" /\ UNCHANGED pc
    BY <1>2 DEF RunMigration, RecordMigration, LogMigration, LogFailed, ApplyModule, LogModule,
                Validate, RollbackStep, SkipDown, RunDown, DeleteRow, LogRollback, lockVars
  <2>2. \E where : at' = [at EXCEPT ![r] = where]
    BY <1>2 DEF RunMigration, RecordMigration, LogMigration, LogFailed, ApplyModule, LogModule,
                Validate, RollbackStep, SkipDown, RunDown, DeleteRow, LogRollback,
                NextInLoop, Break, Abandon, Goto
  <2> QED
    BY <2>1, <2>2
<1>3. ASSUME NEW r \in Instance, TryLock(r) PROVE RecordHeld'
  <2>1. pc[r] \in Acquiring
    BY <1>3 DEF TryLock, AcquireStep, Seed, CheckHeld, Claim, ClaimMiss, ClaimFails, Wake, Acquiring
  <2>2. UNCHANGED at /\ \A q \in Instance : q # r => pc'[q] = pc[q]
    BY <1>3 DEF TryLock, runVars, AcquireStep, Seed, CheckHeld, Claim, ClaimMiss, ClaimFails,
                Wake, Leave
  <2> QED
    BY <2>1, <2>2 DEF Acquiring
<1>4. ASSUME NEW r \in Instance, Die(r) PROVE RecordHeld'
  BY <1>4 DEF Die, Crash, Leave, runVars
<1>5. CASE Pass \/ UNCHANGED vars
  BY <1>5 DEF Pass, Tick, vars, lockVars, runVars
<1> QED
  BY <1>1, <1>2, <1>3, <1>4, <1>5 DEF Next, RunStep, ApplyStep

\* A step that touches neither migrations nor rows keeps the invariant when
\* it ends no rollback's exception and starts no recording.
LEMMA RowsUntouched ==
  ASSUME RowInv, UNCHANGED <<rows, count>>,
         \A r \in Instance, v \in Version : RollingBack(r, v) => RollingBack(r, v)',
         \A r \in Instance : AboutToRecord(r)' => AboutToRecord(r) /\ NextUp(r)' = NextUp(r)
  PROVE  RowInv'
  BY DEF RowInv, RowsBacked, RecordBacked

LEMMA RowInvStep ==
  ASSUME "overrun" \notin Faults, "unchecked" \notin Faults
  PROVE  RunInv /\ LockTypeOK /\ LeaseHeld /\ RecordHeld /\ RowInv /\ [Next]_vars => RowInv'
<1> SUFFICES ASSUME RunInv, LockTypeOK, LeaseHeld, RecordHeld, RowInv, [Next]_vars
             PROVE  RowInv'
  OBVIOUS
<1> USE DEF RunInv, RunTypeOK, LockTypeOK, Critical, ApplyInner, RollbackLoop, Ended
<1>1. ASSUME NEW r \in Instance, NEW q \in Instance, InCritical(r), InCritical(q) PROVE q = r
  BY <1>1 DEF LeaseHeld
<1>2. ASSUME NEW r \in Instance, RunMigration(r) PROVE RowInv'
  <2>1. /\ InCritical(r) /\ conf[r].job = "apply" /\ UNCHANGED <<pc, conf, pending, rows>>
    BY <1>2 DEF RunMigration, InCritical, JobMatches, lockVars
  <2>2. PICK where \in {"record", "logFailed", "release"} : at' = [at EXCEPT ![r] = where]
    BY <1>2 DEF RunMigration, Break, Goto
  <2>3. \/ UNCHANGED count /\ where # "record"
        \/ count' = [count EXCEPT ![NextUp(r)] = @ + 1]
    BY <1>2, <2>2 DEF RunMigration, Checked, TookEffect, LooksDone, Break, Goto
  <2>4. \A q \in Instance, v \in Version : RollingBack(q, v) => RollingBack(q, v)'
    BY <2>1, <2>2 DEF RollingBack, NextDown
  <2>5. RowsBacked'
    BY <2>1, <2>3, <2>4 DEF RowInv, RowsBacked
  <2>6. \A q \in Instance : q # r => ~AboutToRecord(q)'
    BY <1>1, <2>1, <2>2 DEF AboutToRecord, InCritical
  <2>7. \A v \in Version : AboutToRecord(r)' /\ v = NextUp(r)' => count'[v] > 0
    BY <2>1, <2>2, <2>3 DEF AboutToRecord, NextUp
  <2> QED
    BY <2>5, <2>6, <2>7 DEF RowInv, RecordBacked
<1>3. ASSUME NEW r \in Instance, RecordMigration(r) PROVE RowInv'
  <2>1. /\ AboutToRecord(r) /\ conf[r].job = "apply" /\ UNCHANGED <<pc, conf, pending, count>>
    BY <1>3 DEF RecordMigration, AboutToRecord, InCritical, JobMatches, lockVars
  <2>2. PICK where \in {"log", "release"} : at' = [at EXCEPT ![r] = where]
    BY <1>3 DEF RecordMigration, Break, Goto
  <2>3. \A v \in Version : v # NextUp(r) => rows'[v] = rows[v]
    BY <1>3 DEF RecordMigration
  <2>4. \A q \in Instance, v \in Version : RollingBack(q, v) => RollingBack(q, v)'
    BY <2>1, <2>2 DEF RollingBack, NextDown
  <2>5. RowsBacked'
    BY <2>1, <2>3, <2>4 DEF RowInv, RowsBacked, RecordBacked
  <2>6. \A q \in Instance : ~AboutToRecord(q)'
    BY <1>1, <2>1, <2>2 DEF AboutToRecord, InCritical
  <2> QED
    BY <2>5, <2>6 DEF RowInv, RecordBacked
<1>4. ASSUME NEW r \in Instance, RunDown(r) PROVE RowInv'
  <2>1. /\ InCritical(r) /\ at[r] = "rollback" /\ conf[r].job = "rollback"
        /\ UNCHANGED <<pc, conf, pending, rows>>
    BY <1>4 DEF RunDown, InCritical, JobMatches, lockVars
  <2>2. NextDown(r) \in pending[r]
    <3>1. pending[r] # {} /\ pending[r] \in SUBSET Nat /\ IsFiniteSet(pending[r])
      BY <2>1, OvershiftAssumption, FS_Subset DEF OvershiftAssumption, WorkLeft
    <3> QED
      BY <3>1, MaxIsGreatest DEF NextDown
  <2>3. PICK where \in {"delete", "release", "err"} : at' = [at EXCEPT ![r] = where]
    BY <1>4 DEF RunDown, Break, Abandon, Goto
  <2>4. \A v \in Version : v = NextDown(r) => RollingBack(r, v)'
    BY <2>1, <2>2, <2>3 DEF RollingBack, NextDown
  <2>5. \A q \in Instance, v \in Version : RollingBack(q, v) => RollingBack(q, v)'
    BY <2>1, <2>3 DEF RollingBack, NextDown
  <2>6. \A v \in Version : v # NextDown(r) => count'[v] = count[v]
    BY <1>4 DEF RunDown
  <2>7. RowsBacked'
    BY <2>1, <2>4, <2>5, <2>6 DEF RowInv, RowsBacked
  <2>8. \A q \in Instance : ~AboutToRecord(q)'
    BY <1>1, <2>1, <2>3 DEF AboutToRecord, InCritical
  <2> QED
    BY <2>7, <2>8 DEF RowInv, RecordBacked
<1>5. ASSUME NEW r \in Instance, DeleteRow(r) PROVE RowInv'
  <2>1. /\ InCritical(r) /\ at[r] = "delete" /\ UNCHANGED <<pc, conf, pending, count>>
    BY <1>5 DEF DeleteRow, InCritical, lockVars
  <2>2. \/ at' = [at EXCEPT ![r] = "err"]
        \/ at' = [at EXCEPT ![r] = "logRollback"] /\ rows' = [rows EXCEPT ![NextDown(r)] = Absent]
    BY <1>5 DEF DeleteRow, Unchecked, Checked, TookEffect, LooksDone, Abandon, Goto
  <2>3. \A v \in Version : rows'[v] \in {rows[v], Absent}
    BY <1>5 DEF DeleteRow
  <2>4. \A q \in Instance, v \in Version :
          RollingBack(q, v) => RollingBack(q, v)' \/ rows'[v] = Absent
    BY <2>1, <2>2 DEF RollingBack, NextDown
  <2>5. RowsBacked'
    BY <2>1, <2>3, <2>4 DEF RowInv, RowsBacked
  <2>6. \A q \in Instance : ~AboutToRecord(q)'
    BY <1>1, <2>1, <2>2 DEF AboutToRecord, InCritical
  <2> QED
    BY <2>5, <2>6 DEF RowInv, RecordBacked
<1>6. ASSUME NEW r \in Instance,
             LogMigration(r) \/ LogFailed(r) \/ ApplyModule(r) \/ LogModule(r)
               \/ Validate(r) \/ SkipDown(r) \/ LogRollback(r)
      PROVE  RowInv'
  <2>1. /\ InCritical(r) /\ at[r] \notin {"delete", "record", "release"} \cup Ended
        /\ UNCHANGED <<pc, conf, rows, count>>
    BY <1>6 DEF LogMigration, LogFailed, ApplyModule, LogModule, Validate, SkipDown,
                LogRollback, InCritical, lockVars, dbVars
  <2>2. \E where : at' = [at EXCEPT ![r] = where] /\ where # "record"
    BY <1>6 DEF LogMigration, LogFailed, ApplyModule, LogModule, Validate, SkipDown,
                LogRollback, NextInLoop, AfterMigrations, Break, Abandon, Goto
  <2>3. \A q \in Instance : q # r => pending'[q] = pending[q]
    BY <1>6 DEF LogMigration, LogFailed, ApplyModule, LogModule, Validate, SkipDown,
                LogRollback, NextInLoop
  <2>4. \A q \in Instance, v \in Version : RollingBack(q, v) => RollingBack(q, v)'
    BY <2>1, <2>2, <2>3 DEF RollingBack, NextDown
  <2>5. \A q \in Instance : ~AboutToRecord(q)'
    BY <1>1, <2>1, <2>2 DEF AboutToRecord, InCritical
  <2> QED
    BY <2>1, <2>4, <2>5, RowsUntouched
<1>7. ASSUME NEW r \in Instance,
             ReadApplied(r) \/ ReadChecksums(r) \/ SkipApply(r) \/ BeginApply(r)
               \/ BeginRollback(r) \/ Finish(r) \/ NoLock(r)
      PROVE  RowInv'
  <2>1. /\ \A q \in Instance : q # r => pc'[q] = pc[q] /\ pending'[q] = pending[q]
        /\ UNCHANGED <<conf, rows, count>>
    BY <1>7 DEF ReadApplied, ReadChecksums, SkipApply, BeginApply, BeginRollback, Finish,
                NoLock, Acquire, Release, lockVars, dbVars
  <2>2. \E where : at' = [at EXCEPT ![r] = where]
    BY <1>7 DEF ReadApplied, ReadChecksums, SkipApply, BeginApply, BeginRollback, Finish,
                NoLock, Return, Goto
  <2>3. \/ at[r] \in {"idle", "read", "planned"}
        \/ at'[r] \in Ended /\ UNCHANGED pending
    BY <1>7 DEF ReadApplied, ReadChecksums, SkipApply, BeginApply, BeginRollback, Finish,
                NoLock, Return, Goto
  <2>4. \A q \in Instance, v \in Version : RollingBack(q, v) => RollingBack(q, v)'
    BY <2>1, <2>2, <2>3 DEF RollingBack, NextDown
  <2>5. ~AboutToRecord(r)'
    BY <1>7 DEF ReadApplied, ReadChecksums, SkipApply, BeginApply, BeginRollback, Finish,
                NoLock, Return, Goto, Acquire, FirstStep, AfterMigrations,
                AboutToRecord, InCritical
  <2>6. \A q \in Instance : AboutToRecord(q)' => AboutToRecord(q) /\ NextUp(q)' = NextUp(q)
    BY <2>1, <2>2, <2>5 DEF AboutToRecord, InCritical, NextUp
  <2> QED
    BY <2>1, <2>4, <2>6, RowsUntouched
<1>8. ASSUME NEW r \in Instance, TryLock(r) PROVE RowInv'
  <2>1. UNCHANGED <<runVars, rows, count>>
    BY <1>8 DEF TryLock, dbVars
  <2>2. \A q \in Instance, v \in Version : RollingBack(q, v) => RollingBack(q, v)'
    BY <2>1 DEF RollingBack, NextDown, runVars
  <2>3. pc[r] \in Acquiring /\ \A q \in Instance : q # r => pc'[q] = pc[q]
    BY <1>8 DEF TryLock, AcquireStep, Seed, CheckHeld, Claim, ClaimMiss, ClaimFails, Wake,
                Leave, Acquiring
  <2>4. \A q \in Instance : AboutToRecord(q)' => AboutToRecord(q) /\ NextUp(q)' = NextUp(q)
    BY <2>1, <2>3 DEF AboutToRecord, InCritical, NextUp, runVars, RecordHeld, Acquiring
  <2> QED
    BY <2>1, <2>2, <2>4, RowsUntouched
<1>9. ASSUME NEW r \in Instance, Die(r) PROVE RowInv'
  BY <1>9, RowsUntouched DEF Die, Crash, Leave, runVars, dbVars, RollingBack, NextDown,
                             AboutToRecord, InCritical, NextUp
<1>10. CASE Pass \/ UNCHANGED vars
  BY <1>10, RowsUntouched DEF Pass, Tick, vars, lockVars, runVars, dbVars, RollingBack,
                              NextDown, AboutToRecord, InCritical, NextUp
<1> QED
  BY <1>2, <1>3, <1>4, <1>5, <1>6, <1>7, <1>8, <1>9, <1>10
  DEF Next, RunStep, ApplyStep, RollbackStep

\* The rows of migration_lock tell the truth: whatever fails and whoever
\* crashes, a recorded migration is in effect, unless a rollback stopped
\* between undoing it and deleting its row (plan.rs, apply_inner, rollback).
THEOREM RowsTellTheTruth ==
  ASSUME "overrun" \notin Faults, "unchecked" \notin Faults
  PROVE  Spec => []RowsAreApplied
<1>1. Init => RowInv /\ RecordHeld
  <2> SUFFICES ASSUME Init PROVE RowInv /\ RecordHeld
    OBVIOUS
  <2>1. \A v \in Version : rows[v] # Absent => count[v] = 1
    BY DEF Init, Extend
  <2>2. \A r \in Instance : at[r] = "idle"
    BY DEF Init
  <2> QED
    BY <2>1, <2>2 DEF RowInv, RowsBacked, RecordBacked, RecordHeld, AboutToRecord
<1>2. RunInv => RunTypeOK
  BY DEF RunInv
<1>3. RowInv => RowsAreApplied
  BY DEF RowInv, RowsBacked, RollingBack, RowsAreApplied
<1> QED
  BY <1>1, <1>2, <1>3, RowInvStep, RecordHeldStep, LeaseHeldInvariant, RunsUseLock,
     LockTypeCorrect, RunInvariant, PTL
  DEF Spec

-----------------------------------------------------------------------------
\* Deployments and rollbacks.
\* An apply between reading the applied versions and returning.
Deploying(r) ==
  /\ conf[r].job = "apply"
  /\ at[r] \in {"read", "planned"} \cup ApplyInner \cup {"release"}

BehindMigrations == {"schema", "logSchema", "validate", "release"}

\* A version the run has behind it has its row, and a run behind the loop
\* of the migrations has all of them behind it or an error to report.
PlanInv ==
  \A r \in Instance : Deploying(r) =>
    /\ \A u \in DOMAIN conf[r].files.migrations \ pending[r] : rows[u] # Absent
    /\ at[r] = "log" => rows[NextUp(r)] # Absent
    /\ at[r] \in BehindMigrations /\ ~erred[r] => pending[r] = {}

\* The version an apply is at is the first of those it has left.
LEMMA NextUpIsFirst ==
  ASSUME RunInv, NEW r \in Instance, at[r] \in MigrationLoop
  PROVE  /\ NextUp(r) \in pending[r] /\ NextUp(r) \in Version
         /\ conf[r].job = "apply" /\ NextUp(r) \in DOMAIN conf[r].files.migrations
         /\ conf[r].files.migrations[NextUp(r)] \in Content
         /\ \A v \in pending[r] : NextUp(r) <= v
<1>1. pending[r] \in SUBSET Version /\ pending[r] # {}
  BY DEF RunInv, RunTypeOK, WorkLeft
<1>2. NextUp(r) \in pending[r] /\ \A v \in pending[r] : NextUp(r) <= v
  BY <1>1, MinIsLeast, OvershiftAssumption DEF NextUp, OvershiftAssumption
<1>3. conf[r].job = "apply" /\ conf[r].files \in Manifest
  BY DEF RunInv, RunTypeOK, JobMatches, MigrationLoop, ApplyInner
<1>4. pending[r] \subseteq DOMAIN conf[r].files.migrations
  BY <1>3 DEF RunInv, WorkLeft
<1> QED
  BY <1>1, <1>2, <1>3, <1>4, FilesAreContent

\* Among deployments only, rows are added and never taken away.
LEMMA RowsOnlyGrow ==
  ASSUME Jobs = {"apply"}, RunInv, [Next]_vars
  PROVE  \A v \in Version : rows[v] # Absent => rows'[v] # Absent
<1>1. \A r \in Instance : conf[r].job = "apply" /\ at[r] \notin RollbackLoop
  BY DEF RunInv, RunTypeOK, JobMatches
<1>2. ASSUME NEW r \in Instance, RecordMigration(r)
      PROVE  \A v \in Version : rows[v] # Absent => rows'[v] # Absent
  BY <1>2 DEF RecordMigration, RunInv, RunTypeOK
<1>3. ASSUME NEW r \in Instance, RollbackStep(r) \/ BeginRollback(r) PROVE FALSE
  BY <1>1, <1>3 DEF RollbackStep, SkipDown, RunDown, DeleteRow, LogRollback, BeginRollback,
                    RollbackLoop
<1>4. ASSUME NEW r \in Instance,
             ReadApplied(r) \/ ReadChecksums(r) \/ SkipApply(r) \/ BeginApply(r)
               \/ RunMigration(r) \/ LogMigration(r) \/ LogFailed(r) \/ ApplyModule(r)
               \/ LogModule(r) \/ Validate(r) \/ Finish(r) \/ NoLock(r) \/ TryLock(r) \/ Die(r)
      PROVE  UNCHANGED rows
  BY <1>4 DEF ReadApplied, ReadChecksums, SkipApply, BeginApply, RunMigration, LogMigration,
              LogFailed, ApplyModule, LogModule, Validate, Finish, NoLock, TryLock, Die, dbVars
<1>5. CASE Pass \/ UNCHANGED vars
  BY <1>5 DEF Pass, vars, dbVars
<1> QED
  BY <1>2, <1>3, <1>4, <1>5 DEF Next, RunStep, ApplyStep

\* Only one run's place, plan and errors change in a step of that run.
OthersStay(r) ==
  \A q \in Instance \ {r} :
    at'[q] = at[q] /\ pending'[q] = pending[q] /\ erred'[q] = erred[q]

LEMMA PlanStep ==
  ASSUME Jobs = {"apply"}, "unchecked" \notin Faults
  PROVE  RunInv /\ PlanInv /\ [Next]_vars => PlanInv'
<1> SUFFICES ASSUME RunInv, PlanInv, [Next]_vars PROVE PlanInv'
  OBVIOUS
<1>0. \A v \in Version : rows[v] # Absent => rows'[v] # Absent
  BY RowsOnlyGrow
<1>a. \A r \in Instance :
        /\ conf[r].job = "apply" /\ at[r] \notin RollbackLoop
        /\ DOMAIN conf[r].files.migrations \subseteq Version
  BY FilesAreContent DEF RunInv, RunTypeOK, JobMatches
<1> DEFINE Good(r) ==
      Deploying(r) =>
        /\ \A u \in DOMAIN conf[r].files.migrations \ pending[r] : rows[u] # Absent
        /\ at[r] = "log" => rows[NextUp(r)] # Absent
        /\ at[r] \in BehindMigrations /\ ~erred[r] => pending[r] = {}
<1>b. \A r \in Instance : Good(r)
  BY DEF PlanInv
<1>c. ASSUME NEW r \in Instance, UNCHANGED conf, OthersStay(r), Good(r)' PROVE PlanInv'
  <2>1. ASSUME NEW q \in Instance, q # r PROVE Good(q)'
    <3>1. /\ Deploying(q)' => Deploying(q)
          /\ at'[q] = at[q] /\ pending'[q] = pending[q] /\ erred'[q] = erred[q]
          /\ conf'[q] = conf[q] /\ NextUp(q)' = NextUp(q)
      BY <1>c, <2>1 DEF OthersStay, Deploying, NextUp
    <3>2. at[q] = "log" => NextUp(q) \in Version
      BY NextUpIsFirst DEF MigrationLoop
    <3> QED
      BY <1>0, <1>a, <1>b, <2>1, <3>1, <3>2
  <2> QED
    BY <1>c, <2>1 DEF PlanInv
<1> USE DEF RunInv, RunTypeOK
<1>1. ASSUME NEW r \in Instance, ReadApplied(r) PROVE PlanInv'
  <2>1. UNCHANGED <<conf, rows>> /\ OthersStay(r)
    BY <1>1 DEF ReadApplied, Goto, OthersStay, dbVars
  <2>2. \/ at'[r] = "err"
        \/ at'[r] = "read"
             /\ pending'[r] = DOMAIN conf[r].files.migrations \ AppliedVersions
    BY <1>1 DEF ReadApplied, Goto
  <2>3. Good(r)'
    BY <1>a, <2>1, <2>2 DEF Deploying, ApplyInner, AppliedVersions, BehindMigrations
  <2> QED
    BY <1>c, <2>1, <2>3
<1>2. ASSUME NEW r \in Instance, ReadChecksums(r) PROVE PlanInv'
  <2>1. UNCHANGED <<conf, rows, pending, erred>> /\ OthersStay(r) /\ at[r] = "read" /\ at'[r] = "planned"
    BY <1>2 DEF ReadChecksums, Goto, OthersStay, dbVars
  <2>3. Good(r)'
    BY <1>a, <1>b, <2>1 DEF Deploying, BehindMigrations
  <2> QED
    BY <1>c, <2>1, <2>3
<1>3. ASSUME NEW r \in Instance, SkipApply(r) \/ Finish(r) \/ NoLock(r) PROVE PlanInv'
  <2>1. UNCHANGED conf /\ OthersStay(r) /\ at'[r] \in {"ok", "err"}
    BY <1>3 DEF SkipApply, Finish, NoLock, Return, Goto, OthersStay
  <2>2. Good(r)'
    BY <2>1 DEF Deploying, ApplyInner
  <2> QED
    BY <1>c, <2>1, <2>2
<1>4. ASSUME NEW r \in Instance, BeginApply(r) PROVE PlanInv'
  <2>1. UNCHANGED <<conf, rows, pending, erred>> /\ OthersStay(r) /\ at[r] = "planned"
    BY <1>4 DEF BeginApply, Goto, OthersStay, dbVars
  <2>2. \/ at'[r] = "migrate"
        \/ at'[r] \in {"schema", "validate"} /\ pending[r] = {}
    BY <1>4 DEF BeginApply, Goto, FirstStep, AfterMigrations
  <2>3. Good(r)'
    BY <1>a, <1>b, <2>1, <2>2 DEF Deploying, BehindMigrations
  <2> QED
    BY <1>c, <2>1, <2>3
<1>5. ASSUME NEW r \in Instance, RunMigration(r) PROVE PlanInv'
  <2>1. UNCHANGED <<conf, rows, pending>> /\ OthersStay(r) /\ at[r] = "migrate"
    BY <1>5 DEF RunMigration, Goto, Break, OthersStay
  <2>2. \/ at'[r] \in {"record", "logFailed"}
        \/ at'[r] = "release" /\ erred'[r]
    BY <1>5 DEF RunMigration, Goto, Break
  <2>3. Good(r)'
    BY <1>a, <1>b, <2>1, <2>2 DEF Deploying, ApplyInner, BehindMigrations
  <2> QED
    BY <1>c, <2>1, <2>3
<1>6. ASSUME NEW r \in Instance, RecordMigration(r) PROVE PlanInv'
  <2>1. UNCHANGED <<conf, pending>> /\ OthersStay(r) /\ at[r] = "record"
    BY <1>6 DEF RecordMigration, Goto, Break, OthersStay
  <2>2. /\ NextUp(r) \in Version /\ NextUp(r)' = NextUp(r)
        /\ conf[r].files.migrations[NextUp(r)] # Absent
    BY <2>1, NextUpIsFirst, OvershiftAssumption DEF MigrationLoop, NextUp, OvershiftAssumption
  <2>3. \/ at'[r] = "log" /\ rows'[NextUp(r)] # Absent
        \/ at'[r] = "release" /\ erred'[r]
    BY <1>6, <2>2 DEF RecordMigration, Unchecked, Checked, TookEffect, LooksDone, Goto, Break
  <2>4. Good(r)'
    BY <1>0, <1>a, <1>b, <2>1, <2>2, <2>3 DEF Deploying, ApplyInner, BehindMigrations
  <2> QED
    BY <1>c, <2>1, <2>4
<1>7. ASSUME NEW r \in Instance, LogMigration(r) PROVE PlanInv'
  <2>1. UNCHANGED <<conf, rows>> /\ OthersStay(r) /\ at[r] = "log"
    BY <1>7 DEF LogMigration, Goto, Break, OthersStay, dbVars
  <2>2. \/ /\ pending'[r] = pending[r] \ {NextUp(r)}
           /\ at'[r] = "migrate" \/ (at'[r] \in {"schema", "validate"} /\ pending'[r] = {})
        \/ at'[r] = "release" /\ erred'[r] /\ pending'[r] = pending[r]
    BY <1>7 DEF LogMigration, Goto, Break, AfterMigrations
  <2>3. Good(r)'
    BY <1>a, <1>b, <2>1, <2>2 DEF Deploying, ApplyInner, BehindMigrations
  <2> QED
    BY <1>c, <2>1, <2>3
<1>8. ASSUME NEW r \in Instance, LogFailed(r) PROVE PlanInv'
  <2>1. UNCHANGED <<conf, rows, pending>> /\ OthersStay(r) /\ at[r] = "logFailed"
    BY <1>8 DEF LogFailed, Goto, OthersStay, dbVars
  <2>2. at'[r] \in {"schema", "validate", "release"} /\ erred'[r]
    BY <1>8 DEF LogFailed, Goto, AfterMigrations
  <2>3. Good(r)'
    BY <1>a, <1>b, <2>1, <2>2 DEF Deploying, ApplyInner, BehindMigrations
  <2> QED
    BY <1>c, <2>1, <2>3
<1>9. ASSUME NEW r \in Instance, ApplyModule(r) \/ LogModule(r) \/ Validate(r) PROVE PlanInv'
  <2>1. /\ UNCHANGED <<conf, rows, pending>> /\ OthersStay(r)
        /\ at[r] \in {"schema", "logSchema", "validate"}
    BY <1>9 DEF ApplyModule, LogModule, Validate, Goto, Break, OthersStay, dbVars
  <2>2. /\ at'[r] \in BehindMigrations
        /\ erred'[r] = erred[r] \/ erred'[r]
    BY <1>9 DEF ApplyModule, LogModule, Validate, Goto, Break, BehindMigrations
  <2>3. Good(r)'
    BY <1>a, <1>b, <2>1, <2>2 DEF Deploying, ApplyInner, BehindMigrations
  <2> QED
    BY <1>c, <2>1, <2>3
<1>10. ASSUME NEW r \in Instance, RollbackStep(r) \/ BeginRollback(r) PROVE FALSE
  BY <1>a, <1>10 DEF RollbackStep, SkipDown, RunDown, DeleteRow, LogRollback, BeginRollback,
                     RollbackLoop
<1>11. CASE UNCHANGED <<runVars, dbVars>>
  BY <1>11 DEF runVars, dbVars, PlanInv, Deploying, NextUp
<1> QED
  BY <1>1, <1>2, <1>3, <1>4, <1>5, <1>6, <1>7, <1>8, <1>9, <1>10, <1>11
  DEF Next, RunStep, ApplyStep, TryLock, Die, Pass, vars

LEMMA PlanInvariant ==
  ASSUME Jobs = {"apply"}, "unchecked" \notin Faults
  PROVE  Spec => []PlanInv
<1>1. Init => PlanInv
  BY DEF Init, PlanInv, Deploying, ApplyInner
<1> QED
  BY <1>1, PlanStep, RunInvariant, PTL DEF Spec

\* An earlier deployment left no gap that all of the file sets would fill.
GaplessStart ==
  \A f \in Deployed, u, v \in Version :
    /\ u < v /\ v \in DOMAIN f.migrations
    /\ \A g \in Manifest : u \in DOMAIN g.migrations
    => u \in DOMAIN f.migrations

\* Whichever queries fail, however deployments overlap and whoever crashes or
\* outlives its lease, a version is recorded only after every earlier one
\* that all file sets have (plan.rs:269).
THEOREM RowsStayPrefix ==
  ASSUME Jobs = {"apply"}, "unchecked" \notin Faults, GaplessStart
  PROVE  Spec => []RowsArePrefix
<1>1. Init => RowsArePrefix
  <2> SUFFICES ASSUME Init PROVE RowsArePrefix
    OBVIOUS
  <2>1. PICK f \in Deployed : rows = Extend(f.migrations, Version)
    BY DEF Init
  <2>2. \A v \in DOMAIN f.migrations : f.migrations[v] # Absent
    BY FilesAreContent, OvershiftAssumption DEF OvershiftAssumption
  <2>3. \A v \in Version : rows[v] # Absent <=> v \in DOMAIN f.migrations
    BY <2>1, <2>2 DEF Extend
  <2> QED
    BY <2>3 DEF RowsArePrefix, GaplessStart
<1>2. RunInv /\ PlanInv /\ RowsArePrefix /\ [Next]_vars => RowsArePrefix'
  <2> SUFFICES ASSUME RunInv, PlanInv, RowsArePrefix, [Next]_vars,
                      NEW u \in Version, NEW v \in Version, u < v, rows'[v] # Absent,
                      \A f \in Manifest : u \in DOMAIN f.migrations
               PROVE  rows'[u] # Absent
    BY DEF RowsArePrefix
  <2>1. CASE rows[v] # Absent
    BY <2>1, RowsOnlyGrow DEF RowsArePrefix
  <2>2. CASE rows[v] = Absent
    <3>1. PICK r \in Instance : RecordMigration(r)
      <4>1. \A r \in Instance : conf[r].job = "apply" /\ at[r] \notin RollbackLoop
        BY DEF RunInv, RunTypeOK, JobMatches
      <4>2. rows' # rows
        BY <2>2
      <4> QED
        BY <4>1, <4>2
        DEF Next, RunStep, ApplyStep, RollbackStep, SkipDown, RunDown, DeleteRow, LogRollback,
            BeginRollback, RollbackLoop, ReadApplied, ReadChecksums, SkipApply, BeginApply,
            RunMigration, LogMigration, LogFailed, ApplyModule, LogModule, Validate, Finish,
            NoLock, TryLock, Die, Pass, vars, dbVars
    <3>2. at[r] = "record" /\ v = NextUp(r)
      BY <2>2, <3>1 DEF RecordMigration
    <3>3. u \notin pending[r]
      BY <3>2, NextUpIsFirst, OvershiftAssumption DEF MigrationLoop, OvershiftAssumption
    <3>4. conf[r].job = "apply" /\ u \in DOMAIN conf[r].files.migrations
      BY <3>2, NextUpIsFirst DEF MigrationLoop, RunInv, RunTypeOK
    <3>5. rows[u] # Absent
      BY <3>2, <3>3, <3>4 DEF PlanInv, Deploying, ApplyInner
    <3> QED
      BY <3>5, RowsOnlyGrow
  <2> QED
    BY <2>1, <2>2
<1> QED
  BY <1>1, <1>2, PlanInvariant, RunInvariant, PTL DEF Spec

-----------------------------------------------------------------------------
\* Schema modules.

\* The modules of its plan that an apply has executed.
Laid(r) ==
  {m \in modules[r] :
     /\ conf[r].job = "apply"
     /\ \/ at[r] = "schema" /\ m \notin todo[r]
        \/ at[r] \in {"logSchema", "validate"}
        \/ at[r] = "release" /\ ~erred[r]}

\* Only a run with the lock in hand, or one that died there, has executed any.
LaidHeld == \A r \in Instance : pc[r] \notin {"held", "crashed"} => Laid(r) = {}

\* While its run is in the critical section, they are in the database.
LaidInv == \A r \in Instance, m \in Module :
  InCritical(r) /\ m \in Laid(r) => schema[m] = TextOf(r, m)

\* A step outside the critical section executes no module.
LEMMA OutsideLaysNothing ==
  ASSUME RunInv, LockTypeOK, LaidHeld, NEW r \in Instance,
         ReadApplied(r) \/ ReadChecksums(r) \/ SkipApply(r) \/ BeginApply(r)
           \/ BeginRollback(r) \/ Finish(r) \/ NoLock(r)
  PROVE  /\ UNCHANGED <<conf, schema>>
         /\ \A q \in Instance \ {r} :
              /\ pc'[q] = pc[q] /\ at'[q] = at[q]
              /\ Laid(q)' = Laid(q) /\ InCritical(q)' = InCritical(q)
         /\ Laid(r)' = {}
<1> USE DEF RunInv, RunTypeOK, LockTypeOK
<1>1. \A q \in Instance \ {r} :
        /\ pc'[q] = pc[q] /\ at'[q] = at[q] /\ modules'[q] = modules[q]
        /\ todo'[q] = todo[q] /\ erred'[q] = erred[q] /\ conf'[q] = conf[q]
  BY DEF ReadApplied, ReadChecksums, SkipApply, BeginApply, BeginRollback, Finish, NoLock,
         Return, Goto, Acquire, Release, lockVars
<1>2. UNCHANGED <<conf, schema>>
  BY DEF ReadApplied, ReadChecksums, SkipApply, BeginApply, BeginRollback, Finish, NoLock, dbVars
<1>3. \/ at'[r] \in {"idle", "read", "planned", "migrate", "rollback"} \cup Ended
      \/ /\ at[r] = "planned" /\ UNCHANGED <<modules, todo>>
         /\ at'[r] = "schema" \/ (at'[r] = "validate" /\ modules[r] = {})
  BY DEF ReadApplied, ReadChecksums, SkipApply, BeginApply, BeginRollback, Finish, NoLock,
         Return, Goto, FirstStep, AfterMigrations, Ended
<1>4. Laid(r)' = {}
  BY <1>2, <1>3 DEF Laid, Ended, WorkLeft
<1> QED
  BY <1>1, <1>2, <1>4 DEF Laid, InCritical

LEMMA LaidHeldStep == RunInv /\ LockTypeOK /\ LaidHeld /\ [Next]_vars => LaidHeld'
<1> SUFFICES ASSUME RunInv, LockTypeOK, LaidHeld, [Next]_vars PROVE LaidHeld'
  OBVIOUS
<1> USE DEF RunInv, RunTypeOK, LockTypeOK
<1>1. ASSUME NEW r \in Instance,
             ReadApplied(r) \/ ReadChecksums(r) \/ SkipApply(r) \/ BeginApply(r)
               \/ BeginRollback(r) \/ Finish(r) \/ NoLock(r)
      PROVE  LaidHeld'
  BY <1>1, OutsideLaysNothing DEF LaidHeld
<1>2. ASSUME NEW r \in Instance,
             RunMigration(r) \/ RecordMigration(r) \/ LogMigration(r) \/ LogFailed(r)
               \/ ApplyModule(r) \/ LogModule(r) \/ Validate(r) \/ RollbackStep(r)
      PROVE  LaidHeld'
  <2>1. pc[r] = "held" /\ UNCHANGED <<pc, conf>>
    BY <1>2 DEF RunMigration, RecordMigration, LogMigration, LogFailed, ApplyModule, LogModule,
                Validate, RollbackStep, SkipDown, RunDown, DeleteRow, LogRollback, lockVars
  <2>2. \A q \in Instance \ {r} :
          /\ at'[q] = at[q] /\ modules'[q] = modules[q]
          /\ todo'[q] = todo[q] /\ erred'[q] = erred[q]
    BY <1>2 DEF RunMigration, RecordMigration, LogMigration, LogFailed, ApplyModule, LogModule,
                Validate, RollbackStep, SkipDown, RunDown, DeleteRow, LogRollback,
                NextInLoop, Break, Abandon, Goto
  <2> QED
    BY <2>1, <2>2 DEF LaidHeld, Laid
<1>3. ASSUME NEW r \in Instance, TryLock(r) PROVE LaidHeld'
  <2>1. pc[r] \in Acquiring
    BY <1>3 DEF TryLock, AcquireStep, Seed, CheckHeld, Claim, ClaimMiss, ClaimFails, Wake, Acquiring
  <2>2. UNCHANGED runVars /\ \A q \in Instance : q # r => pc'[q] = pc[q]
    BY <1>3 DEF TryLock, AcquireStep, Seed, CheckHeld, Claim, ClaimMiss, ClaimFails, Wake, Leave
  <2> QED
    BY <2>1, <2>2 DEF Acquiring, LaidHeld, Laid, runVars
<1>4. ASSUME NEW r \in Instance, Die(r) PROVE LaidHeld'
  BY <1>4 DEF Die, Crash, Leave, runVars, LaidHeld, Laid
<1>5. CASE Pass \/ UNCHANGED vars
  BY <1>5 DEF Pass, Tick, vars, lockVars, runVars, LaidHeld, Laid
<1> QED
  BY <1>1, <1>2, <1>3, <1>4, <1>5 DEF Next, RunStep, ApplyStep

LEMMA LaidStep ==
  ASSUME "overrun" \notin Faults
  PROVE  RunInv /\ LockTypeOK /\ LeaseHeld /\ LaidHeld /\ LaidInv /\ [Next]_vars => LaidInv'
<1> SUFFICES ASSUME RunInv, LockTypeOK, LeaseHeld, LaidHeld, LaidInv, [Next]_vars
             PROVE  LaidInv'
  OBVIOUS
<1> USE DEF RunInv, RunTypeOK, LockTypeOK, Critical, ApplyInner, RollbackLoop, Ended
<1>0. ASSUME NEW r \in Instance, NEW q \in Instance, InCritical(r), InCritical(q) PROVE q = r
  BY <1>0 DEF LeaseHeld
<1>a. ASSUME NEW r \in Instance, InCritical(r), UNCHANGED <<pc, conf>>,
             \A q \in Instance \ {r} : at'[q] = at[q],
             \A m \in Module : InCritical(r)' /\ m \in Laid(r)' => schema'[m] = TextOf(r, m)
      PROVE  LaidInv'
  <2>1. \A q \in Instance : InCritical(q)' => q = r
    BY <1>0, <1>a DEF InCritical
  <2> QED
    BY <1>a, <2>1 DEF LaidInv, TextOf
<1>b. ASSUME NEW r \in Instance, UNCHANGED <<conf, schema>>, Laid(r)' = {},
             \A q \in Instance \ {r} : Laid(q)' = Laid(q) /\ InCritical(q)' = InCritical(q)
      PROVE  LaidInv'
  <2> SUFFICES ASSUME NEW q \in Instance, NEW m \in Module, InCritical(q)', m \in Laid(q)'
               PROVE  schema'[m] = TextOf(q, m)'
    BY DEF LaidInv
  <2>1. q # r
    BY <1>b
  <2>2. InCritical(q) /\ m \in Laid(q)
    BY <1>b, <2>1
  <2>3. schema[m] = TextOf(q, m)
    BY <2>2 DEF LaidInv
  <2> QED
    BY <1>b, <2>3 DEF TextOf
<1>1. ASSUME NEW r \in Instance,
             ReadApplied(r) \/ ReadChecksums(r) \/ SkipApply(r) \/ BeginApply(r)
               \/ BeginRollback(r) \/ Finish(r) \/ NoLock(r)
      PROVE  LaidInv'
  <2>1. /\ UNCHANGED <<conf, schema>> /\ Laid(r)' = {}
        /\ \A q \in Instance \ {r} : Laid(q)' = Laid(q) /\ InCritical(q)' = InCritical(q)
    BY <1>1, OutsideLaysNothing
  <2> QED
    BY <1>b, <2>1
<1>2. ASSUME NEW r \in Instance, ApplyModule(r) PROVE LaidInv'
  <2>1. /\ at[r] = "schema" /\ conf[r].job = "apply" /\ InCritical(r)
        /\ UNCHANGED <<pc, conf, modules>> /\ \A q \in Instance \ {r} : at'[q] = at[q]
    BY <1>2 DEF ApplyModule, Break, Goto, InCritical, lockVars, JobMatches
  <2> DEFINE n == NextModule(r)
  <2>2. n \in todo[r] /\ n \in Module
    <3>1. todo[r] # {} /\ todo[r] \subseteq Module
      BY <2>1 DEF WorkLeft
    <3>2. todo[r] \in SUBSET Nat
      BY <3>1, OvershiftAssumption DEF OvershiftAssumption
    <3>3. n \in todo[r]
      BY <3>1, <3>2, MinIsLeast DEF NextModule
    <3> QED
      BY <3>1, <3>3
  <2>3. CASE /\ schema' = [schema EXCEPT ![n] = TextOf(r, n)]
             /\ todo' = [todo EXCEPT ![r] = IF @ = {n} THEN modules[r] ELSE @ \ {n}]
             /\ at' = [at EXCEPT ![r] = IF todo[r] = {n} THEN "logSchema" ELSE "schema"]
    <3> HIDE DEF n
    <3>1. ASSUME NEW m \in Module, m \in Laid(r)' PROVE schema'[m] = TextOf(r, m)
      <4>1. m \in modules[r] /\ (m = n \/ m \notin todo[r])
        BY <2>1, <2>2, <2>3, <3>1 DEF Laid
      <4>2. m # n => m \in Laid(r)
        BY <2>1, <4>1 DEF Laid
      <4> QED
        BY <2>1, <2>2, <2>3, <4>1, <4>2 DEF LaidInv
    <3> QED
      BY <1>a, <2>1, <3>1
  <2>4. CASE Break(r)
    <3>1. Laid(r)' = {}
      BY <2>4 DEF Break, Goto, Laid
    <3> QED
      BY <1>a, <2>1, <3>1
  <2> QED
    BY <1>2, <2>3, <2>4 DEF ApplyModule, Goto
<1>3. ASSUME NEW r \in Instance, LogModule(r) PROVE LaidInv'
  <2>1. /\ at[r] = "logSchema" /\ conf[r].job = "apply" /\ InCritical(r)
        /\ UNCHANGED <<pc, conf, modules, schema>> /\ \A q \in Instance \ {r} : at'[q] = at[q]
    BY <1>3 DEF LogModule, Break, Goto, InCritical, lockVars, JobMatches
  <2>2. Laid(r) = modules[r]
    BY <2>1 DEF Laid
  <2>3. Laid(r)' \subseteq modules[r]
    BY <2>1 DEF Laid
  <2> QED
    BY <1>a, <2>1, <2>2, <2>3 DEF LaidInv
<1>4. ASSUME NEW r \in Instance, Validate(r) PROVE LaidInv'
  <2>1. /\ at[r] = "validate" /\ conf[r].job = "apply" /\ InCritical(r)
        /\ UNCHANGED <<pc, conf, modules, schema>> /\ \A q \in Instance \ {r} : at'[q] = at[q]
    BY <1>4 DEF Validate, Break, Goto, InCritical, lockVars, dbVars, JobMatches
  <2>2. Laid(r) = modules[r] /\ Laid(r)' \subseteq modules[r]
    BY <2>1 DEF Laid
  <2> QED
    BY <1>a, <2>1, <2>2 DEF LaidInv
<1>5. ASSUME NEW r \in Instance,
             RunMigration(r) \/ RecordMigration(r) \/ LogMigration(r) \/ LogFailed(r)
      PROVE  LaidInv'
  <2>1. /\ at[r] \in MigrationLoop /\ conf[r].job = "apply" /\ InCritical(r)
        /\ UNCHANGED <<pc, conf, modules, todo>> /\ \A q \in Instance \ {r} : at'[q] = at[q]
    BY <1>5 DEF RunMigration, RecordMigration, LogMigration, LogFailed, Break, Goto, InCritical,
                lockVars, JobMatches, MigrationLoop
  <2>2. \/ at'[r] \in MigrationLoop \cup {"schema"}
        \/ at'[r] = "validate" /\ modules[r] = {}
        \/ at'[r] = "release" /\ erred'[r]
    BY <1>5 DEF RunMigration, RecordMigration, LogMigration, LogFailed, Break, Goto,
                AfterMigrations, MigrationLoop
  <2>3. todo[r] = modules[r]
    BY <2>1 DEF WorkLeft
  <2>4. Laid(r)' = {}
    BY <2>1, <2>2, <2>3 DEF Laid, MigrationLoop
  <2> QED
    BY <1>a, <2>1, <2>4
<1>6. ASSUME NEW r \in Instance, RollbackStep(r) PROVE LaidInv'
  <2>1. /\ conf[r].job = "rollback" /\ InCritical(r)
        /\ UNCHANGED <<pc, conf>> /\ \A q \in Instance \ {r} : at'[q] = at[q]
    BY <1>6 DEF RollbackStep, SkipDown, RunDown, DeleteRow, LogRollback, NextInLoop, Break,
                Abandon, Goto, InCritical, lockVars, JobMatches
  <2>2. Laid(r)' = {}
    BY <2>1 DEF Laid
  <2> QED
    BY <1>a, <2>1, <2>2
<1>7. ASSUME NEW r \in Instance, TryLock(r) PROVE LaidInv'
  <2>1. pc[r] \in Acquiring
    BY <1>7 DEF TryLock, AcquireStep, Seed, CheckHeld, Claim, ClaimMiss, ClaimFails, Wake, Acquiring
  <2>2. UNCHANGED <<runVars, dbVars>> /\ \A q \in Instance : q # r => pc'[q] = pc[q]
    BY <1>7 DEF TryLock, AcquireStep, Seed, CheckHeld, Claim, ClaimMiss, ClaimFails, Wake, Leave
  <2>3. Laid(r)' = {} /\ \A q \in Instance \ {r} : Laid(q)' = Laid(q)
    BY <2>1, <2>2 DEF Acquiring, LaidHeld, Laid, runVars
  <2>4. UNCHANGED <<conf, schema>> /\ \A q \in Instance \ {r} : InCritical(q)' = InCritical(q)
    BY <2>2 DEF InCritical, runVars, dbVars
  <2> QED
    BY <1>b, <2>3, <2>4
<1>8. ASSUME NEW r \in Instance, Die(r) PROVE LaidInv'
  BY <1>8 DEF Die, Crash, Leave, runVars, dbVars, LaidInv, InCritical, Laid, TextOf
<1>9. CASE Pass \/ UNCHANGED vars
  BY <1>9 DEF Pass, Tick, vars, lockVars, runVars, dbVars, LaidInv, InCritical, Laid, TextOf
<1> QED
  BY <1>1, <1>2, <1>3, <1>4, <1>5, <1>6, <1>7, <1>8, <1>9 DEF Next, RunStep, ApplyStep

LEMMA LaidInvariant ==
  ASSUME "overrun" \notin Faults
  PROVE  Spec => []LaidInv
<1>1. Init => LaidHeld /\ LaidInv
  BY DEF Init, LaidHeld, LaidInv, Laid
<1> QED
  BY <1>1, LaidHeldStep, LaidStep, LeaseHeldInvariant, RunsUseLock, LockTypeCorrect,
     RunInvariant, PTL
  DEF Spec

\* A schema module's checksum is logged only with every module of the plan in
\* the database as the files have it (plan.rs:320).
THEOREM RecordedDeployed ==
  ASSUME "overrun" \notin Faults
  PROVE  Spec => RecordedIsDeployed
<1>1. RunInv /\ LaidInv =>
        \A r \in Instance : at[r] = "logSchema" /\ recorded' # recorded /\ InCritical(r) =>
          \A m \in modules[r] : schema[m] = conf[r].files.modules[m]
  <2> SUFFICES ASSUME RunInv, LaidInv, NEW r \in Instance, at[r] = "logSchema", InCritical(r),
                      NEW m \in modules[r]
               PROVE  schema[m] = conf[r].files.modules[m]
    OBVIOUS
  <2>1. conf[r].job = "apply" /\ m \in Module
    BY DEF RunInv, RunTypeOK, JobMatches, ApplyInner
  <2> QED
    BY <2>1 DEF LaidInv, Laid, TextOf
<1> QED
  BY <1>1, LaidInvariant, RunInvariant, PTL DEF Spec, RecordedIsDeployed

\* Only the release of the lock is followed by an Ok.
LEMMA FinishSucceeds ==
  ASSUME RunInv, [Next]_vars, NEW r \in Instance, Succeeds(r)
  PROVE  Finish(r)
<1>1. at[r] = "release" /\ at'[r] = "ok"
  BY DEF Succeeds
<1>2. ASSUME NEW q \in Instance, ReadApplied(q) \/ BeginRollback(q) \/ RunStep(q) \/ Die(q)
      PROVE  q = r /\ Finish(q)
  <2>1. \E where : at' = [at EXCEPT ![q] = where] \/ at' = at
    BY <1>2 DEF ReadApplied, BeginRollback, RunStep, ApplyStep, RollbackStep, ReadChecksums,
                SkipApply, BeginApply, RunMigration, RecordMigration, LogMigration,
                LogFailed, ApplyModule, LogModule, Validate, SkipDown, RunDown, DeleteRow,
                LogRollback, NextInLoop, Finish, NoLock, TryLock, Die, Return, Break,
                Abandon, Goto, runVars
  <2>2. q = r /\ at' # at
    BY <1>1, <2>1 DEF RunInv, RunTypeOK
  <2> QED
    BY <1>1, <1>2, <2>2
    DEF ReadApplied, BeginRollback, RunStep, ApplyStep, RollbackStep, ReadChecksums,
        SkipApply, BeginApply, RunMigration, RecordMigration, LogMigration,
        LogFailed, ApplyModule, LogModule, Validate, SkipDown, RunDown, DeleteRow,
        LogRollback, NoLock, TryLock, Die, runVars, ApplyInner, RollbackLoop
<1>3. at' # at
  BY <1>1
<1> QED
  BY <1>2, <1>3 DEF Next, Pass, vars, runVars

\* Among deployments, apply() returns Ok only with every migration of its
\* files recorded and in effect, and every module of its plan in the
\* database as the files have it (plan.rs, apply).
THEOREM OkIsDeployed ==
  ASSUME Jobs = {"apply"}, "overrun" \notin Faults, "unchecked" \notin Faults
  PROVE  Spec => OkMeansDeployed
<1>1. RunInv /\ PlanInv /\ LaidInv /\ RowsAreApplied /\ [Next]_vars =>
        \A r \in Instance : Succeeds(r) /\ conf[r].job = "apply" =>
          /\ \A v \in DOMAIN conf[r].files.migrations : rows[v] # Absent /\ count[v] > 0
          /\ \A m \in modules[r] : schema[m] = conf[r].files.modules[m]
  <2> SUFFICES ASSUME RunInv, PlanInv, LaidInv, RowsAreApplied, [Next]_vars,
                      NEW r \in Instance, Succeeds(r), conf[r].job = "apply"
               PROVE  /\ \A v \in DOMAIN conf[r].files.migrations : rows[v] # Absent /\ count[v] > 0
                      /\ \A m \in modules[r] : schema[m] = conf[r].files.modules[m]
    OBVIOUS
  <2>1. at[r] = "release" /\ at'[r] = "ok"
    BY DEF Succeeds
  <2>2. Finish(r)
    BY FinishSucceeds
  <2>3. InCritical(r) /\ ~erred[r]
    <3>1. pc[r] = "held" /\ ~ReturnsErrors(r)
      BY <2>1, <2>2 DEF Finish, Return, Goto, RunInv, RunTypeOK
    <3> QED
      BY <2>1, <3>1 DEF ReturnsErrors, InCritical, Critical
  <2>4. \A v \in DOMAIN conf[r].files.migrations : v \in Version /\ rows[v] # Absent
    BY <2>1, <2>3, FilesAreContent DEF PlanInv, Deploying, BehindMigrations, RunInv, RunTypeOK
  <2>5. \A v \in Version : rows[v] # Absent => count[v] > 0
    <3>1. \A q \in Instance : conf[q].job = "apply"
      BY DEF RunInv, RunTypeOK
    <3> QED
      BY <3>1 DEF RowsAreApplied, RunInv, RunTypeOK
  <2>6. \A m \in modules[r] : schema[m] = conf[r].files.modules[m]
    BY <2>1, <2>3 DEF LaidInv, Laid, TextOf, RunInv, RunTypeOK
  <2> QED
    BY <2>4, <2>5, <2>6
<1> QED
  BY <1>1, PlanInvariant, LaidInvariant, RowsTellTheTruth, RunInvariant, PTL
  DEF Spec, OkMeansDeployed

-----------------------------------------------------------------------------
\* Rollbacks.

\* The versions above its target that a rollback without errors has behind it.
Undone(r) ==
  {v \in seen[r] :
     /\ conf[r].job = "rollback" /\ v > conf[r].target
     /\ at[r] \in RollbackLoop \cup {"release"} /\ ~erred[r]
     /\ v \notin pending[r] \/ (at[r] = "logRollback" /\ v = NextDown(r))}

\* Only a rollback with the lock in hand, or one that died there, has any, and
\* one that is about to return without errors has nothing left.
UndoneHeld ==
  \A r \in Instance :
    /\ pc[r] \notin {"held", "crashed"} => Undone(r) = {}
    /\ conf[r].job = "rollback" /\ at[r] = "release" /\ ~erred[r] => pending[r] = {}

\* While the rollback is in its critical section, their rows are gone.
UndoneInv ==
  \A r \in Instance, v \in Version :
    InCritical(r) /\ v \in Undone(r) => rows[v] = Absent

\* A step outside the critical section has nothing behind it.
LEMMA OutsideUndoesNothing ==
  ASSUME RunInv, LockTypeOK, NEW r \in Instance,
         ReadApplied(r) \/ ReadChecksums(r) \/ SkipApply(r) \/ BeginApply(r)
           \/ BeginRollback(r) \/ Finish(r) \/ NoLock(r)
  PROVE  /\ UNCHANGED <<conf, rows>>
         /\ \A q \in Instance \ {r} :
              /\ pc'[q] = pc[q] /\ at'[q] = at[q] /\ pending'[q] = pending[q]
              /\ erred'[q] = erred[q]
              /\ Undone(q)' = Undone(q) /\ InCritical(q)' = InCritical(q)
         /\ Undone(r)' = {}
         /\ at'[r] # "release"
<1> USE DEF RunInv, RunTypeOK, LockTypeOK
<1>1. \A q \in Instance \ {r} :
        /\ pc'[q] = pc[q] /\ at'[q] = at[q] /\ pending'[q] = pending[q]
        /\ seen'[q] = seen[q] /\ erred'[q] = erred[q] /\ conf'[q] = conf[q]
  BY DEF ReadApplied, ReadChecksums, SkipApply, BeginApply, BeginRollback, Finish, NoLock,
         Return, Goto, Acquire, Release, lockVars
<1>2. UNCHANGED <<conf, rows>>
  BY DEF ReadApplied, ReadChecksums, SkipApply, BeginApply, BeginRollback, Finish, NoLock, dbVars
<1>3. \/ at'[r] \in {"read", "planned", "migrate", "schema", "validate"} \cup Ended
      \/ /\ at'[r] = "rollback" /\ seen'[r] = AppliedVersions
         /\ pending'[r] = ToRollback(conf[r].target)
  BY DEF ReadApplied, ReadChecksums, SkipApply, BeginApply, BeginRollback, Finish, NoLock,
         Return, Goto, FirstStep, AfterMigrations, Ended
<1>4. at'[r] # "release" /\ Undone(r)' = {}
  BY <1>2, <1>3 DEF Undone, Ended, RollbackLoop, ToRollback
<1> QED
  BY <1>1, <1>2, <1>4 DEF Undone, InCritical, NextDown

\* Of the steps of the critical section, what all of them leave alone.
LEMMA InsideStays ==
  ASSUME RunInv, LockTypeOK, NEW r \in Instance,
         RunMigration(r) \/ RecordMigration(r) \/ LogMigration(r) \/ LogFailed(r)
           \/ ApplyModule(r) \/ LogModule(r) \/ Validate(r) \/ RollbackStep(r)
  PROVE  /\ pc[r] = "held" /\ InCritical(r) /\ UNCHANGED <<pc, conf, seen>>
         /\ \A q \in Instance \ {r} :
              at'[q] = at[q] /\ pending'[q] = pending[q] /\ erred'[q] = erred[q]
<1> USE DEF RunInv, RunTypeOK, LockTypeOK
<1>1. /\ pc[r] = "held" /\ InCritical(r) /\ UNCHANGED <<pc, conf, seen>>
  BY DEF RunMigration, RecordMigration, LogMigration, LogFailed, ApplyModule, LogModule,
         Validate, RollbackStep, SkipDown, RunDown, DeleteRow, LogRollback, lockVars,
         InCritical, Critical, ApplyInner, RollbackLoop
<1>2. \A q \in Instance \ {r} :
        at'[q] = at[q] /\ pending'[q] = pending[q] /\ erred'[q] = erred[q]
  BY DEF RunMigration, RecordMigration, LogMigration, LogFailed, ApplyModule, LogModule,
         Validate, RollbackStep, SkipDown, RunDown, DeleteRow, LogRollback, NextInLoop,
         Break, Abandon, Goto
<1> QED
  BY <1>1, <1>2

\* A rollback goes to "release" with nothing left or with an error.
LEMMA ReleasesDone ==
  ASSUME RunInv, NEW r \in Instance, RollbackStep(r), at'[r] = "release", ~erred'[r]
  PROVE  pending'[r] = {}
BY DEF RollbackStep, SkipDown, RunDown, DeleteRow, LogRollback, NextInLoop, Break, Abandon,
       Goto, RunInv, RunTypeOK

LEMMA UndoneHeldStep == RunInv /\ LockTypeOK /\ UndoneHeld /\ [Next]_vars => UndoneHeld'
<1> SUFFICES ASSUME RunInv, LockTypeOK, UndoneHeld, [Next]_vars PROVE UndoneHeld'
  OBVIOUS
<1>1. ASSUME NEW r \in Instance,
             ReadApplied(r) \/ ReadChecksums(r) \/ SkipApply(r) \/ BeginApply(r)
               \/ BeginRollback(r) \/ Finish(r) \/ NoLock(r)
      PROVE  UndoneHeld'
  BY <1>1, OutsideUndoesNothing DEF UndoneHeld
<1>2. ASSUME NEW r \in Instance,
             RunMigration(r) \/ RecordMigration(r) \/ LogMigration(r) \/ LogFailed(r)
               \/ ApplyModule(r) \/ LogModule(r) \/ Validate(r) \/ RollbackStep(r)
      PROVE  UndoneHeld'
  <2>1. /\ pc[r] = "held" /\ UNCHANGED <<pc, conf, seen>>
        /\ \A q \in Instance \ {r} :
             at'[q] = at[q] /\ pending'[q] = pending[q] /\ erred'[q] = erred[q]
    BY <1>2, InsideStays
  <2>2. conf[r].job = "rollback" => RollbackStep(r) \/ at[r] \in ApplyInner
    BY <1>2 DEF RunMigration, RecordMigration, LogMigration, LogFailed, ApplyModule, LogModule,
                Validate, ApplyInner
  <2>3. conf[r].job = "rollback" /\ at'[r] = "release" /\ ~erred'[r] => pending'[r] = {}
    BY <2>2, ReleasesDone DEF RunInv, RunTypeOK, JobMatches
  <2> QED
    BY <2>1, <2>3 DEF UndoneHeld, Undone, NextDown
<1>3. ASSUME NEW r \in Instance, TryLock(r) PROVE UndoneHeld'
  <2>1. pc[r] \in Acquiring
    BY <1>3 DEF TryLock, AcquireStep, Seed, CheckHeld, Claim, ClaimMiss, ClaimFails, Wake, Acquiring
  <2>2. UNCHANGED runVars /\ \A q \in Instance : q # r => pc'[q] = pc[q]
    BY <1>3 DEF TryLock, AcquireStep, Seed, CheckHeld, Claim, ClaimMiss, ClaimFails, Wake, Leave,
                LockTypeOK
  <2> QED
    BY <2>1, <2>2 DEF Acquiring, UndoneHeld, Undone, NextDown, runVars
<1>4. ASSUME NEW r \in Instance, Die(r) PROVE UndoneHeld'
  BY <1>4 DEF Die, Crash, Leave, runVars, UndoneHeld, Undone, NextDown, LockTypeOK
<1>5. CASE Pass \/ UNCHANGED vars
  BY <1>5 DEF Pass, Tick, vars, lockVars, runVars, UndoneHeld, Undone, NextDown
<1> QED
  BY <1>1, <1>2, <1>3, <1>4, <1>5 DEF Next, RunStep, ApplyStep

LEMMA UndoneStep ==
  ASSUME "overrun" \notin Faults, "unchecked" \notin Faults
  PROVE  RunInv /\ LockTypeOK /\ LeaseHeld /\ UndoneHeld /\ UndoneInv /\ [Next]_vars => UndoneInv'
<1> SUFFICES ASSUME RunInv, LockTypeOK, LeaseHeld, UndoneHeld, UndoneInv, [Next]_vars
             PROVE  UndoneInv'
  OBVIOUS
<1>0. ASSUME NEW r \in Instance, NEW q \in Instance, InCritical(r), InCritical(q) PROVE q = r
  BY <1>0 DEF LeaseHeld
<1>a. ASSUME NEW r \in Instance, InCritical(r), UNCHANGED pc,
             \A q \in Instance \ {r} : at'[q] = at[q],
             \A v \in Version : v \in Undone(r)' => rows'[v] = Absent
      PROVE  UndoneInv'
  <2>1. \A q \in Instance : InCritical(q)' => q = r
    BY <1>0, <1>a DEF InCritical
  <2> QED
    BY <1>a, <2>1 DEF UndoneInv
<1>b. ASSUME NEW r \in Instance, UNCHANGED rows, Undone(r)' = {},
             \A q \in Instance \ {r} : Undone(q)' = Undone(q) /\ InCritical(q)' = InCritical(q)
      PROVE  UndoneInv'
  BY <1>b DEF UndoneInv
<1>1. ASSUME NEW r \in Instance,
             ReadApplied(r) \/ ReadChecksums(r) \/ SkipApply(r) \/ BeginApply(r)
               \/ BeginRollback(r) \/ Finish(r) \/ NoLock(r)
      PROVE  UndoneInv'
  <2>1. /\ UNCHANGED rows /\ Undone(r)' = {}
        /\ \A q \in Instance \ {r} : Undone(q)' = Undone(q) /\ InCritical(q)' = InCritical(q)
    BY <1>1, OutsideUndoesNothing
  <2> QED
    BY <1>b, <2>1
<1>2. ASSUME NEW r \in Instance,
             RunMigration(r) \/ RecordMigration(r) \/ LogMigration(r) \/ LogFailed(r)
               \/ ApplyModule(r) \/ LogModule(r) \/ Validate(r)
      PROVE  UndoneInv'
  <2>1. /\ InCritical(r) /\ UNCHANGED <<pc, conf>> /\ \A q \in Instance \ {r} : at'[q] = at[q]
    BY <1>2, InsideStays
  <2>2. conf[r].job = "apply"
    BY <1>2 DEF RunMigration, RecordMigration, LogMigration, LogFailed, ApplyModule, LogModule,
                Validate, ApplyInner, RunInv, JobMatches
  <2>3. Undone(r)' = {}
    BY <2>1, <2>2 DEF Undone
  <2> QED
    BY <1>a, <2>1, <2>3
<1>3. ASSUME NEW r \in Instance, RollbackStep(r) PROVE UndoneInv'
  <2>1. /\ InCritical(r) /\ UNCHANGED <<pc, conf, seen>>
        /\ \A q \in Instance \ {r} : at'[q] = at[q]
    BY <1>3, InsideStays
  <2>2. \A v \in Version : v \in Undone(r) => rows[v] = Absent
    BY <2>1 DEF UndoneInv
  <2>3. CASE SkipDown(r)
    <3>1. Undone(r)' = {}
      BY <2>3 DEF SkipDown, Undone, RunInv, RunTypeOK
    <3> QED
      BY <1>a, <2>1, <3>1
  <2>4. CASE RunDown(r)
    <3>1. /\ UNCHANGED <<pending, rows>> /\ at[r] = "rollback"
          /\ at'[r] \in {"delete", "err"} \/ erred'[r]
          /\ at'[r] = "delete" => UNCHANGED erred
      BY <2>4 DEF RunDown, Break, Abandon, Goto, RunInv, RunTypeOK
    <3>2. \A v \in Version : v \in Undone(r)' => v \in Undone(r)
      BY <2>1, <3>1 DEF Undone, RollbackLoop
    <3> QED
      BY <1>a, <2>1, <2>2, <3>1, <3>2
  <2>5. CASE DeleteRow(r)
    <3>1. /\ UNCHANGED <<pending, erred>> /\ at[r] = "delete"
          /\ \/ at'[r] = "err"
             \/ at'[r] = "logRollback" /\ rows' = [rows EXCEPT ![NextDown(r)] = Absent]
      BY <2>5 DEF DeleteRow, Abandon, Goto, Unchecked, Checked, TookEffect, LooksDone,
                  RunInv, RunTypeOK
    <3>2. \A v \in Version : rows'[v] \in {rows[v], Absent}
      BY <2>5 DEF DeleteRow, RunInv, RunTypeOK
    <3>3. \A v \in Version : v \in Undone(r)' => v \in Undone(r) \/ rows'[v] = Absent
      BY <2>1, <3>1 DEF Undone, RollbackLoop, NextDown, RunInv, RunTypeOK
    <3> QED
      BY <1>a, <2>1, <2>2, <3>2, <3>3
  <2>6. CASE LogRollback(r)
    <3>1. /\ UNCHANGED <<erred, rows>> /\ at[r] = "logRollback"
          /\ \/ at'[r] = "err"
             \/ pending'[r] = pending[r] \ {NextDown(r)} /\ at'[r] \in {"rollback", "release"}
      BY <2>6 DEF LogRollback, NextInLoop, Abandon, Goto, dbVars, RunInv, RunTypeOK
    <3>2. \A v \in Version : v \in Undone(r)' => v \in Undone(r)
      BY <2>1, <3>1 DEF Undone, RollbackLoop
    <3> QED
      BY <1>a, <2>1, <2>2, <3>1, <3>2
  <2> QED
    BY <1>3, <2>3, <2>4, <2>5, <2>6 DEF RollbackStep
<1>4. ASSUME NEW r \in Instance, TryLock(r) PROVE UndoneInv'
  <2>1. pc[r] \in Acquiring
    BY <1>4 DEF TryLock, AcquireStep, Seed, CheckHeld, Claim, ClaimMiss, ClaimFails, Wake, Acquiring
  <2>2. UNCHANGED <<runVars, dbVars>> /\ \A q \in Instance : q # r => pc'[q] = pc[q]
    BY <1>4 DEF TryLock, AcquireStep, Seed, CheckHeld, Claim, ClaimMiss, ClaimFails, Wake, Leave,
                LockTypeOK
  <2>3. Undone(r)' = {} /\ \A q \in Instance \ {r} : Undone(q)' = Undone(q)
    BY <2>1, <2>2 DEF Acquiring, UndoneHeld, Undone, NextDown, runVars
  <2>4. UNCHANGED rows /\ \A q \in Instance \ {r} : InCritical(q)' = InCritical(q)
    BY <2>2 DEF InCritical, runVars, dbVars
  <2> QED
    BY <1>b, <2>3, <2>4
<1>5. ASSUME NEW r \in Instance, Die(r) PROVE UndoneInv'
  BY <1>5 DEF Die, Crash, Leave, runVars, dbVars, UndoneInv, InCritical, Undone, NextDown, LockTypeOK
<1>6. CASE Pass \/ UNCHANGED vars
  BY <1>6 DEF Pass, Tick, vars, lockVars, runVars, dbVars, UndoneInv, InCritical, Undone, NextDown
<1> QED
  BY <1>1, <1>2, <1>3, <1>4, <1>5, <1>6 DEF Next, RunStep, ApplyStep

\* A rollback that reports no error has removed the row of every version
\* above its target that it saw, whatever deployments and other rollbacks do
\* meanwhile (plan.rs:554-561).
THEOREM RollbacksRemove ==
  ASSUME "overrun" \notin Faults, "unchecked" \notin Faults
  PROVE  Spec => RollbackRemoves
<1>1. Init => UndoneHeld /\ UndoneInv
  BY DEF Init, UndoneHeld, UndoneInv, Undone, RollbackLoop
<1>2. RunInv /\ UndoneHeld /\ UndoneInv /\ [Next]_vars =>
        \A r \in Instance : Succeeds(r) /\ conf[r].job = "rollback" /\ ~erred[r] =>
          \A v \in seen[r] : v > conf[r].target => rows[v] = Absent
  <2> SUFFICES ASSUME RunInv, UndoneHeld, UndoneInv, [Next]_vars, NEW r \in Instance,
                      Succeeds(r), conf[r].job = "rollback", ~erred[r],
                      NEW v \in seen[r], v > conf[r].target
               PROVE  rows[v] = Absent
    OBVIOUS
  <2>1. at[r] = "release" /\ Finish(r)
    BY FinishSucceeds DEF Succeeds
  <2>2. InCritical(r) /\ pending[r] = {} /\ v \in Version
    BY <2>1 DEF Finish, InCritical, Critical, UndoneHeld, RunInv, RunTypeOK
  <2>3. v \in Undone(r)
    BY <2>1, <2>2 DEF Undone
  <2> QED
    BY <2>2, <2>3 DEF UndoneInv
<1> QED
  BY <1>1, <1>2, UndoneHeldStep, UndoneStep, LeaseHeldInvariant, RunsUseLock, LockTypeCorrect,
     RunInvariant, PTL
  DEF Spec, RollbackRemoves
=============================================================================
