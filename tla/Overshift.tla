----------------------------- MODULE Overshift -----------------------------
(***************************************************************************)
(* The migration engine of overshift (overshift/src/plan.rs, changelog.rs):*)
(* plan(), Plan::apply() and rollback(), run by several processes against  *)
(* one SurrealDB server, under the distributed lock of LeaderLock.         *)
(*                                                                         *)
(* A run is one call of rollback(), or one plan() followed by its apply(). *)
(* It has its own instance_id, so a process restarted after a crash is     *)
(* another run.  One action is one query and what the code does with its   *)
(* answer up to the next query; session switches (use_ns, use_db) belong   *)
(* to the query that follows them.  The application database and the       *)
(* system database are changed by different queries, never atomically.     *)
(*                                                                         *)
(* A file's text and its SHA-256 checksum are the same value here.  The    *)
(* changelog's entries about migrations are never read back: writing one   *)
(* is a step that can fail, but the entries are not kept.                  *)
(***************************************************************************)
EXTENDS LeaderLock, FiniteSets, FiniteSetsExt

CONSTANTS
  Version,     \* migration versions
  Module,      \* schema modules, numbered in dependency order
  Content,     \* file contents
  Absent,      \* no row, no changelog entry, nothing defined
  Mixed,       \* a schema module of which only some statements took effect
  Manifest,    \* the file sets a run may be started with
  Deployed,    \* the file sets the database may start from
  Jobs         \* what runs do: "apply", "rollback"

\* Besides those of LeaderLock:
\* "unchecked"  a statement failed, and the code does not call check()
\* "overrun"    a run outlives its 60 second lease
FaultKinds == LockFaultKinds \cup {"unchecked", "overrun"}

ASSUME OvershiftAssumption ==
  /\ Version \subseteq Nat \ {0} /\ IsFiniteSet(Version)
  /\ Module \subseteq Nat
  /\ Absent \notin Content /\ Mixed \notin Content
  /\ \A f \in Manifest \cup Deployed :
       /\ DOMAIN f.migrations \subseteq Version
       /\ \A v \in DOMAIN f.migrations : f.migrations[v] \in Content
       /\ DOMAIN f.modules \subseteq Module
       /\ \A m \in DOMAIN f.modules : f.modules[m] \in Content
       /\ f.downs \subseteq DOMAIN f.migrations
  /\ Jobs \subseteq {"apply", "rollback"}
  /\ Faults \subseteq FaultKinds

VARIABLES
  conf,      \* what each run was started with: job, files, target version
  at,        \* where each run is
  pending,   \* pending_migrations of an apply, to_rollback of a rollback
  modules,   \* schema_modules of the plan, empty when skipped
  todo,      \* those of modules still to apply, then still to log
  erred,     \* migration_errors / errors is not empty
  seen,      \* history: the applied versions a rollback read
  count,     \* application database: how often a migration is in effect
  schema,    \* application database: what each schema module defines
  rows,      \* migration_lock: checksum recorded for each version
  recorded   \* changelog: latest checksum logged for each schema module

runVars == <<conf, at, pending, modules, todo, erred, seen>>
dbVars == <<count, schema, rows, recorded>>
vars == <<lockVars, runVars, dbVars>>

\* apply_inner and the loop of rollback(): behind lock.acquire().
ApplyInner == {"migrate", "record", "log", "logFailed", "schema", "logSchema", "validate"}
RollbackLoop == {"rollback", "delete", "logRollback"}
Critical == ApplyInner \cup RollbackLoop \cup {"release"}
Ended == {"ok", "err"}

-----------------------------------------------------------------------------

Extend(f, S) == [e \in S |-> IF e \in DOMAIN f THEN f[e] ELSE Absent]

\* No run has started, and an earlier, complete apply left the database as
\* one of the file sets of Deployed has it.
Init ==
  /\ LockInit
  /\ conf \in [Instance -> [job : Jobs, files : Manifest, target : {0} \cup Version]]
  /\ \A r \in Instance : conf[r].job = "apply" => conf[r].target = 0
  /\ at = [r \in Instance |-> "idle"]
  /\ pending = [r \in Instance |-> {}]
  /\ modules = [r \in Instance |-> {}]
  /\ todo = [r \in Instance |-> {}]
  /\ erred = [r \in Instance |-> FALSE]
  /\ seen = [r \in Instance |-> {}]
  /\ \E f \in Deployed :
       /\ count = [v \in Version |-> IF v \in DOMAIN f.migrations THEN 1 ELSE 0]
       /\ rows = Extend(f.migrations, Version)
       /\ schema = Extend(f.modules, Module)
       /\ recorded = schema

Alive(r) == pc[r] # "crashed"
InCritical(r) == pc[r] = "held" /\ at[r] \in Critical

Goto(r, where) == at' = [at EXCEPT ![r] = where]

\* apply() returns: its plan and its errors are gone.
Return(r, how) ==
  /\ Goto(r, how)
  /\ modules' = [modules EXCEPT ![r] = {}]
  /\ todo' = [todo EXCEPT ![r] = {}]
  /\ erred' = [erred EXCEPT ![r] = FALSE]

\* An outcome of a query whose answer the code looks at, and of one whose
\* answer it drops without check().
Checked == {"done"} \cup (Faults \cap {"failed", "lost"})
Unchecked == Checked \cup (Faults \cap {"unchecked"})
TookEffect(outcome) == outcome \in {"done", "lost"}
LooksDone(outcome) == outcome \in {"done", "unchecked"}
MayError == Faults \cap {"failed", "lost"} # {}

-----------------------------------------------------------------------------
\* plan()

AppliedVersions == {v \in Version : rows[v] # Absent}

\* Steps 3 and 4: a recorded checksum that is not the file's.
ChecksumMismatch(f) ==
  \E v \in DOMAIN f.migrations : rows[v] # Absent /\ rows[v] # f.migrations[v]

\* read_applied and steps 3 to 5.
ReadApplied(r) ==
  /\ at[r] = "idle" /\ Alive(r) /\ conf[r].job = "apply"
  /\ LET f == conf[r].files IN
       \/ ~ChecksumMismatch(f) /\ Goto(r, "read")
            /\ pending' = [pending EXCEPT ![r] = DOMAIN f.migrations \ AppliedVersions]
       \/ (ChecksumMismatch(f) \/ "failed" \in Faults) /\ Goto(r, "err")
            /\ UNCHANGED pending
  /\ UNCHANGED <<lockVars, conf, seen, modules, todo, erred, dbVars>>

\* recorded.len() >= schema_modules.len() and every checksum matches.
Unchanged(f) ==
  /\ Cardinality({m \in Module : recorded[m] # Absent}) >= Cardinality(DOMAIN f.modules)
  /\ \A m \in DOMAIN f.modules : recorded[m] = f.modules[m]

\* Step 6.  When the changelog cannot be read the modules are re-applied.
ReadChecksums(r) ==
  /\ at[r] = "read" /\ Alive(r)
  /\ LET f == conf[r].files
         planned == IF Unchanged(f) THEN {} ELSE DOMAIN f.modules
     IN  \E ms \in {planned} \cup (IF "failed" \in Faults THEN {DOMAIN f.modules} ELSE {}) :
           /\ modules' = [modules EXCEPT ![r] = ms]
           /\ todo' = [todo EXCEPT ![r] = ms]
  /\ Goto(r, "planned")
  /\ UNCHANGED <<lockVars, conf, seen, pending, erred, dbVars>>

-----------------------------------------------------------------------------
\* Plan::apply()

\* Where apply_inner goes when there is no (other) migration to run.
AfterMigrations(r) == IF modules[r] = {} THEN "validate" ELSE "schema"
FirstStep(r) == IF pending[r] = {} THEN AfterMigrations(r) ELSE "migrate"

\* An empty plan returns at once, and so does a failed bootstrap query.
SkipApply(r) ==
  /\ at[r] = "planned" /\ Alive(r)
  /\ \/ pending[r] = {} /\ modules[r] = {} /\ Return(r, "ok")
     \/ "failed" \in Faults /\ Return(r, "err")
  /\ UNCHANGED <<lockVars, conf, seen, pending, dbVars>>

\* Any other plan goes for the lock.
BeginApply(r) ==
  /\ at[r] = "planned" /\ Alive(r)
  /\ pending[r] # {} \/ modules[r] # {}
  /\ Acquire(r)
  /\ Goto(r, FirstStep(r))
  /\ UNCHANGED <<conf, seen, pending, modules, todo, erred, dbVars>>

\* `?` inside apply_inner: apply() still releases the lock.
Break(r) == Goto(r, "release") /\ erred' = [erred EXCEPT ![r] = TRUE]

NextUp(r) == Min(pending[r])

\* Faulty variant: the response of the transaction is not checked.
RunMigrationUnchecked(r) ==
  /\ at[r] = "migrate" /\ pc[r] = "held"
  /\ \E outcome \in Checked :
       count' = IF TookEffect(outcome)
                  THEN [count EXCEPT ![NextUp(r)] = @ + 1] ELSE count
  /\ Goto(r, "record")
  /\ UNCHANGED <<lockVars, conf, seen, pending, modules, todo, erred, schema, rows, recorded>>

\* BEGIN TRANSACTION; <file>; COMMIT TRANSACTION in the application
\* database.  Pending migrations run in version order.
RunMigration(r) ==
  /\ at[r] = "migrate" /\ pc[r] = "held"
  /\ \/ \E outcome \in Checked :
          /\ count' = IF TookEffect(outcome)
                        THEN [count EXCEPT ![NextUp(r)] = @ + 1] ELSE count
          /\ Goto(r, IF LooksDone(outcome) THEN "record" ELSE "logFailed")
          /\ UNCHANGED erred
     \/ "failed" \in Faults /\ Break(r) /\ UNCHANGED count      \* use_db failed
  /\ UNCHANGED <<lockVars, conf, seen, pending, modules, todo, schema, rows, recorded>>

\* record_migration: CREATE migration_lock.  The UNIQUE index rejects a
\* version that has a row; the response is not checked, so the run goes on.
RecordMigration(r) ==
  /\ at[r] = "record" /\ pc[r] = "held"
  /\ \E outcome \in Unchecked :
       /\ rows' = IF TookEffect(outcome) /\ rows[NextUp(r)] = Absent
                    THEN [rows EXCEPT ![NextUp(r)] = conf[r].files.migrations[NextUp(r)]]
                    ELSE rows
       /\ IF LooksDone(outcome) THEN Goto(r, "log") /\ UNCHANGED erred ELSE Break(r)
  /\ UNCHANGED <<lockVars, conf, seen, pending, modules, todo, count, schema, recorded>>

\* The changelog entry of an applied migration, and on to the next one.
LogMigration(r) ==
  /\ at[r] = "log" /\ pc[r] = "held"
  /\ \/ /\ pending' = [pending EXCEPT ![r] = @ \ {NextUp(r)}]
        /\ Goto(r, IF pending[r] = {NextUp(r)} THEN AfterMigrations(r) ELSE "migrate")
        /\ UNCHANGED erred
     \/ MayError /\ Break(r) /\ UNCHANGED pending
  /\ UNCHANGED <<lockVars, conf, seen, modules, todo, dbVars>>

\* Faulty variant: the loop goes on with the next migration.
LogFailedContinues(r) ==
  /\ at[r] = "logFailed" /\ pc[r] = "held"
  /\ pending' = [pending EXCEPT ![r] = @ \ {NextUp(r)}]
  /\ Goto(r, IF pending[r] = {NextUp(r)} THEN AfterMigrations(r) ELSE "migrate")
  /\ erred' = [erred EXCEPT ![r] = TRUE]
  /\ UNCHANGED <<lockVars, conf, seen, modules, todo, dbVars>>

\* A migration failed: log it, leave the loop, go on with the schema.
LogFailed(r) ==
  /\ at[r] = "logFailed" /\ pc[r] = "held"
  /\ Goto(r, AfterMigrations(r)) \/ (MayError /\ Goto(r, "release"))
  /\ erred' = [erred EXCEPT ![r] = TRUE]
  /\ UNCHANGED <<lockVars, conf, seen, pending, modules, todo, dbVars>>

\* Schema modules are applied, and then logged, in dependency order.
NextModule(r) == Min(todo[r])
TextOf(r, m) == conf[r].files.modules[m]

\* Faulty variant: the response is not checked.
ApplyModuleUnchecked(r) ==
  /\ at[r] = "schema" /\ pc[r] = "held"
  /\ LET m == NextModule(r) IN
       /\ \E now \in {TextOf(r, m)} \cup (IF MayError THEN {schema[m], Mixed} ELSE {}) :
            schema' = [schema EXCEPT ![m] = now]
       /\ todo' = [todo EXCEPT ![r] = IF @ = {m} THEN modules[r] ELSE @ \ {m}]
       /\ Goto(r, IF todo[r] = {m} THEN "logSchema" ELSE "schema")
  /\ UNCHANGED <<lockVars, conf, seen, pending, modules, erred, count, rows, recorded>>

\* The statements of one schema module, not in a transaction: when one
\* fails, or the connection does, any of the others may have taken effect.
ApplyModule(r) ==
  /\ at[r] = "schema" /\ pc[r] = "held"
  /\ LET m == NextModule(r) IN
       \/ /\ schema' = [schema EXCEPT ![m] = TextOf(r, m)]
          /\ todo' = [todo EXCEPT ![r] = IF @ = {m} THEN modules[r] ELSE @ \ {m}]
          /\ Goto(r, IF todo[r] = {m} THEN "logSchema" ELSE "schema")
          /\ UNCHANGED erred
       \/ /\ MayError
          /\ \E now \in {schema[m], Mixed, TextOf(r, m)} : schema' = [schema EXCEPT ![m] = now]
          /\ Break(r)
          /\ UNCHANGED todo
  /\ UNCHANGED <<lockVars, conf, seen, pending, modules, count, rows, recorded>>

\* The changelog entry of one applied schema module.
LogModule(r) ==
  /\ at[r] = "logSchema" /\ pc[r] = "held"
  /\ LET m == NextModule(r) IN
     \E outcome \in Unchecked :
       /\ recorded' = IF TookEffect(outcome)
                        THEN [recorded EXCEPT ![m] = TextOf(r, m)] ELSE recorded
       /\ \/ /\ LooksDone(outcome)
             /\ todo' = [todo EXCEPT ![r] = @ \ {m}]
             /\ Goto(r, IF todo[r] = {m} THEN "validate" ELSE "logSchema")
             /\ UNCHANGED erred
          \/ ~LooksDone(outcome) /\ Break(r) /\ UNCHANGED todo
  /\ UNCHANGED <<lockVars, conf, seen, pending, modules, count, schema, rows>>

\* validate_functions, and the migration errors collected before it.
Validate(r) ==
  /\ at[r] = "validate" /\ pc[r] = "held"
  /\ \/ Goto(r, "release") /\ UNCHANGED erred
     \/ "failed" \in Faults /\ Break(r)
  /\ UNCHANGED <<lockVars, conf, seen, pending, modules, todo, dbVars>>

\* Faulty variant: the collected errors are dropped.
ReturnsErrorsNever(r) == FALSE

\* apply() returns its errors as an Err, rollback() inside an Ok.
ReturnsErrors(r) == conf[r].job = "apply" /\ erred[r]

\* lock.release(), whose error is only logged, then the session goes back
\* to the application database.
Finish(r) ==
  /\ at[r] = "release" /\ pc[r] = "held"
  /\ Release(r)
  /\ \/ ~ReturnsErrors(r) /\ Return(r, "ok")
     \/ (ReturnsErrors(r) \/ "failed" \in Faults) /\ Return(r, "err")
  /\ UNCHANGED <<conf, seen, pending, dbVars>>

-----------------------------------------------------------------------------
\* rollback()

ToRollback(target) == {v \in AppliedVersions : v > target}

\* The applied versions are read before the lock is taken.
BeginRollback(r) ==
  /\ at[r] = "idle" /\ Alive(r) /\ conf[r].job = "rollback"
  /\ pending' = [pending EXCEPT ![r] = ToRollback(conf[r].target)]
  /\ seen' = [seen EXCEPT ![r] = AppliedVersions]
  /\ \/ ToRollback(conf[r].target) = {} /\ Goto(r, "ok") /\ UNCHANGED lockVars
     \/ ToRollback(conf[r].target) # {} /\ Goto(r, "rollback") /\ Acquire(r)
     \/ "failed" \in Faults /\ Goto(r, "err") /\ UNCHANGED lockVars
  /\ UNCHANGED <<conf, modules, todo, erred, dbVars>>

NextDown(r) == Max(pending[r])

\* The loop goes to the next version, or ends when none is left.
NextInLoop(r) ==
  /\ pending' = [pending EXCEPT ![r] = @ \ {NextDown(r)}]
  /\ Goto(r, IF pending[r] = {NextDown(r)} THEN "release" ELSE "rollback")

\* Faulty variant: the version is passed over without an error.
SkipDownSilently(r) ==
  /\ at[r] = "rollback" /\ pc[r] = "held"
  /\ NextDown(r) \notin conf[r].files.downs
  /\ NextInLoop(r)
  /\ UNCHANGED <<lockVars, conf, seen, modules, todo, erred, dbVars>>

\* No .down.surql: an error is noted and the version is passed over.
SkipDown(r) ==
  /\ at[r] = "rollback" /\ pc[r] = "held"
  /\ NextDown(r) \notin conf[r].files.downs
  /\ NextInLoop(r)
  /\ erred' = [erred EXCEPT ![r] = TRUE]
  /\ UNCHANGED <<lockVars, conf, seen, modules, todo, dbVars>>

\* `?` inside the loop of rollback(): it returns and keeps the lock.
Abandon(r) == Goto(r, "err") /\ UNCHANGED erred

\* Faulty variant: the row is not deleted.
RunDownKeepsRow(r) ==
  /\ at[r] = "rollback" /\ pc[r] = "held"
  /\ NextDown(r) \in conf[r].files.downs
  /\ \E outcome \in Checked :
       /\ count' = IF TookEffect(outcome) /\ count[NextDown(r)] > 0
                     THEN [count EXCEPT ![NextDown(r)] = @ - 1] ELSE count
       /\ \/ LooksDone(outcome) /\ Goto(r, "logRollback") /\ UNCHANGED erred
          \/ ~LooksDone(outcome) /\ (Break(r) \/ Abandon(r))
  /\ UNCHANGED <<lockVars, conf, seen, pending, modules, todo, schema, rows, recorded>>

\* The down migration, in a transaction in the application database.  When
\* it fails the loop ends; a session switch before or after it may fail too.
RunDown(r) ==
  /\ at[r] = "rollback" /\ pc[r] = "held"
  /\ NextDown(r) \in conf[r].files.downs
  /\ \E outcome \in Checked :
       /\ count' = IF TookEffect(outcome) /\ count[NextDown(r)] > 0
                     THEN [count EXCEPT ![NextDown(r)] = @ - 1] ELSE count
       /\ \/ LooksDone(outcome) /\ Goto(r, "delete") /\ UNCHANGED erred
          \/ ~LooksDone(outcome) /\ (Break(r) \/ Abandon(r))
  /\ UNCHANGED <<lockVars, conf, seen, pending, modules, todo, schema, rows, recorded>>

\* DELETE FROM migration_lock; the response is not checked.
DeleteRow(r) ==
  /\ at[r] = "delete" /\ pc[r] = "held"
  /\ \E outcome \in Unchecked :
       /\ rows' = IF TookEffect(outcome) THEN [rows EXCEPT ![NextDown(r)] = Absent] ELSE rows
       /\ IF LooksDone(outcome) THEN Goto(r, "logRollback") /\ UNCHANGED erred ELSE Abandon(r)
  /\ UNCHANGED <<lockVars, conf, seen, pending, modules, todo, count, schema, recorded>>

\* The changelog entry of a rollback, and on to the next version.
LogRollback(r) ==
  /\ at[r] = "logRollback" /\ pc[r] = "held"
  /\ \/ NextInLoop(r) /\ UNCHANGED erred
     \/ MayError /\ Abandon(r) /\ UNCHANGED pending
  /\ UNCHANGED <<lockVars, conf, seen, modules, todo, dbVars>>

-----------------------------------------------------------------------------

\* Faulty variant: a run without the lock starts over until it gets it.
NoLockRetries(r) ==
  /\ at[r] \in ApplyInner \cup RollbackLoop /\ pc[r] = "error"
  /\ Acquire(r)
  /\ UNCHANGED <<runVars, dbVars>>

\* lock.acquire() gave up or failed: apply() and rollback() return its error.
NoLock(r) ==
  /\ at[r] \in ApplyInner \cup RollbackLoop /\ pc[r] = "error"
  /\ Return(r, "err")
  /\ UNCHANGED <<lockVars, conf, seen, pending, dbVars>>

\* One more attempt, query or sleep of lock.acquire().
TryLock(r) == AcquireStep(r) /\ UNCHANGED <<runVars, dbVars>>

\* The process of a run dies.
Die(r) ==
  /\ at[r] \notin Ended
  /\ Crash(r)
  /\ UNCHANGED <<runVars, dbVars>>

\* Time passes.  Without "overrun", a run ends its critical section before
\* its lease runs out.
Pass ==
  /\ "overrun" \in Faults \/ \A r \in Instance : InCritical(r) => left[r] > 0
  /\ Tick
  /\ UNCHANGED <<runVars, dbVars>>

ApplyStep(r) ==
  \/ ReadChecksums(r) \/ SkipApply(r) \/ BeginApply(r)
  \/ RunMigration(r) \/ RecordMigration(r) \/ LogMigration(r) \/ LogFailed(r)
  \/ ApplyModule(r) \/ LogModule(r) \/ Validate(r)

RollbackStep(r) == SkipDown(r) \/ RunDown(r) \/ DeleteRow(r) \/ LogRollback(r)

\* What a run does by itself once it has been started.
RunStep(r) == ApplyStep(r) \/ RollbackStep(r) \/ Finish(r) \/ NoLock(r) \/ TryLock(r)

Next ==
  \/ \E r \in Instance : ReadApplied(r) \/ BeginRollback(r) \/ RunStep(r) \/ Die(r)
  \/ Pass

\* Time passes, and a started run is executed as long as its process lives:
\* it only awaits queries, which the database answers or fails, and timers.
Fairness == WF_vars(Pass) /\ \A r \in Instance : WF_vars(RunStep(r))

Spec == Init /\ [][Next]_vars
FairSpec == Spec /\ Fairness

-----------------------------------------------------------------------------

TypeOK ==
  /\ LockTypeOK
  /\ conf \in [Instance -> [job : Jobs, files : Manifest, target : {0} \cup Version]]
  /\ at \in [Instance -> {"idle", "read", "planned"} \cup Critical \cup Ended]
  /\ pending \in [Instance -> SUBSET Version]
  /\ modules \in [Instance -> SUBSET Module]
  /\ todo \in [Instance -> SUBSET Module]
  /\ erred \in [Instance -> BOOLEAN]
  /\ seen \in [Instance -> SUBSET Version]
  /\ count \in [Version -> Nat]
  /\ schema \in [Module -> Content \cup {Absent, Mixed}]
  /\ rows \in [Version -> Content \cup {Absent}]
  /\ recorded \in [Module -> Content \cup {Absent}]

\* "Only one instance can hold the lock at a time" (lock.rs:4): two runs are
\* never in their critical sections together, provided each ends its own
\* before its lease runs out.
CriticalExclusive ==
  \A r, s \in Instance : InCritical(r) /\ InCritical(s) => r = s

\* A row of migration_lock means that the migration is in effect in the
\* application database, unless a rollback stopped, or is, between its down
\* migration and the deletion of the row (plan.rs, apply_inner, rollback).
RowsAreApplied ==
  \A v \in Version :
    rows[v] # Absent /\ count[v] = 0 =>
      \E r \in Instance :
        conf[r].job = "rollback" /\ v \in pending[r] /\ at[r] \in {"delete", "release"} \cup Ended

\* "subsequent migrations depend on prior state" (plan.rs:269): a version is
\* recorded only after every earlier version that all file sets have.
RowsArePrefix ==
  \A u, v \in Version :
    /\ u < v /\ rows[v] # Absent
    /\ \A f \in Manifest : u \in DOMAIN f.migrations
    => rows[u] # Absent

\* apply() returns Ok only when every migration of its files is recorded and
\* every schema module of its plan is in the database as the files have it
\* (plan.rs, apply).
Succeeds(r) == at[r] = "release" /\ at'[r] = "ok"
OkMeansDeployed ==
  [][\A r \in Instance : Succeeds(r) /\ conf[r].job = "apply" =>
       /\ \A v \in DOMAIN conf[r].files.migrations : rows[v] # Absent /\ count[v] > 0
       /\ \A m \in modules[r] : schema[m] = conf[r].files.modules[m]]_vars

\* The changelog is told a new checksum of a schema module only when all
\* modules of that plan are in the database (plan.rs:320): plan() skips the
\* schema on the changelog's word.
RecordedIsDeployed ==
  [][\A r \in Instance : at[r] = "logSchema" /\ recorded' # recorded /\ InCritical(r) =>
       \A m \in modules[r] : schema[m] = conf[r].files.modules[m]]_vars

\* Every started run ends or dies: retries are bounded and no run waits on
\* another for ever (lock.rs, acquire; plan.rs, apply and rollback).
RunsEnd ==
  \A r \in Instance : at[r] # "idle" ~> (at[r] \in Ended \/ ~Alive(r))

\* A lock left behind, by a crash or by an early return of rollback(), can
\* be claimed again (lock.rs:4-6, plan.rs:663-683).
LockComesFree ==
  \A r \in Instance :
    (holder = r /\ (at[r] \in Ended \/ ~Alive(r))) ~> (holder # r \/ Claimable)

\* A rollback that reports no error has removed the row of every version
\* above its target that it saw (plan.rs:554-561).
RollbackRemoves ==
  [][\A r \in Instance : Succeeds(r) /\ conf[r].job = "rollback" /\ ~erred[r] =>
       \A v \in seen[r] : v > conf[r].target => rows[v] = Absent]_vars

\* "imperative migrations (versioned, checksummed, one-shot)" (lib.rs:4): no
\* migration takes effect twice without a rollback in between.
OneShot == \A v \in Version : count[v] <= 1

\* "Skip schema modules if all checksums match previous apply" (plan.rs:515):
\* when plan() skips the schema modules and no run is changing anything,
\* the database has them as the files do.
SkipIsSound ==
  [][\A r \in Instance :
       /\ at[r] = "read" /\ at'[r] = "planned" /\ modules'[r] = {}
       /\ \A s \in Instance : ~InCritical(s)
       => \A m \in DOMAIN conf[r].files.modules : schema[m] = TextOf(r, m)]_vars
=============================================================================
