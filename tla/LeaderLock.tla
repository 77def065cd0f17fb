----------------------------- MODULE LeaderLock -----------------------------
(***************************************************************************)
(* SurrealLock (overshift/src/lock.rs): the record leader_lock:{scope} in  *)
(* the system database, and the instances that acquire and release it.     *)
(*                                                                         *)
(* One action is one query to the database, so whatever other instances do *)
(* between two queries of try_acquire is an interleaving here.  A query    *)
(* may also fail, with or without having taken effect in the database.     *)
(*                                                                         *)
(* Time is counted in ticks.  Instead of a clock and an absolute           *)
(* expires_at, ttl is "expires_at - time::now()", which is all the code    *)
(* ever compares: it counts down to -1 and stays there, so that the model  *)
(* has finitely many states.  A timer is never early, but may be noticed   *)
(* arbitrarily late.                                                       *)
(***************************************************************************)
EXTENDS Integers

CONSTANTS
  Instance,       \* lock values, one per instance_id (a fresh uuid each)
  NoHolder,       \* SurrealQL's NONE
  LeaseTicks,     \* the 60s of expires_at, in ticks
  RetryInterval,  \* RETRY_INTERVAL, in ticks
  MaxRetries,     \* MAX_RETRIES
  Faults          \* what may go wrong, of the kinds below

\* "failed"  a query returns an error and had no effect
\* "lost"    a query took effect and its answer is lost
\* "crash"   a process dies
LockFaultKinds == {"failed", "lost", "crash"}

ASSUME LockAssumption ==
  /\ NoHolder \notin Instance
  /\ LeaseTicks \in Nat \ {0}
  /\ RetryInterval \in Nat \ {0}
  /\ MaxRetries \in Nat \ {0}

VARIABLES
  seeded,    \* the record leader_lock:{scope} exists
  holder,    \* its field holder
  ttl,       \* its field expires_at, relative to now; -1 is any past time
  pc,        \* where each instance is in acquire()
  attempt,   \* acquire()'s loop variable, 0 outside the loop
  sleep,     \* ticks of the retry sleep still to pass
  left       \* history: ticks left of the last lease the database granted

record == <<seeded, holder, ttl>>
lockVars == <<seeded, holder, ttl, pc, attempt, sleep, left>>

\* Inside try_acquire or asleep between two attempts.
Acquiring == {"seed", "check", "claim", "sleep"}
Location == Acquiring \cup {"idle", "held", "error", "crashed"}

-----------------------------------------------------------------------------

LockInit ==
  /\ seeded = FALSE
  /\ holder = NoHolder
  /\ ttl = 0
  /\ pc = [i \in Instance |-> "idle"]
  /\ attempt = [i \in Instance |-> 0]
  /\ sleep = [i \in Instance |-> 0]
  /\ left = [i \in Instance |-> -1]

\* acquire() returns: its loop variable is gone.
Leave(i, how) ==
  /\ pc' = [pc EXCEPT ![i] = how]
  /\ attempt' = [attempt EXCEPT ![i] = 0]

\* acquire() is called, also by an instance that still holds the lock.
Acquire(i) ==
  /\ pc[i] \in {"idle", "error", "held"}
  /\ pc' = [pc EXCEPT ![i] = "seed"]
  /\ attempt' = [attempt EXCEPT ![i] = 1]
  /\ UNCHANGED <<record, sleep, left>>

\* try_acquire: DEFINE TABLE and CREATE.  An existing record stays as it is
\* and a failure of either query is ignored.
Seed(i) ==
  /\ pc[i] = "seed"
  /\ seeded' = TRUE \/ ("failed" \in Faults /\ UNCHANGED seeded)
  /\ pc' = [pc EXCEPT ![i] = "check"]
  /\ UNCHANGED <<holder, ttl, attempt, sleep, left>>

\* Faulty variant: the expiry is not compared.
IsHeldEvenExpired(i) == seeded /\ holder = i

\* is_held: WHERE holder = $instance_id AND expires_at > time::now()
IsHeld(i) == seeded /\ holder = i /\ ttl > 0

\* try_acquire: the fast path for a lock this instance already holds.
CheckHeld(i) ==
  /\ pc[i] = "check"
  /\ \/ IsHeld(i) /\ Leave(i, "held")
     \/ ~IsHeld(i) /\ pc' = [pc EXCEPT ![i] = "claim"] /\ UNCHANGED attempt
     \/ "failed" \in Faults /\ Leave(i, "error")
  /\ UNCHANGED <<record, sleep, left>>

\* Faulty variants: no WHERE clause; no claim on an expired lock.
ClaimableUnguarded == seeded
ClaimableWhenFree == seeded /\ holder = NoHolder

\* UPDATE ... WHERE holder = NONE OR expires_at < time::now()
Claimable == seeded /\ (holder = NoHolder \/ ttl < 0)

\* try_acquire: the atomic UPDATE finds the lock free or expired and takes
\* it.  The answer may be lost, and then acquire() returns an error.
Claim(i) ==
  /\ pc[i] = "claim"
  /\ Claimable
  /\ holder' = i
  /\ ttl' = LeaseTicks
  /\ left' = [left EXCEPT ![i] = LeaseTicks]
  /\ Leave(i, "held") \/ ("lost" \in Faults /\ Leave(i, "error"))
  /\ UNCHANGED <<seeded, sleep>>

\* Faulty variant: one attempt too many.
ClaimMissOffByOne(i) ==
  /\ pc[i] = "claim"
  /\ ~Claimable
  /\ \/ /\ attempt[i] <= MaxRetries
        /\ pc' = [pc EXCEPT ![i] = "sleep"]
        /\ sleep' = [sleep EXCEPT ![i] = RetryInterval]
        /\ UNCHANGED attempt
     \/ attempt[i] > MaxRetries /\ Leave(i, "error") /\ UNCHANGED sleep
  /\ UNCHANGED <<record, left>>

\* The UPDATE matches no row: sleep and retry, or give up after the last
\* attempt.
ClaimMiss(i) ==
  /\ pc[i] = "claim"
  /\ ~Claimable
  /\ \/ /\ attempt[i] < MaxRetries
        /\ pc' = [pc EXCEPT ![i] = "sleep"]
        /\ sleep' = [sleep EXCEPT ![i] = RetryInterval]
        /\ UNCHANGED attempt
     \/ attempt[i] >= MaxRetries /\ Leave(i, "error") /\ UNCHANGED sleep
  /\ UNCHANGED <<record, left>>

\* The UPDATE fails without taking effect (connection, write conflict): `?`
\* ends acquire() at once.
ClaimFails(i) ==
  /\ "failed" \in Faults
  /\ pc[i] = "claim"
  /\ Leave(i, "error")
  /\ UNCHANGED <<record, sleep, left>>

\* Faulty variant: the retry is not counted.
WakeUncounted(i) ==
  /\ pc[i] = "sleep"
  /\ sleep[i] = 0
  /\ pc' = [pc EXCEPT ![i] = "seed"]
  /\ UNCHANGED <<record, attempt, sleep, left>>

\* The sleep between two attempts is over.
Wake(i) ==
  /\ pc[i] = "sleep"
  /\ sleep[i] = 0
  /\ pc' = [pc EXCEPT ![i] = "seed"]
  /\ attempt' = [attempt EXCEPT ![i] = @ + 1]
  /\ UNCHANGED <<record, sleep, left>>

\* What UPDATE ... SET holder = NONE, expires_at = time::now() does to the
\* record.
SetFree == holder' = NoHolder /\ ttl' = 0

\* Faulty variant: no WHERE clause.
ReleaseRowOfAnyone(i) == IF seeded THEN SetFree ELSE UNCHANGED <<holder, ttl>>

\* UPDATE ... WHERE holder = $instance_id, as the database executes it.
ReleaseRow(i) == IF seeded /\ holder = i THEN SetFree ELSE UNCHANGED <<holder, ttl>>

\* release().  The query may fail before it takes effect; either way the
\* caller goes on without the lock.
Release(i) ==
  /\ pc[i] \in {"idle", "held", "error"}
  /\ pc' = [pc EXCEPT ![i] = "idle"]
  /\ \/ ReleaseRow(i) /\ left' = [left EXCEPT ![i] = -1]
     \/ "failed" \in Faults /\ UNCHANGED <<holder, ttl, left>>
  /\ UNCHANGED <<seeded, attempt, sleep>>

\* force_release(): the recovery call takes the lock from whoever holds it.
ForceRelease(i) ==
  /\ pc[i] \in {"idle", "held", "error"}
  /\ seeded
  /\ SetFree
  /\ left' = [j \in Instance |-> IF j = holder THEN -1 ELSE left[j]]
  /\ UNCHANGED <<seeded, pc, attempt, sleep>>

\* The process of instance i dies; a restarted one has another instance_id.
Crash(i) ==
  /\ "crash" \in Faults
  /\ pc[i] # "crashed"
  /\ Leave(i, "crashed")
  /\ UNCHANGED <<record, sleep, left>>

CountDown(n, floor) == IF n > floor THEN n - 1 ELSE n

Tick ==
  /\ ttl' = CountDown(ttl, -1)
  /\ sleep' = [i \in Instance |-> CountDown(sleep[i], 0)]
  /\ left' = [i \in Instance |-> CountDown(left[i], -1)]
  /\ UNCHANGED <<seeded, holder, pc, attempt>>

-----------------------------------------------------------------------------

\* The steps acquire() takes by itself once it has been called.
AcquireStep(i) ==
  Seed(i) \/ CheckHeld(i) \/ Claim(i) \/ ClaimMiss(i) \/ ClaimFails(i) \/ Wake(i)

LockNext ==
  \/ \E i \in Instance :
       \/ Acquire(i)
       \/ AcquireStep(i)
       \/ Release(i)
       \/ ForceRelease(i)
       \/ Crash(i)
  \/ Tick

\* Time passes, the database answers or fails every query, and the runtime
\* polls a task whose timer is due.
LockFairness == WF_lockVars(Tick) /\ \A i \in Instance : WF_lockVars(AcquireStep(i))

LockSpec == LockInit /\ [][LockNext]_lockVars
FairLockSpec == LockSpec /\ LockFairness

-----------------------------------------------------------------------------

LockTypeOK ==
  /\ seeded \in BOOLEAN
  /\ holder \in Instance \cup {NoHolder}
  /\ ttl \in -1 .. LeaseTicks
  /\ pc \in [Instance -> Location]
  /\ attempt \in [Instance -> 0 .. MaxRetries]
  /\ sleep \in [Instance -> 0 .. RetryInterval]
  /\ left \in [Instance -> -1 .. LeaseTicks]

\* A lease the database granted and whose 60 seconds have not run out is
\* the one in the record, and the record's unexpired lease is one that was
\* granted (lock.rs, try_acquire and release).
LeaseAgrees ==
  \A i \in Instance :
    left[i] > 0 \/ (holder = i /\ ttl > 0) => holder = i /\ left[i] = ttl

\* acquire() returns Ok only to an instance with a running lease, on the
\* fast path as well as after a claim (lock.rs, acquire).
AcquiredIsLeased ==
  [][\A i \in Instance : pc[i] # "held" /\ pc'[i] = "held" => left'[i] > 0]_lockVars

\* The lock implements a lease: at most one owner, granted only when nobody
\* owns it, and ended only by return, expiry or revocation (lock.rs:3-6).
AbstractLease == INSTANCE Lease WITH
  Client <- Instance, Nobody <- NoHolder, Length <- LeaseTicks,
  owner <- IF ttl > 0 THEN holder ELSE NoHolder,
  left <- IF ttl > 0 /\ holder # NoHolder THEN ttl ELSE 0

ImplementsLease == AbstractLease!LeaseSpec

\* "the lock expires after 60 seconds so that a crashed holder does not
\* block others indefinitely" (lock.rs:4-6): it can be claimed again, or
\* someone else has it.
CrashedHolderExpires ==
  \A i \in Instance :
    (pc[i] = "crashed" /\ holder = i) ~> (Claimable \/ holder # i)

\* acquire() returns, with the lock or with an error, however often the
\* lock is taken by others (lock.rs, the loop over MAX_RETRIES).
AcquireReturns ==
  \A i \in Instance : (pc[i] \in Acquiring) ~> (pc[i] \notin Acquiring)
=============================================================================
