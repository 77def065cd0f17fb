------------------------------- MODULE Lease -------------------------------
(***************************************************************************)
(* What the distributed lock of overshift promises, without its record,    *)
(* its queries or its retries: a lease on one resource that has at most    *)
(* one owner, lasts Length ticks, and ends only by the owner's return, by  *)
(* running out, or by an operator's revocation.                            *)
(***************************************************************************)
EXTENDS Integers

CONSTANTS
  Client,   \* whoever may own the lease
  Nobody,   \* not a client
  Length    \* how many ticks a lease lasts

VARIABLES
  owner,    \* the client whose lease is running, or Nobody
  left      \* ticks the running lease still has, 0 when there is none

leaseVars == <<owner, left>>

LeaseInit == owner = Nobody /\ left = 0

Grant(c) ==
  /\ owner = Nobody
  /\ owner' = c
  /\ left' = Length

Elapse ==
  /\ owner # Nobody
  /\ left > 1
  /\ left' = left - 1
  /\ UNCHANGED owner

Vacate == owner' = Nobody /\ left' = 0

Expire == owner # Nobody /\ left = 1 /\ Vacate
Return(c) == owner = c /\ Vacate
Revoke == owner # Nobody /\ Vacate

LeaseNext ==
  \/ \E c \in Client : Grant(c) \/ Return(c)
  \/ Elapse
  \/ Expire
  \/ Revoke

LeaseSpec == LeaseInit /\ [][LeaseNext]_leaseVars
=============================================================================
