----------------------------- MODULE Admission ------------------------------
(***************************************************************************)
(* The capacity of adoption, repair and reconcile                          *)
(* (internal/freshness/admission.go): a pool of global slots and one slot  *)
(* per upstream host, taken together without waiting.  The last free slot  *)
(* of a pool of two or more is kept for suites whose current snapshot is   *)
(* signed.  An adoption gives its host slot back when its member pipeline  *)
(* ends and its global slot after the commit.                              *)
(***************************************************************************)
EXTENDS Integers, FiniteSets

CONSTANTS Suites,
          Hosts,
          HostOf,      \* [Suites -> Hosts]
          Global       \* max_concurrent_adoptions, 0 for no limit

ASSUME AdmissionAssumption ==
    /\ IsFiniteSet(Suites)
    /\ HostOf \in [Suites -> Hosts]
    /\ Global \in Nat

VARIABLES inUse,       \* admission.inUse
          hosts,       \* admission.hosts: the hosts whose slot is held
          waking,      \* releases counted whose wake is not sent yet
          freed,       \* a wake is in the freed channel (capacity 1)
          lease,       \* [Suites -> "none", "both", or "global"]
          asSigned,    \* ghost: leases taken under the signed rule
          stamped      \* suites whose offer carries the present generation

admissionVars == <<inUse, hosts, waking, freed, lease, asSigned, stamped>>

AdmissionInit ==
    /\ inUse = 0
    /\ hosts = {}
    /\ waking = {}
    /\ freed = FALSE
    /\ lease = [s \in Suites |-> "none"]
    /\ asSigned = {}
    /\ stamped = {}

\* Mutant: the reserved slot is forgotten.
GlobalSlotFreeUnreserved(signed) == Global > 0 => Global - inUse > 0

\* tryAcquire's condition on the pool.
GlobalSlotFree(signed) ==
    Global > 0 =>
      LET free == Global - inUse
      IN  free > 0 /\ ~(Global >= 2 /\ free = 1 /\ ~signed)

CanAcquire(s, signed) == HostOf[s] \notin hosts /\ GlobalSlotFree(signed)

\* tryAcquire succeeds.  The caller holds the suite's mutex, and the goroutine
\* that releases the suite's previous lease unlocks it last.
Acquire(s, signed) ==
    /\ CanAcquire(s, signed)
    /\ lease[s] = "none" /\ s \notin waking
    /\ inUse' = inUse + 1
    /\ hosts' = hosts \cup {HostOf[s]}
    /\ lease' = [lease EXCEPT ![s] = "both"]
    /\ asSigned' = IF signed THEN asSigned \cup {s} ELSE asSigned
    /\ UNCHANGED <<waking, freed, stamped>>

\* freeFor, the scheduler's peek.
FreeFor(h, signed) ==
    LET free == Global - inUse - (IF Global >= 2 /\ ~signed THEN 1 ELSE 0)
    IN  IF h \in hosts THEN 0
        ELSE IF Global = 0 THEN 2^30
        ELSE IF free < 0 THEN 0 ELSE free

\* A release counts a new generation, which no earlier stamp equals; its wake
\* is sent after the mutex is unlocked.
Freeing(s) ==
    /\ s \notin waking
    /\ stamped' = {}
    /\ waking' = waking \cup {s}
    /\ UNCHANGED freed

\* lease.releaseHost, when the member pipeline ends.
ReleaseHost(s) ==
    /\ lease[s] = "both"
    /\ hosts' = hosts \ {HostOf[s]}
    /\ lease' = [lease EXCEPT ![s] = "global"]
    /\ Freeing(s)
    /\ UNCHANGED <<inUse, asSigned>>

\* Mutant: release frees the host slot whether or not the lease still has it.
ReleaseAnyHost(s) ==
    /\ lease[s] # "none"
    /\ hosts' = hosts \ {HostOf[s]}
    /\ inUse' = inUse - 1
    /\ lease' = [lease EXCEPT ![s] = "none"]
    /\ asSigned' = asSigned \ {s}
    /\ Freeing(s)

\* lease.release, after the commit or wherever the adoption ended.
Release(s) ==
    /\ lease[s] # "none"
    /\ hosts' = IF lease[s] = "both" THEN hosts \ {HostOf[s]} ELSE hosts
    /\ inUse' = inUse - 1
    /\ lease' = [lease EXCEPT ![s] = "none"]
    /\ asSigned' = asSigned \ {s}
    /\ Freeing(s)

\* wake: a send that finds the channel full is dropped.
Wake(s) ==
    /\ s \in waking
    /\ waking' = waking \ {s}
    /\ freed' = TRUE
    /\ UNCHANGED <<inUse, hosts, lease, asSigned, stamped>>

\* The scheduler takes the wake.
TakeWake ==
    /\ freed
    /\ freed' = FALSE
    /\ UNCHANGED <<inUse, hosts, waking, lease, asSigned, stamped>>

\* The scheduler stamps an item with the generation.
Stamp(s) ==
    /\ stamped' = stamped \cup {s}
    /\ UNCHANGED <<inUse, hosts, waking, freed, lease, asSigned>>

AdmissionNext ==
    \/ \E s \in Suites, signed \in BOOLEAN : Acquire(s, signed)
    \/ \E s \in Suites : ReleaseHost(s) \/ Release(s) \/ Wake(s) \/ Stamp(s)
    \/ TakeWake

AdmissionSpec == AdmissionInit /\ [][AdmissionNext]_admissionVars

-----------------------------------------------------------------------------
Leased == {s \in Suites : lease[s] # "none"}

\* Types of the pool; the counter of slots in use never goes below zero.
AdmissionTypeOK ==
    /\ inUse \in Nat
    /\ hosts \subseteq Hosts
    /\ freed \in BOOLEAN
    /\ lease \in [Suites -> {"none", "both", "global"}]
    /\ waking \subseteq Suites /\ asSigned \subseteq Suites /\ stamped \subseteq Suites

\* The counter is the number of leases and within the limit, and a host slot is
\* held by exactly one lease: early and late releases never free a slot twice or
\* a slot of another adoption.
SlotsMatchLeases ==
    /\ inUse = Cardinality(Leased)
    /\ Global > 0 => inUse <= Global
    /\ hosts = {HostOf[s] : s \in {t \in Suites : lease[t] = "both"}}
    /\ \A s, t \in Suites :
         lease[s] = "both" /\ lease[t] = "both" /\ HostOf[s] = HostOf[t] => s = t

\* "security updates are never starved by first adoptions" (admission.go:12): a
\* signed suite that finds the pool full finds a signed adoption in it.
SignedNotStarved == Global >= 2 /\ ~GlobalSlotFree(TRUE) => asSigned # {}

\* The scheduler's peek says yes exactly when tryAcquire would.
PeekAgrees ==
    \A s \in Suites, signed \in BOOLEAN :
      FreeFor(HostOf[s], signed) > 0 <=> CanAcquire(s, signed)
=============================================================================
