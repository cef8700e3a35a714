--------------------------- MODULE AdmissionProofs --------------------------
(***************************************************************************)
(* The slots of the admission pool match the leases, the last one is       *)
(* kept for signed suites, and the scheduler's peek agrees with            *)
(* tryAcquire, for every number of suites, hosts and slots.                *)
(***************************************************************************)
EXTENDS Admission, FiniteSetTheorems, TLAPS

UnsignedLeases == Leased \ asSigned

\* The inductive invariant: a signed lease is a lease, and where the last slot
\* is reserved the leases that are not signed leave one free.
IInv ==
    /\ AdmissionTypeOK
    /\ SlotsMatchLeases
    /\ asSigned \subseteq Leased
    /\ Global >= 2 => Cardinality(UnsignedLeases) < Global

\* Taking a lease adds one to the leases.
LEMMA LeasedGrows ==
    ASSUME IInv, NEW s \in Suites, NEW signed \in BOOLEAN, Acquire(s, signed)
    PROVE  /\ Leased' = Leased \cup {s} /\ s \notin Leased
           /\ IsFiniteSet(Leased) /\ IsFiniteSet(Leased')
           /\ Cardinality(Leased') = Cardinality(Leased) + 1
<1>1. Leased' = Leased \cup {s} /\ s \notin Leased
  BY DEF IInv, AdmissionTypeOK, Acquire, Leased
<1>2. IsFiniteSet(Leased)
  BY FS_Subset, AdmissionAssumption DEF AdmissionAssumption, Leased
<1> QED BY <1>1, <1>2, FS_AddElement

\* Releasing a lease takes one away.
LEMMA LeasedShrinks ==
    ASSUME IInv, NEW s \in Suites, Release(s)
    PROVE  /\ Leased' = Leased \ {s} /\ s \in Leased
           /\ IsFiniteSet(Leased) /\ IsFiniteSet(Leased')
           /\ Cardinality(Leased') = Cardinality(Leased) - 1
<1>1. Leased' = Leased \ {s} /\ s \in Leased
  BY DEF IInv, AdmissionTypeOK, Release, Leased
<1>2. IsFiniteSet(Leased)
  BY FS_Subset, AdmissionAssumption DEF AdmissionAssumption, Leased
<1> QED BY <1>1, <1>2, FS_RemoveElement

LEMMA Initially == AdmissionInit => IInv
<1> SUFFICES ASSUME AdmissionInit PROVE IInv OBVIOUS
<1>1. AdmissionTypeOK
  BY DEF AdmissionInit, AdmissionTypeOK
<1>2. Leased = {}
  BY DEF AdmissionInit, Leased
<1>3. Cardinality({}) = 0 /\ Cardinality(Leased) = 0
  BY <1>2, FS_EmptySet
<1>4. SlotsMatchLeases
  BY <1>3, AdmissionAssumption DEF AdmissionInit, SlotsMatchLeases, AdmissionAssumption
<1>5. UnsignedLeases = {}
  BY <1>2 DEF UnsignedLeases
<1>6. asSigned \subseteq Leased
  BY DEF AdmissionInit
<1>7. Global >= 2 => Cardinality(UnsignedLeases) < Global
  BY <1>3, <1>5, AdmissionAssumption DEF AdmissionAssumption
<1> QED BY <1>1, <1>4, <1>6, <1>7 DEF IInv

LEMMA AcquireKeeps ==
    ASSUME IInv, NEW s \in Suites, NEW signed \in BOOLEAN, Acquire(s, signed)
    PROVE  IInv'
<1>1. AdmissionTypeOK'
  <2>0. inUse' = inUse + 1 /\ hosts' = hosts \cup {HostOf[s]}
    BY DEF Acquire
  <2>1. inUse' \in Nat /\ hosts' \subseteq Hosts
    BY <2>0, AdmissionAssumption DEF IInv, AdmissionTypeOK, AdmissionAssumption
  <2>2. freed' \in BOOLEAN
    BY DEF IInv, AdmissionTypeOK, Acquire
  <2>3. lease' \in [Suites -> {"none", "both", "global"}]
    BY DEF IInv, AdmissionTypeOK, Acquire
  <2>4. waking' \subseteq Suites /\ asSigned' \subseteq Suites /\ stamped' \subseteq Suites
    BY DEF IInv, AdmissionTypeOK, Acquire
  <2> QED BY <2>1, <2>2, <2>3, <2>4 DEF AdmissionTypeOK
<1>2. /\ Leased' = Leased \cup {s} /\ s \notin Leased
      /\ IsFiniteSet(Leased) /\ IsFiniteSet(Leased')
      /\ Cardinality(Leased') = Cardinality(Leased) + 1
  BY LeasedGrows
<1>3. SlotsMatchLeases'
  <2>1. inUse' = Cardinality(Leased') /\ (Global > 0 => inUse' <= Global)
    BY <1>2, AdmissionAssumption
    DEF IInv, AdmissionTypeOK, SlotsMatchLeases, Acquire, CanAcquire, GlobalSlotFree,
        AdmissionAssumption
  <2>2. hosts' = {HostOf[t] : t \in {u \in Suites : lease'[u] = "both"}}
    BY DEF IInv, AdmissionTypeOK, SlotsMatchLeases, Acquire
  <2>3. \A t, u \in Suites :
          lease'[t] = "both" /\ lease'[u] = "both" /\ HostOf[t] = HostOf[u] => t = u
    BY DEF IInv, AdmissionTypeOK, SlotsMatchLeases, Acquire, CanAcquire
  <2> QED BY <2>1, <2>2, <2>3 DEF SlotsMatchLeases
<1>4. asSigned' \subseteq Leased'
  BY <1>2 DEF IInv, Acquire
<1>5. Global >= 2 => Cardinality(UnsignedLeases') < Global
  <2> SUFFICES ASSUME Global >= 2 PROVE Cardinality(UnsignedLeases') < Global OBVIOUS
  <2>1. CASE signed
    <3>1. UnsignedLeases' = UnsignedLeases
      BY <2>1, <1>2 DEF UnsignedLeases, Acquire
    <3> QED BY <3>1 DEF IInv
  <2>2. CASE ~signed
    <3>1. inUse + 1 < Global
      BY <2>2, AdmissionAssumption
      DEF IInv, AdmissionTypeOK, SlotsMatchLeases, Acquire, CanAcquire, GlobalSlotFree,
          AdmissionAssumption
    <3>2. Cardinality(Leased') < Global
      BY <3>1, <1>2 DEF IInv, SlotsMatchLeases
    <3>3. UnsignedLeases' \subseteq Leased'
      BY DEF UnsignedLeases
    <3>4. /\ Cardinality(UnsignedLeases') <= Cardinality(Leased')
          /\ Cardinality(UnsignedLeases') \in Nat /\ Cardinality(Leased') \in Nat
      BY <3>3, <1>2, FS_Subset, FS_CardinalityType
    <3> QED BY <3>2, <3>4, AdmissionAssumption DEF AdmissionAssumption
  <2> QED BY <2>1, <2>2
<1> QED BY <1>1, <1>3, <1>4, <1>5 DEF IInv

LEMMA ReleaseKeeps ==
    ASSUME IInv, NEW s \in Suites, Release(s)
    PROVE  IInv'
<1>1. /\ Leased' = Leased \ {s} /\ s \in Leased
      /\ IsFiniteSet(Leased) /\ IsFiniteSet(Leased')
      /\ Cardinality(Leased') = Cardinality(Leased) - 1
  BY LeasedShrinks
<1>2. Cardinality(Leased) \in Nat /\ Cardinality(Leased') \in Nat
  BY <1>1, FS_CardinalityType
<1>3. AdmissionTypeOK'
  <2>1. inUse' \in Nat
    BY <1>1, <1>2 DEF IInv, SlotsMatchLeases, Release
  <2> QED BY <2>1 DEF IInv, AdmissionTypeOK, Release, Freeing
<1>4. SlotsMatchLeases'
  <2>1. inUse' = Cardinality(Leased') /\ (Global > 0 => inUse' <= Global)
    BY <1>1, <1>2, AdmissionAssumption DEF IInv, SlotsMatchLeases, Release, AdmissionAssumption
  <2>2. hosts' = {HostOf[t] : t \in {u \in Suites : lease'[u] = "both"}}
    <3>1. CASE lease[s] = "both"
      BY <3>1 DEF IInv, AdmissionTypeOK, SlotsMatchLeases, Release
    <3>2. CASE lease[s] # "both"
      BY <3>2 DEF IInv, AdmissionTypeOK, SlotsMatchLeases, Release
    <3> QED BY <3>1, <3>2
  <2>3. \A t, u \in Suites :
          lease'[t] = "both" /\ lease'[u] = "both" /\ HostOf[t] = HostOf[u] => t = u
    BY DEF IInv, AdmissionTypeOK, SlotsMatchLeases, Release
  <2> QED BY <2>1, <2>2, <2>3 DEF SlotsMatchLeases
<1>5. asSigned' \subseteq Leased'
  BY <1>1 DEF IInv, Release
<1>6. Global >= 2 => Cardinality(UnsignedLeases') < Global
  <2>1. UnsignedLeases' \subseteq UnsignedLeases /\ UnsignedLeases \subseteq Leased
    BY <1>1 DEF UnsignedLeases, Release
  <2>2. IsFiniteSet(UnsignedLeases)
    BY <2>1, <1>1, FS_Subset
  <2>3. /\ Cardinality(UnsignedLeases') <= Cardinality(UnsignedLeases)
        /\ Cardinality(UnsignedLeases') \in Nat /\ Cardinality(UnsignedLeases) \in Nat
    BY <2>1, <2>2, FS_Subset, FS_CardinalityType
  <2> QED BY <2>3, AdmissionAssumption DEF IInv, AdmissionAssumption
<1> QED BY <1>3, <1>4, <1>5, <1>6 DEF IInv

LEMMA ReleaseHostKeeps ==
    ASSUME IInv, NEW s \in Suites, ReleaseHost(s)
    PROVE  IInv'
<1>1. Leased' = Leased /\ UnsignedLeases' = UnsignedLeases
  BY DEF IInv, AdmissionTypeOK, ReleaseHost, Leased, UnsignedLeases
<1>2. AdmissionTypeOK'
  BY DEF IInv, AdmissionTypeOK, ReleaseHost, Freeing
<1>3. hosts' = {HostOf[t] : t \in {u \in Suites : lease'[u] = "both"}}
  BY DEF IInv, AdmissionTypeOK, SlotsMatchLeases, ReleaseHost
<1>4. \A t, u \in Suites :
        lease'[t] = "both" /\ lease'[u] = "both" /\ HostOf[t] = HostOf[u] => t = u
  BY DEF IInv, AdmissionTypeOK, SlotsMatchLeases, ReleaseHost
<1>5. inUse' = inUse /\ asSigned' = asSigned
  BY DEF ReleaseHost
<1>6. SlotsMatchLeases'
  BY <1>1, <1>3, <1>4, <1>5 DEF IInv, SlotsMatchLeases
<1> QED BY <1>1, <1>2, <1>5, <1>6 DEF IInv

\* Steps that leave the slots and the leases alone.
LEMMA OtherKeeps ==
    ASSUME IInv, AdmissionTypeOK', UNCHANGED <<inUse, hosts, lease, asSigned>>
    PROVE  IInv'
<1>1. Leased' = Leased /\ UnsignedLeases' = UnsignedLeases
  BY DEF Leased, UnsignedLeases
<1>2. SlotsMatchLeases'
  BY <1>1 DEF IInv, SlotsMatchLeases
<1> QED BY <1>1, <1>2 DEF IInv

LEMMA Inductive == AdmissionSpec => []IInv
<1>1. IInv /\ [AdmissionNext]_admissionVars => IInv'
  <2> SUFFICES ASSUME IInv, [AdmissionNext]_admissionVars PROVE IInv' OBVIOUS
  <2>1. ASSUME NEW s \in Suites, NEW signed \in BOOLEAN, Acquire(s, signed) PROVE IInv'
    BY <2>1, AcquireKeeps
  <2>2. ASSUME NEW s \in Suites, ReleaseHost(s) PROVE IInv'
    BY <2>2, ReleaseHostKeeps
  <2>3. ASSUME NEW s \in Suites, Release(s) PROVE IInv'
    BY <2>3, ReleaseKeeps
  <2>4. ASSUME NEW s \in Suites, Wake(s) PROVE IInv'
    <3>1. AdmissionTypeOK'
      BY <2>4 DEF IInv, AdmissionTypeOK, Wake
    <3> QED BY <3>1, <2>4, OtherKeeps DEF Wake
  <2>5. ASSUME NEW s \in Suites, Stamp(s) PROVE IInv'
    <3>1. AdmissionTypeOK'
      BY <2>5 DEF IInv, AdmissionTypeOK, Stamp
    <3> QED BY <3>1, <2>5, OtherKeeps DEF Stamp
  <2>6. CASE TakeWake
    <3>1. AdmissionTypeOK'
      BY <2>6 DEF IInv, AdmissionTypeOK, TakeWake
    <3> QED BY <3>1, <2>6, OtherKeeps DEF TakeWake
  <2>7. CASE UNCHANGED admissionVars
    <3>1. AdmissionTypeOK'
      BY <2>7 DEF IInv, AdmissionTypeOK, admissionVars
    <3> QED BY <3>1, <2>7, OtherKeeps DEF admissionVars
  <2> QED BY <2>1, <2>2, <2>3, <2>4, <2>5, <2>6, <2>7 DEF AdmissionNext
<1> QED BY Initially, <1>1, PTL DEF AdmissionSpec

\* The number of slots in use is the number of leases, never above the limit,
\* and no host slot is held twice, whatever the order of the early and the late
\* releases (tryAcquire, releaseHost, release).
THEOREM SlotsAreExact == AdmissionSpec => []SlotsMatchLeases
<1>1. IInv => SlotsMatchLeases BY DEF IInv
<1> QED BY <1>1, Inductive, PTL

\* A signed suite is refused for want of a global slot only while a signed
\* adoption holds one: the reserved slot of tryAcquire does what it is for.
THEOREM ReservedSlotWorks == AdmissionSpec => []SignedNotStarved
<1>1. IInv => SignedNotStarved
  <2> SUFFICES ASSUME IInv, Global >= 2, ~GlobalSlotFree(TRUE), asSigned = {} PROVE FALSE
    BY DEF SignedNotStarved
  <2>1. UnsignedLeases = Leased
    BY DEF UnsignedLeases
  <2>2. inUse < Global
    BY <2>1, AdmissionAssumption DEF IInv, SlotsMatchLeases, AdmissionAssumption
  <2>3. Global - inUse > 0
    BY <2>2, AdmissionAssumption DEF IInv, AdmissionTypeOK, AdmissionAssumption
  <2> QED BY <2>3 DEF GlobalSlotFree
<1> QED BY <1>1, Inductive, PTL

\* freeFor says yes exactly when tryAcquire would ("this arithmetic must mirror
\* its refusal rule exactly").
THEOREM PeekIsRight == AdmissionSpec => []PeekAgrees
<1>1. IInv => PeekAgrees
  <2> SUFFICES ASSUME IInv, NEW s \in Suites, NEW signed \in BOOLEAN
               PROVE  FreeFor(HostOf[s], signed) > 0 <=> CanAcquire(s, signed)
    BY DEF PeekAgrees
  <2>1. Global \in Nat /\ inUse \in Nat
    BY AdmissionAssumption DEF IInv, AdmissionTypeOK, AdmissionAssumption
  <2>2. CASE HostOf[s] \in hosts
    BY <2>2 DEF FreeFor, CanAcquire
  <2>3. CASE HostOf[s] \notin hosts /\ Global = 0
    <3>1. 2^30 > 0 OBVIOUS
    <3> QED BY <2>3, <3>1 DEF FreeFor, CanAcquire, GlobalSlotFree
  <2>4. CASE HostOf[s] \notin hosts /\ Global > 0 /\ signed
    BY <2>1, <2>4 DEF FreeFor, CanAcquire, GlobalSlotFree
  <2>5. CASE HostOf[s] \notin hosts /\ Global > 0 /\ ~signed
    BY <2>1, <2>5 DEF FreeFor, CanAcquire, GlobalSlotFree
  <2> QED BY <2>1, <2>2, <2>3, <2>4, <2>5
<1> QED BY <1>1, Inductive, PTL
=============================================================================
