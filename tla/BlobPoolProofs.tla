--------------------------- MODULE BlobPoolProofs ---------------------------
(* Proofs about BlobPool, for every number of fetches and adoptions.       *)
EXTENDS BlobPool, TLAPS

(* VerifiedReuse from the moment of the rehash on: from there a bad file   *)
(* means a decay that the attempt has counted, because no step but Rot     *)
(* puts bad bytes into the pool.                                           *)
LookedAt ==
    \A p \in Adopters :
      pc[p] \in {"fetching", "temp", "rename", "final", "rowed"} /\ file = "bad"
        => p \in rotted

IInv == TypeOK /\ OrphanHasCause /\ LookedAt

LEMMA InitIInv == Init => IInv
BY DEF Init, IInv, TypeOK, OrphanHasCause, LookedAt, Steps

LEMMA NextIInv == IInv /\ [Next]_vars => IInv'
<1> SUFFICES ASSUME IInv, [Next]_vars PROVE IInv'
  OBVIOUS
<1> USE DEF IInv
<1>1. ASSUME NEW p \in Writers, WriterStep(p) PROVE IInv'
  <2>1. CASE Download(p)
    BY <2>1, <1>1 DEF Download, Goto, TypeOK, OrphanHasCause, LookedAt, Steps
  <2>2. CASE DownloadFails(p)
    BY <2>2, <1>1 DEF DownloadFails, Abandon, Goto, TypeOK, OrphanHasCause, LookedAt, Steps
  <2>3. CASE FinalizeStat(p)
    BY <2>3, <1>1 DEF FinalizeStat, Goto, TypeOK, OrphanHasCause, LookedAt, Steps
  <2>4. CASE FinalizeRename(p)
    BY <2>4, <1>1 DEF FinalizeRename, Goto, TypeOK, OrphanHasCause, LookedAt, Steps
  <2>5. CASE PutBlob(p)
    BY <2>5, <1>1 DEF PutBlob, Goto, TypeOK, OrphanHasCause, LookedAt, Steps
  <2>6. CASE PutBlobFails(p)
    BY <2>6, <1>1 DEF PutBlobFails, Abandon, Goto, TypeOK, OrphanHasCause, LookedAt, Steps
  <2>7. CASE Refer(p)
    BY <2>7, <1>1 DEF Refer, Goto, TypeOK, OrphanHasCause, LookedAt, Steps
  <2>8. CASE ReferFails(p)
    BY <2>8, <1>1 DEF ReferFails, Abandon, Goto, TypeOK, OrphanHasCause, LookedAt, Steps
  <2>9. CASE FinalizeFails(p)
    BY <2>9, <1>1 DEF FinalizeFails, Abandon, Goto, TypeOK, OrphanHasCause, LookedAt, Steps
  <2> QED BY <1>1, <2>1, <2>2, <2>3, <2>4, <2>5, <2>6, <2>7, <2>8, <2>9 DEF WriterStep
<1>2. ASSUME NEW p \in Adopters, Rehash(p) PROVE IInv'
  BY <1>2 DEF Rehash, Goto, TypeOK, OrphanHasCause, LookedAt, Steps, Writers
<1>3. ASSUME NEW p \in Adopters, Evict(p) \/ EvictFails(p) PROVE IInv'
  <2>1. CASE Evict(p)
    BY <2>1, <1>3 DEF Evict, Goto, TypeOK, OrphanHasCause, LookedAt, Steps, Writers
  <2>2. CASE EvictFails(p)
    BY <2>2, <1>3
    DEF EvictFails, Abandon, Goto, TypeOK, OrphanHasCause, LookedAt, Steps, Writers
  <2> QED BY <1>3, <2>1, <2>2
<1>4. CASE CollectorStep
  <2>1. CASE RunBlobGCBatch
    BY <2>1 DEF RunBlobGCBatch, TypeOK, OrphanHasCause, LookedAt
  <2>2. CASE Unlink
    BY <2>2 DEF Unlink, TypeOK, OrphanHasCause, LookedAt
  <2>3. CASE UnlinkFails
    BY <2>3 DEF UnlinkFails, TypeOK, OrphanHasCause, LookedAt
  <2> QED BY <1>4, <2>1, <2>2, <2>3 DEF CollectorStep
<1>5. CASE ScannerStep
  <2>1. CASE ListIntegrityCandidates \/ VerifyOne \/ ScanFails
    BY <2>1 DEF ListIntegrityCandidates, VerifyOne, ScanFails, TypeOK, OrphanHasCause, LookedAt
  <2>2. CASE DiscardFinalizedBlob
    BY <2>2 DEF DiscardFinalizedBlob, TypeOK, OrphanHasCause, LookedAt
  <2> QED BY <1>5, <2>1, <2>2 DEF ScannerStep
<1>6. CASE ReferenceStep \/ Age
  <2>1. CASE Unname
    <3>1. fresh' = fresh \/ fresh' = TRUE
      BY <2>1 DEF Unname, ClockOfDrop
    <3> QED BY <2>1, <3>1 DEF Unname, TypeOK, OrphanHasCause, LookedAt
  <2>2. CASE Displace
    <3>1. fresh' = fresh \/ fresh' = TRUE
      BY <2>2 DEF Displace, ClockOfDrop
    <3> QED BY <2>2, <3>1 DEF Displace, TypeOK, OrphanHasCause, LookedAt
  <2>3. CASE ListPackage
    BY <2>3 DEF ListPackage, TypeOK, OrphanHasCause, LookedAt
  <2>4. CASE Age
    BY <2>4 DEF Age, TypeOK, OrphanHasCause, LookedAt
  <2> QED BY <1>6, <2>1, <2>2, <2>3, <2>4 DEF ReferenceStep
<1>7. CASE Rot
  BY <1>7 DEF Rot, TypeOK, OrphanHasCause, LookedAt, Writers
<1>8. CASE Crash
  BY <1>8 DEF Crash, TypeOK, OrphanHasCause, LookedAt, Steps, Writers
<1>9. CASE StartupPass
  <2>1. \A p \in Writers : pc[p] = "idle"
    BY <1>9 DEF StartupPass, TypeOK
  <2> QED BY <2>1, <1>9 DEF StartupPass, TypeOK, OrphanHasCause, LookedAt, Writers
<1>10. CASE StartupPassFails
  BY <1>10 DEF StartupPassFails, TypeOK, OrphanHasCause, LookedAt
<1>11. CASE UNCHANGED vars
  BY <1>11 DEF vars, TypeOK, OrphanHasCause, LookedAt
<1> QED BY <1>1, <1>2, <1>3, <1>4, <1>5, <1>6, <1>7, <1>8, <1>9, <1>10, <1>11
        DEF Next, AdopterStep

LEMMA Inductive == Spec => []IInv
BY InitIInv, NextIInv, PTL DEF Spec

(* A pool file without a blob row has an owner or a recorded cause.        *)
THEOREM OrphansHaveCauses == Spec => []OrphanHasCause
<1>1. IInv => OrphanHasCause
  BY DEF IInv
<1> QED BY <1>1, Inductive, PTL

(* Adoption's rehash on reuse: a bad file it names decayed during the      *)
(* attempt, whatever other fetches, evictions and collections did.         *)
THEOREM ReuseIsVerified == Spec => []VerifiedReuse
<1>1. IInv => VerifiedReuse
  BY DEF IInv, LookedAt, VerifiedReuse
<1> QED BY <1>1, Inductive, PTL
=============================================================================
