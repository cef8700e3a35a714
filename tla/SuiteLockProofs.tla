-------------------------- MODULE SuiteLockProofs --------------------------
(***************************************************************************)
(* Type correctness and mutual exclusion of the suite lock, for any number *)
(* of goroutines and mutexes.                                              *)
(***************************************************************************)
EXTENDS SuiteLock, TLAPS

(* MutualExclusion is not inductive: two holders are kept apart by the     *)
(* lock map, not by the mutex alone.  The strengthening says that a        *)
(* goroutine in a holding step owns the mutex it points to, and that one   *)
(* between lockOK and its drop finds that very mutex in the map.  Two such *)
(* goroutines then own the same mutex.                                     *)
Held == \A p \in Procs : pc[p] \in Holding => owner[mu[p]] = p
InMap == \A p \in Procs : pc[p] \in Valid => locks = mu[p]
IInv == TypeOK /\ Held /\ InMap

(* The checker's constructor leaves the lock map empty and no goroutine in *)
(* the protocol.                                                           *)
LEMMA InitIInv == Init => IInv
<1> USE ConstantsAssumption
    DEF ConstantsAssumption, Init, Holding, Valid, Steps, Ops, NoRow
<1>1. Init => TypeOK
  <2> SUFFICES ASSUME Init PROVE TypeOK
    OBVIOUS
  <2>1. vanished \in [Procs -> BOOLEAN] /\ memo \in BOOLEAN /\ answered \in BOOLEAN
    OBVIOUS
  <2>2. pc \in [Procs -> Steps] /\ op \in [Procs -> Ops]
    OBVIOUS
  <2> QED
    BY <2>1, <2>2 DEF TypeOK
<1>2. Init => Held /\ InMap
  BY DEF Held, InMap
<1> QED
  BY <1>1, <1>2 DEF IInv

(* A goroutine that returns leaves every per-process variable well typed.  *)
LEMMA ReturnType ==
    ASSUME TypeOK, NEW p \in Procs, Return(p)
    PROVE  /\ pc' \in [Procs -> Steps]
           /\ op' \in [Procs -> Ops]
           /\ mu' \in [Procs -> Mutexes \cup {None}]
           /\ seen' \in [Procs -> 0..NoRow]
           /\ vanished' \in [Procs -> BOOLEAN]
           /\ \A q \in Procs : pc'[q] \in Holding \cup {"peek", "try"}
                                => mu'[q] # None
<1> USE ConstantsAssumption DEF ConstantsAssumption, TypeOK, Return, Goto
<1>1. vanished' \in [Procs -> BOOLEAN]
  OBVIOUS
<1>2. seen' \in [Procs -> 0..NoRow]
  BY DEF NoRow
<1>3. pc' \in [Procs -> Steps] /\ op' \in [Procs -> Ops]
  BY DEF Steps, Ops
<1>4. \A q \in Procs : pc'[q] \in Holding \cup {"peek", "try"} => mu'[q] # None
  BY DEF Holding
<1> QED
  BY <1>1, <1>2, <1>3, <1>4

(* Every step of the protocol preserves the strengthened invariant.        *)
LEMMA NextIInv == IInv /\ [Next]_vars => IInv'
<1> USE ConstantsAssumption DEF ConstantsAssumption, NoRow
<1> SUFFICES ASSUME IInv, [Next]_vars PROVE IInv'
  OBVIOUS
<1> USE DEF IInv, TypeOK, Held, InMap, Holding, Valid, Steps, Ops, Goto, Return,
            Lock, Unlock, Blame, rowVars, memoVars, ghostVars
<1>1. CASE CreateSuite
  BY <1>1 DEF CreateSuite
<1>2. CASE WriterDelete
  <2>1. TypeOK'
    <3>1. pc' \in [Procs -> Steps]
      BY <1>2 DEF WriterDelete
    <3>2. vanished' \in [Procs -> BOOLEAN]
      <4>1. \/ vanished' = vanished
            \/ vanished' = [q \in Procs |-> vanished[q] \/ pc[q] \in Working]
        BY <1>2 DEF WriterDelete
      <4>2. \A q \in Procs : (vanished[q] \/ pc[q] \in Working) \in BOOLEAN
        BY Zenon
      <4>3. CASE vanished' = vanished
        BY <4>3
      <4>4. CASE vanished' = [q \in Procs |-> vanished[q] \/ pc[q] \in Working]
        BY <4>4, <4>2, Zenon
      <4> QED
        BY <4>1, <4>3, <4>4
    <3>3. \A q \in Procs : pc'[q] \in Holding \cup {"peek", "try"} => mu'[q] # None
      BY <1>2 DEF WriterDelete
    <3>4. row' \in 0..NoRow /\ writer' \in Procs \cup {None}
      BY <1>2 DEF WriterDelete
    <3>5. answered' \in BOOLEAN
      <4>1. answered' = FALSE \/ answered' = answered
        BY <1>2 DEF WriterDelete
      <4> QED
        BY <4>1
    <3>6. residue' \in {"none", "readError", "lateCommit", "recreated", "peek"}
      BY <1>2 DEF WriterDelete
    <3>7. UNCHANGED <<locks, owner, lastSnap, op, mu, seen, memo>>
      BY <1>2 DEF WriterDelete
    <3> QED
      BY <3>1, <3>2, <3>3, <3>4, <3>5, <3>6, <3>7
  <2>2. Held'
    BY <1>2 DEF WriterDelete
  <2>3. InMap'
    BY <1>2 DEF WriterDelete
  <2> QED
    BY <2>1, <2>2, <2>3
<1>3. ASSUME NEW p \in Procs, CheckStart(p) PROVE IInv'
  BY <1>3 DEF CheckStart
<1>4. ASSUME NEW p \in Procs, PeekTryLock(p) PROVE IInv'
  <2>1. CASE owner[mu[p]] = None
    BY <1>4, <2>1 DEF PeekTryLock
  <2>2. CASE owner[mu[p]] # None
    <3>1. TypeOK'
      <4>1. Return(p)
        BY <1>4, <2>2 DEF PeekTryLock
      <4> QED
        BY <1>4, <2>2, <4>1, ReturnType DEF PeekTryLock
    <3>2. Held'
      BY <1>4, <2>2 DEF PeekTryLock
    <3>3. InMap'
      BY <1>4, <2>2 DEF PeekTryLock
    <3> QED
      BY <3>1, <3>2, <3>3
  <2> QED
    BY <2>1, <2>2
<1>5. ASSUME NEW p \in Procs, PeekUnlock(p) PROVE IInv'
  BY <1>5 DEF PeekUnlock
<1>6. ASSUME NEW p \in Procs, CheckReadRow(p) PROVE IInv'
  <2>1. CASE Goto(p, "load") /\ UNCHANGED <<op, mu, seen, vanished>>
    BY <1>6, <2>1 DEF CheckReadRow
  <2>2. CASE Return(p)
    BY <1>6, <2>2 DEF CheckReadRow
  <2> QED
    BY <1>6, <2>1, <2>2 DEF CheckReadRow
<1>7. ASSUME NEW p \in Procs, ReconcileReadRow(p) PROVE IInv'
  BY <1>7 DEF ReconcileReadRow
<1>8. ASSUME NEW p \in Procs, HoldListRow(p) PROVE IInv'
  BY <1>8 DEF HoldListRow
<1>9. ASSUME NEW p \in Procs, LoadOrStore(p) PROVE IInv'
  BY <1>9 DEF LoadOrStore, Fresh
<1>10. ASSUME NEW p \in Procs, TryLock(p) PROVE IInv'
  <2>1. CASE owner[mu[p]] = None
    BY <1>10, <2>1 DEF TryLock
  <2>2. CASE owner[mu[p]] # None
    <3>1. TypeOK'
      <4>1. Return(p)
        BY <1>10, <2>2 DEF TryLock
      <4> QED
        BY <1>10, <2>2, <4>1, ReturnType DEF TryLock
    <3>2. Held'
      BY <1>10, <2>2 DEF TryLock
    <3>3. InMap'
      BY <1>10, <2>2 DEF TryLock
    <3> QED
      BY <3>1, <3>2, <3>3
  <2> QED
    BY <2>1, <2>2
<1>11. ASSUME NEW p \in Procs, Revalidate(p) PROVE IInv'
  <2>1. CASE locks = mu[p]
    BY <1>11, <2>1 DEF Revalidate
  <2>2. CASE locks # mu[p]
    <3>1. TypeOK'
      <4>1. Return(p)
        BY <1>11, <2>2 DEF Revalidate
      <4> QED
        BY <1>11, <2>2, <4>1, ReturnType DEF Revalidate
    <3>2. Held'
      BY <1>11, <2>2 DEF Revalidate
    <3>3. InMap'
      BY <1>11, <2>2 DEF Revalidate
    <3> QED
      BY <3>1, <3>2, <3>3
  <2> QED
    BY <2>1, <2>2
<1>12. ASSUME NEW p \in Procs, RereadRow(p) PROVE IInv'
  BY <1>12 DEF RereadRow, UnderLock
<1>13. ASSUME NEW p \in Procs, RereadError(p) PROVE IInv'
  BY <1>13 DEF RereadError
<1>14. ASSUME NEW p \in Procs, Release(p) PROVE IInv'
  BY <1>14 DEF Release
<1>15. ASSUME NEW p \in Procs, CheckAnswer(p) PROVE IInv'
  BY <1>15 DEF CheckAnswer
<1>16. ASSUME NEW p \in Procs, SpawnAdoption(p) PROVE IInv'
  BY <1>16 DEF SpawnAdoption
<1>17. ASSUME NEW p \in Procs, CommitAdoption(p) PROVE IInv'
  BY <1>17 DEF CommitAdoption
<1>18. ASSUME NEW p \in Procs, SubmitDelete(p) PROVE IInv'
  BY <1>18 DEF SubmitDelete
<1>19. ASSUME NEW p \in Procs, SettleDeleted(p) PROVE IInv'
  BY <1>19 DEF SettleDeleted
<1>20. ASSUME NEW p \in Procs, SettleByRead(p) PROVE IInv'
  BY <1>20 DEF SettleByRead
<1>21. ASSUME NEW p \in Procs, DropEntry(p) PROVE IInv'
  BY <1>21 DEF DropEntry
<1>22. ASSUME NEW p \in Procs, DropMemo(p) PROVE IInv'
  BY <1>22 DEF DropMemo
<1>23. ASSUME NEW p \in Procs, DropUnlock(p) PROVE IInv'
  BY <1>23 DEF DropUnlock
<1>24. CASE UNCHANGED vars
  BY <1>24 DEF vars
<1> QED
  BY <1>1, <1>2, <1>3, <1>4, <1>5, <1>6, <1>7, <1>8, <1>9, <1>10, <1>11, <1>12, <1>13, <1>14, <1>15, <1>16, <1>17, <1>18, <1>19, <1>20, <1>21, <1>22, <1>23, <1>24 DEF Next, Step

(* Whatever the goroutines, mutexes and interleavings, every variable of   *)
(* the suite lock keeps its type: in particular a goroutine that is about  *)
(* to lock or unlock never holds a nil mutex pointer.                      *)
THEOREM TypeCorrect == Spec => []TypeOK
<1>1. IInv => TypeOK
  BY DEF IInv
<1> QED
  BY InitIInv, NextIInv, <1>1, PTL DEF Spec

(* At most one goroutine acts for a suite: lockSuite's re-validation and   *)
(* unlockDropped's order (drop, then unlock) make the replaceable mutex as *)
(* good as a permanent one.                                                *)
THEOREM MutualExclusionHolds == Spec => []MutualExclusion
<1>1. IInv => MutualExclusion
  BY DEF IInv, Held, InMap, MutualExclusion, Working, Valid, Holding
<1> QED
  BY InitIInv, NextIInv, <1>1, PTL DEF Spec
=============================================================================
