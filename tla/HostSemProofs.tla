--------------------------- MODULE HostSemProofs ----------------------------
(* Proofs that the per-host semaphore keeps its limit and implements a     *)
(* plain counting semaphore, for any number of callers and any limit.      *)
EXTENDS HostSem, FiniteSetTheorems, TLAPS

Active == {p \in Procs : pc[p] # "idle"}

\* The entry's counters are the numbers of callers they stand for.
Counted ==
    entry # None => /\ refs[entry] = Cardinality(Active)
                    /\ tokens[entry] = Cardinality(Holders)
                    /\ tokens[entry] <= Limit

IInv == TypeOK /\ EntryIffReferenced /\ Counted

LEMMA Finite == /\ IsFiniteSet(Active) /\ Cardinality(Active) \in Nat
                /\ IsFiniteSet(Holders) /\ Cardinality(Holders) \in Nat
<1>1. Active \subseteq Procs /\ Holders \subseteq Procs
  BY DEF Active, Holders
<1> QED BY <1>1, FS_Subset, FS_CardinalityType, ConstantsAssumption DEF ConstantsAssumption

LEMMA InitIInv == Init => IInv
BY ConstantsAssumption
DEF Init, IInv, TypeOK, EntryIffReferenced, Counted, Referring, ConstantsAssumption

(* With no entry no caller is inside Acquire or its release.               *)
LEMMA NoEntry ==
  ASSUME IInv, entry = None
  PROVE  Active = {} /\ Holders = {}
BY DEF IInv, TypeOK, EntryIffReferenced, Active, Holders, Referring

(* A caller past Register works on the map's entry.                        *)
LEMMA OnEntry ==
  ASSUME IInv, NEW p \in Procs, pc[p] \in Referring
  PROVE  mine[p] = entry /\ entry \in Slots /\ entry # None
BY ConstantsAssumption DEF IInv, TypeOK, EntryIffReferenced, Referring, ConstantsAssumption

LEMMA RegisterIInv ==
  ASSUME IInv, NEW p \in Procs, Register(p)
  PROVE  IInv'
<1>1. PICK x \in Slots :
        /\ pc[p] = "idle" /\ SlotFor(x) /\ entry' = x
        /\ refs' = [refs EXCEPT ![x] = (IF entry = None THEN 0 ELSE refs[x]) + 1]
        /\ tokens' = IF entry = None THEN [tokens EXCEPT ![x] = 0] ELSE tokens
        /\ mine' = [mine EXCEPT ![p] = x]
        /\ pc' = [pc EXCEPT ![p] = "waiting"]
  BY DEF Register
<1>2. x # None /\ (entry # None => x = entry)
  BY <1>1, ConstantsAssumption DEF SlotFor, ConstantsAssumption
<1>3. TypeOK'
  BY <1>1, <1>2 DEF IInv, TypeOK, Referring
<1>4. EntryIffReferenced'
  <2>1. \A q \in Procs : pc'[q] \in Referring => mine'[q] = x
    BY <1>1, <1>2, NoEntry DEF IInv, TypeOK, EntryIffReferenced, Active, Referring
  <2> QED BY <1>1, <2>1 DEF EntryIffReferenced, IInv, TypeOK
<1>5. Active' = Active \cup {p} /\ p \notin Active /\ Holders' = Holders
  BY <1>1 DEF Active, Holders, IInv, TypeOK
<1>6. Cardinality(Active') = Cardinality(Active) + 1
  BY <1>5, Finite, FS_AddElement
<1>7. Counted'
  <2>1. CASE entry = None
    <3>1. Cardinality(Active) = 0 /\ Cardinality(Holders) = 0
      BY <2>1, NoEntry, FS_EmptySet
    <3>2. refs'[x] = 1 /\ tokens'[x] = 0
      BY <1>1, <2>1 DEF IInv, TypeOK
    <3> QED BY <1>1, <1>5, <1>6, <3>1, <3>2, ConstantsAssumption
            DEF Counted, ConstantsAssumption
  <2>2. CASE entry # None
    <3>1. refs'[x] = refs[entry] + 1 /\ tokens'[x] = tokens[entry]
      BY <1>1, <1>2, <2>2 DEF IInv, TypeOK
    <3> QED BY <1>1, <1>5, <1>6, <2>2, <3>1 DEF Counted, IInv
  <2> QED BY <2>1, <2>2
<1> QED BY <1>3, <1>4, <1>7 DEF IInv

LEMMA TokenIInv ==
  ASSUME IInv, NEW p \in Procs, Send(p) \/ Cancel(p) \/ Receive(p)
  PROVE  IInv'
<1>1. pc[p] \in Referring /\ pc'[p] \in Referring /\ UNCHANGED <<entry, refs, mine>>
  BY DEF Send, Cancel, Receive, Referring, IInv, TypeOK
<1>2. mine[p] = entry /\ entry \in Slots /\ entry # None
  BY <1>1, OnEntry
<1>3. Active' = Active
  BY DEF Active, Send, Cancel, Receive, IInv, TypeOK
<1>4. /\ tokens[entry] = Cardinality(Holders) /\ tokens[entry] \in Nat
      /\ refs[entry] = Cardinality(Active)
  BY <1>2 DEF IInv, Counted, TypeOK
<1>5. EntryIffReferenced'
  BY <1>1 DEF EntryIffReferenced, Send, Cancel, Receive, IInv, TypeOK, Referring
<1>6. CASE Send(p)
  <2>1. Holders' = Holders \cup {p} /\ p \notin Holders
    BY <1>6 DEF Send, Holders, IInv, TypeOK
  <2>2. Cardinality(Holders') = Cardinality(Holders) + 1
    BY <2>1, Finite, FS_AddElement
  <2>3. TypeOK' /\ tokens'[entry] = tokens[entry] + 1 /\ tokens[entry] < Limit
    BY <1>6, <1>2 DEF Send, IInv, TypeOK, Referring
  <2>4. Counted'
    BY <1>1, <1>3, <1>4, <2>2, <2>3, ConstantsAssumption DEF Counted, ConstantsAssumption
  <2> QED BY <1>5, <2>3, <2>4 DEF IInv
<1>7. CASE Cancel(p)
  <2>1. Holders' = Holders /\ TypeOK' /\ UNCHANGED tokens
    BY <1>7 DEF Cancel, Holders, IInv, TypeOK, Referring
  <2> QED BY <1>1, <1>3, <1>5, <2>1 DEF IInv, Counted
<1>8. CASE Receive(p)
  <2>1. Holders' = Holders \ {p} /\ p \in Holders
    BY <1>8 DEF Receive, Holders, IInv, TypeOK
  <2>2. Cardinality(Holders') = Cardinality(Holders) - 1 /\ Cardinality(Holders') \in Nat
    BY <2>1, Finite, FS_RemoveElement, FS_CardinalityType
  <2>3. tokens' = [tokens EXCEPT ![entry] = tokens[entry] - 1]
    BY <1>8, <1>2 DEF Receive
  <2>4. tokens'[entry] = Cardinality(Holders')
    BY <1>2, <1>4, <2>2, <2>3 DEF IInv, TypeOK
  <2>5. TypeOK'
    BY <1>8, <1>2, <1>4, <2>2, <2>3 DEF Receive, IInv, TypeOK, Referring
  <2>6. Counted'
    BY <1>1, <1>2, <1>3, <1>4, <2>2, <2>4, ConstantsAssumption
    DEF Counted, IInv, ConstantsAssumption
  <2> QED BY <1>5, <2>5, <2>6 DEF IInv
<1> QED BY <1>6, <1>7, <1>8

LEMMA DropRefIInv ==
  ASSUME IInv, NEW p \in Procs, DropRef(p)
  PROVE  IInv'
<1>1. /\ pc[p] = "dropping" /\ pc[p] \in Referring
      /\ refs' = [refs EXCEPT ![mine[p]] = refs[mine[p]] - 1]
      /\ entry' = IF refs[mine[p]] = 1 /\ entry = mine[p] THEN None ELSE entry
      /\ pc' = [pc EXCEPT ![p] = "idle"] /\ mine' = [mine EXCEPT ![p] = None]
      /\ UNCHANGED tokens
  BY DEF DropRef, Unref, Referring
<1>2. mine[p] = entry /\ entry \in Slots /\ entry # None
  BY <1>1, OnEntry
<1>3. Active' = Active \ {p} /\ p \in Active /\ Holders' = Holders
  BY <1>1 DEF Active, Holders, IInv, TypeOK
<1>4. /\ Cardinality(Active') = Cardinality(Active) - 1 /\ Cardinality(Active') \in Nat
      /\ IsFiniteSet(Active')
  BY <1>3, Finite, FS_RemoveElement, FS_CardinalityType
<1>5. /\ refs[entry] = Cardinality(Active) /\ refs'[entry] = Cardinality(Active')
      /\ refs' \in [Slots -> Nat]
  BY <1>1, <1>2, <1>4 DEF IInv, TypeOK, Counted
<1>6. TypeOK'
  BY <1>1, <1>5 DEF IInv, TypeOK, Referring
<1>7. CASE refs[entry] = 1
  <2>1. Active' = {}
    BY <1>4, <1>5, <1>7, FS_EmptySet
  <2>2. entry' = None
    BY <1>1, <1>2, <1>7
  <2> QED BY <1>6, <2>1, <2>2 DEF IInv, EntryIffReferenced, Counted, Active, Referring
<1>8. CASE refs[entry] # 1
  <2>1. entry' = entry
    BY <1>1, <1>2, <1>8
  <2>2. Active' # {}
    <3>1. Cardinality(Active') # 0
      BY <1>4, <1>5, <1>8
    <3> QED BY <3>1, FS_EmptySet
  <2>3. EntryIffReferenced'
    BY <1>1, <1>2, <2>1, <2>2 DEF IInv, TypeOK, EntryIffReferenced, Active, Referring
  <2>4. Counted'
    BY <1>1, <1>2, <1>3, <1>5, <2>1 DEF IInv, Counted
  <2> QED BY <1>6, <2>3, <2>4 DEF IInv
<1> QED BY <1>7, <1>8

LEMMA NextIInv == IInv /\ [Next]_vars => IInv'
<1> SUFFICES ASSUME IInv, [Next]_vars PROVE IInv'
  OBVIOUS
<1>1. CASE UNCHANGED vars
  BY <1>1 DEF vars, IInv, TypeOK, EntryIffReferenced, Counted, Active, Holders
<1>2. CASE Next
  BY <1>2, RegisterIInv, TokenIInv, DropRefIInv DEF Next, Step
<1> QED BY <1>1, <1>2

LEMMA LimitFromIInv == IInv => HostLimit
<1> SUFFICES ASSUME IInv PROVE Cardinality(Holders) <= Limit
  BY DEF HostLimit
<1>1. CASE entry = None
  <2>1. Cardinality(Holders) = 0
    BY <1>1, NoEntry, FS_EmptySet
  <2> QED BY <2>1, ConstantsAssumption DEF ConstantsAssumption
<1>2. CASE entry # None
  BY <1>2 DEF IInv, Counted
<1> QED BY <1>1, <1>2

(* At most Limit callers of Acquire hold a token for the host at any time, *)
(* across every deletion and re-creation of its slot.                      *)
THEOREM HostLimitHolds == Spec => []HostLimit
BY InitIInv, NextIInv, LimitFromIInv, PTL DEF Spec

(* The map has an entry exactly while a caller refers to it, and no caller *)
(* ever works on a slot that dropRef has taken out of the map.             *)
THEOREM EntryIsReferenced == Spec => []EntryIffReferenced
<1>1. IInv => EntryIffReferenced
  BY DEF IInv
<1> QED BY InitIInv, NextIInv, <1>1, PTL DEF Spec

(* What Snapshot reports as in flight is the number of holders.            *)
LEMMA InflightCounts == IInv => Inflight = Cardinality(Holders)
<1> SUFFICES ASSUME IInv PROVE Inflight = Cardinality(Holders)
  OBVIOUS
<1>1. CASE entry = None
  <2>1. Cardinality(Holders) = 0
    BY <1>1, NoEntry, FS_EmptySet
  <2> QED BY <1>1, <2>1 DEF Inflight
<1>2. CASE entry # None
  BY <1>2 DEF IInv, Counted, Inflight
<1> QED BY <1>1, <1>2

(* The slots, channels and reference counts of Sem implement one counting  *)
(* semaphore whose members are the callers between Acquire and release and *)
(* whose free tokens are those the entry's channel, if there is an entry,  *)
(* has room for.                                                           *)
THEOREM SemImplementsSemaphore == Spec => ImplementsSemaphore
<1>1. Init => Abstract!Init
  <2>1. Init => Holders = {} /\ Inflight = 0
    BY DEF Init, Holders, Inflight
  <2> QED BY <2>1, ConstantsAssumption DEF Abstract!Init, ConstantsAssumption
<1>2. IInv /\ [Next]_vars => [Abstract!Next]_<<Holders, Limit - Inflight>>
  <2> SUFFICES ASSUME IInv, [Next]_vars PROVE [Abstract!Next]_<<Holders, Limit - Inflight>>
    OBVIOUS
  <2>1. ASSUME NEW p \in Procs, Send(p) PROVE Abstract!Enter(p)
    <3>1. Holders' = Holders \cup {p} /\ p \notin Holders
      BY <2>1 DEF Send, Holders, IInv, TypeOK
    <3>2. mine[p] = entry /\ entry # None /\ entry \in Slots
      BY <2>1, OnEntry DEF Send, Referring
    <3>3. /\ Inflight = tokens[entry] /\ tokens[entry] < Limit
          /\ Inflight' = tokens[entry] + 1
      BY <2>1, <3>2 DEF Send, Inflight, IInv, TypeOK
    <3>4. Limit - Inflight > 0 /\ (Limit - Inflight)' = (Limit - Inflight) - 1
      BY <3>2, <3>3, ConstantsAssumption DEF IInv, TypeOK, ConstantsAssumption
    <3> QED BY <3>1, <3>4 DEF Abstract!Enter
  <2>2. ASSUME NEW p \in Procs, Receive(p) PROVE Abstract!Leave(p)
    <3>1. Holders' = Holders \ {p} /\ p \in Holders
      BY <2>2 DEF Receive, Holders, IInv, TypeOK
    <3>2. mine[p] = entry /\ entry # None /\ entry \in Slots
      BY <2>2, OnEntry DEF Receive, Referring
    <3>3. Inflight = tokens[entry] /\ Inflight' = tokens[entry] - 1
      BY <2>2, <3>2 DEF Receive, Inflight, IInv, TypeOK
    <3>4. (Limit - Inflight)' = (Limit - Inflight) + 1
      BY <3>2, <3>3, ConstantsAssumption DEF IInv, TypeOK, ConstantsAssumption
    <3> QED BY <3>1, <3>4 DEF Abstract!Leave
  <2>3. ASSUME NEW p \in Procs, Register(p) \/ Cancel(p) \/ DropRef(p)
        PROVE  UNCHANGED <<Holders, Limit - Inflight>>
    <3>1. Holders' = Holders
      BY <2>3 DEF Register, Cancel, DropRef, Unref, Holders, IInv, TypeOK
    <3>2. IInv'
      BY <2>3, RegisterIInv, TokenIInv, DropRefIInv
    <3>3. Inflight' = Cardinality(Holders')
      <4>1. (IInv => Inflight = Cardinality(Holders))'
        BY InflightCounts, PTL
      <4> QED BY <3>2, <4>1
    <3> QED BY <3>1, <3>3, InflightCounts
  <2>4. CASE UNCHANGED vars
    BY <2>4 DEF vars, Holders, Inflight
  <2> QED BY <2>1, <2>2, <2>3, <2>4 DEF Next, Step, Abstract!Next
<1> QED BY InitIInv, NextIInv, <1>1, <1>2, PTL DEF Spec, ImplementsSemaphore, Abstract!Spec
=============================================================================
