------------------------- MODULE SingleFlightProofs -------------------------
(* Proofs about SingleFlight: coalescing for every set of callers.         *)
EXTENDS SingleFlight, TLAPS

(* A call that somebody waits on and that is not in the map any more is    *)
(* done; without it a new call could reuse an object that is waited on.    *)
LeftMapIsDone ==
    \A p \in Procs : pc[p] = "waiting" => mine[p] = calls \/ mine[p] \in done

(* A leader's call has its result from the return of fn on and is done     *)
(* from the signal on, not before.                                         *)
LeaderProgress ==
    \A p \in Procs :
      /\ pc[p] \in {"returned", "panicking", "deleting"} => res[mine[p]] # None
      /\ pc[p] = "deleting" => mine[p] \in done
      /\ pc[p] \in Leading \ {"deleting"} => mine[p] \notin done

(* The entry is there only while its leader has not deleted it.            *)
EntryHasLeader ==
    calls # None => \E p \in Procs : pc[p] \in Leading

IInv ==
    /\ TypeOK /\ DeletesOwnEntry /\ EntryHasLeader
    /\ LeaderProgress /\ DoneHasResult /\ LeftMapIsDone

LEMMA InitIInv == Init => IInv
BY ConstantsAssumption DEF Init, IInv, TypeOK, DeletesOwnEntry, EntryHasLeader,
   LeaderProgress, DoneHasResult, LeftMapIsDone, Leading, Outcomes, ConstantsAssumption

LEMMA NextIInv == IInv /\ [Next]_vars => IInv'
<1> SUFFICES ASSUME IInv, [Next]_vars PROVE IInv'
  OBVIOUS
<1> USE ConstantsAssumption DEF ConstantsAssumption, IInv
<1>1. ASSUME NEW p \in Procs, Join(p) PROVE IInv'
  <2>1. TypeOK'
    BY <1>1 DEF Join, Goto, TypeOK, Leading
  <2>2. DeletesOwnEntry' /\ EntryHasLeader' /\ LeaderProgress'
    BY <1>1 DEF Join, Goto, TypeOK, DeletesOwnEntry, EntryHasLeader, LeaderProgress, Leading
  <2>3. DoneHasResult'
    <3>1. PICK q \in Procs : pc[q] \in Leading
      BY <1>1 DEF Join, EntryHasLeader
    <3>2. mine[q] = calls /\ (calls \in done => res[calls] # None)
      BY <3>1 DEF DeletesOwnEntry, DoneHasResult
    <3> QED BY <1>1, <3>2 DEF Join, Goto, TypeOK, DoneHasResult
  <2>4. LeftMapIsDone'
    BY <1>1 DEF Join, Goto, TypeOK, LeftMapIsDone
  <2> QED BY <2>1, <2>2, <2>3, <2>4
<1>2. ASSUME NEW p \in Procs, Lead(p) PROVE IInv'
  <2> PICK c \in Calls :
        /\ pc[p] = "idle" /\ calls = None
        /\ \A q \in Procs : mine[q] # c
        /\ calls' = c /\ done' = done \ {c} /\ res' = [res EXCEPT ![c] = None]
        /\ mine' = [mine EXCEPT ![p] = c] /\ pc' = [pc EXCEPT ![p] = "running"]
        /\ got' = got
    BY <1>2 DEF Lead, Goto
  <2>1. TypeOK'
    BY DEF TypeOK, Leading, Outcomes
  <2>2. \A q \in Procs : pc[q] \notin Leading
    BY DEF TypeOK, DeletesOwnEntry, Leading
  <2>3. DeletesOwnEntry' /\ EntryHasLeader'
    BY <2>2 DEF TypeOK, DeletesOwnEntry, EntryHasLeader, Leading
  <2>4. LeaderProgress'
    BY <2>2 DEF TypeOK, LeaderProgress, Leading
  <2>5. DoneHasResult' /\ LeftMapIsDone'
    BY DEF TypeOK, DoneHasResult, LeftMapIsDone, Leading
  <2> QED BY <2>1, <2>3, <2>4, <2>5
<1>3. ASSUME NEW p \in Procs, Finish(p) PROVE IInv'
  <2> PICK r \in Results \cup {Panicked}, step \in {"returned", "panicking"} :
        /\ pc[p] = "running"
        /\ res' = [res EXCEPT ![mine[p]] = r]
        /\ pc' = [pc EXCEPT ![p] = step]
        /\ UNCHANGED <<calls, done, mine, got>>
    BY <1>3 DEF Finish, FnPanics, FnReturns, Goto
  <2>1. TypeOK'
    BY DEF TypeOK, Leading, Outcomes
  <2>2. DeletesOwnEntry' /\ EntryHasLeader'
    BY DEF TypeOK, DeletesOwnEntry, EntryHasLeader, Leading
  <2>3. LeaderProgress'
    BY DEF TypeOK, LeaderProgress, Leading, DeletesOwnEntry
  <2>4. DoneHasResult' /\ LeftMapIsDone'
    BY DEF TypeOK, DoneHasResult, LeftMapIsDone, LeaderProgress, Leading
  <2> QED BY <2>1, <2>2, <2>3, <2>4
<1>4. ASSUME NEW p \in Procs, Done(p) PROVE IInv'
  <2>1. TypeOK'
    BY <1>4 DEF Done, Goto, TypeOK, Leading
  <2>2. DeletesOwnEntry' /\ EntryHasLeader' /\ LeaderProgress'
    BY <1>4 DEF Done, Goto, TypeOK, DeletesOwnEntry, EntryHasLeader, LeaderProgress, Leading
  <2>3. DoneHasResult' /\ LeftMapIsDone'
    BY <1>4 DEF Done, Goto, TypeOK, DoneHasResult, LeftMapIsDone, LeaderProgress
  <2> QED BY <2>1, <2>2, <2>3
<1>5. ASSUME NEW p \in Procs, Delete(p) PROVE IInv'
  <2>1. TypeOK'
    BY <1>5 DEF Delete, Return, Goto, TypeOK, Leading
  <2>2. \A q \in Procs : pc'[q] \notin Leading
    BY <1>5 DEF Delete, Return, Goto, TypeOK, DeletesOwnEntry, Leading
  <2>3. DeletesOwnEntry' /\ EntryHasLeader' /\ LeaderProgress'
    BY <1>5, <2>2 DEF Delete, DeletesOwnEntry, EntryHasLeader, LeaderProgress, Leading
  <2>4. calls \in done
    BY <1>5 DEF Delete, LeaderProgress, DeletesOwnEntry, Leading
  <2>5. DoneHasResult' /\ LeftMapIsDone'
    BY <1>5, <2>4 DEF Delete, Return, Goto, TypeOK, DoneHasResult, LeftMapIsDone
  <2> QED BY <2>1, <2>3, <2>5
<1>6. ASSUME NEW p \in Procs, Wake(p) PROVE IInv'
  <2>1. TypeOK'
    BY <1>6 DEF Wake, Return, Goto, TypeOK, Leading
  <2>2. DeletesOwnEntry' /\ EntryHasLeader' /\ LeaderProgress'
    BY <1>6 DEF Wake, Return, Goto, TypeOK, DeletesOwnEntry, EntryHasLeader, LeaderProgress, Leading
  <2>3. DoneHasResult' /\ LeftMapIsDone'
    BY <1>6 DEF Wake, Return, Goto, TypeOK, DoneHasResult, LeftMapIsDone
  <2> QED BY <2>1, <2>2, <2>3
<1>7. CASE UNCHANGED vars
  BY <1>7 DEF vars, TypeOK, DeletesOwnEntry, EntryHasLeader, LeaderProgress,
              DoneHasResult, LeftMapIsDone
<1> QED BY <1>1, <1>2, <1>3, <1>4, <1>5, <1>6, <1>7 DEF Next, Step

LEMMA Inductive == Spec => []IInv
BY InitIInv, NextIInv, PTL DEF Spec

(* Do coalesces: at most one fetch of a key is unfinished, and the map     *)
(* offers it to every later caller.                                        *)
THEOREM FetchesCoalesce == Spec => []OneUnfinished
<1>1. IInv => OneUnfinished
  BY DEF IInv, DeletesOwnEntry, OneUnfinished, Unfinished, Leading
<1> QED BY <1>1, Inductive, PTL

(* Do's unconditional delete removes the leader's own entry.               *)
THEOREM LeaderDeletesOwnEntry == Spec => []DeletesOwnEntry
<1>1. IInv => DeletesOwnEntry
  BY DEF IInv
<1> QED BY <1>1, Inductive, PTL

(* A caller that wg.Wait lets go finds a result, from fn or the error of a *)
(* panicked leader.                                                        *)
THEOREM ResultIsSet == Spec => []DoneHasResult
<1>1. IInv => DoneHasResult
  BY DEF IInv
<1> QED BY <1>1, Inductive, PTL

(* The result of a signalled call stays as long as a waiter has it to read.*)
THEOREM ResultStaysShared == Spec => SharedResultStable
<1>1. IInv /\ [Next]_vars
        => [\A p \in Procs : pc[p] = "waiting" /\ mine[p] \in done
                                => res'[mine[p]] = res[mine[p]]]_vars
  <2> SUFFICES ASSUME IInv, [Next]_vars, NEW p \in Procs,
                      pc[p] = "waiting", mine[p] \in done
               PROVE  res'[mine[p]] = res[mine[p]]
    OBVIOUS
  <2>1. mine[p] \in Calls
    BY ConstantsAssumption DEF IInv, TypeOK, ConstantsAssumption
  <2>2. ASSUME NEW q \in Procs, Lead(q) PROVE res'[mine[p]] = res[mine[p]]
    BY <2>1, <2>2 DEF Lead, IInv, TypeOK
  <2>3. ASSUME NEW q \in Procs, Finish(q) PROVE res'[mine[p]] = res[mine[p]]
    BY <2>1, <2>3 DEF Finish, FnPanics, FnReturns, IInv, TypeOK, LeaderProgress, Leading
  <2> QED BY <2>2, <2>3 DEF Next, Step, Join, Done, Delete, Wake, vars
<1> QED BY <1>1, Inductive, PTL DEF Spec, SharedResultStable
=============================================================================
