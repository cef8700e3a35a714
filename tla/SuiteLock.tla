----------------------------- MODULE SuiteLock -----------------------------
(***************************************************************************)
(* The per-suite mutex protocol of the freshness checker (invariant "I-4"  *)
(* in the source's comments), for ONE suite key.  The lock map holds at    *)
(* most one mutex for the key; the mutex may be dropped and replaced while *)
(* goroutines still hold a pointer to the old one.                         *)
(*                                                                         *)
(* Three kinds of caller run in any process:                               *)
(*   check      Checker.check: busy peek, row read, lockSuite, row         *)
(*              re-read, the check's answer, and the mutex handed to an    *)
(*              adoption (or repair) goroutine, which this model lets the  *)
(*              same process play;                                         *)
(*   reconcile  Checker.Reconcile, which also compares the snapshot;       *)
(*   hold       HoldSuite, used by cap eviction, the suite reaper and      *)
(*              POST /forget, which delete the suite's row.                *)
(* The suite row is created by the cache's writer without the mutex.  The  *)
(* writer runs one transaction at a time; a deleter whose submitWrite ends *)
(* early settles the outcome by reading the row, and its transaction may   *)
(* still commit afterwards.                                                *)
(***************************************************************************)
EXTENDS Naturals, FiniteSets

CONSTANTS Procs,      \* goroutines
          Mutexes,    \* mutex objects that allocation may return
          None,       \* "no mutex", "no process"
          MaxSnap     \* bound: adoptions committed

ASSUME ConstantsAssumption ==
    /\ None \notin Procs
    /\ None \notin Mutexes
    /\ MaxSnap \in Nat

VARIABLES locks,      \* the lock map's entry for the key: a mutex or None
          owner,      \* [Mutexes -> Procs \cup {None}]: who has locked it
          row,        \* the suite row: NoRow, or its current snapshot (0: none)
          lastSnap,   \* the last snapshot id given out
          writer,     \* the process whose delete the writer is running, or None
          pc, op, mu, \* per process: step, operation, mutex pointer
          seen,       \* per process: the row read (before the lock, then under it)
          memo,       \* absentAnswered holds the key
          answered,   \* ghost: this row's last answered check ended anchor_absent
          residue,    \* ghost: why an entry may have outlived its row
          vanished    \* ghost, per process: an abandoned delete hit its suite

vars == <<locks, owner, row, lastSnap, writer, pc, op, mu, seen, memo,
          answered, residue, vanished>>
rowVars == <<row, lastSnap, writer>>
memoVars == <<memo, answered>>
ghostVars == <<residue, vanished>>

\* The row's value when the suite has none.
NoRow == MaxSnap + 1

Ops == {"check", "reconcile", "hold"}
\* Steps in which the process has locked its mutex.
Holding == {"peekHeld", "validate", "locked", "checking", "answered", "adopting",
            "retired", "reconciling", "held", "deleting", "deleted", "kept", "release",
            "dropMap", "dropMemo", "dropUnlock"}
\* Steps after lockSuite answered lockOK and before the entry is dropped.
Valid == Holding \ {"peekHeld", "validate", "dropMemo", "dropUnlock"}
\* Steps that act for the suite.
Working == {"checking", "answered", "adopting", "retired", "reconciling",
            "held", "deleting", "deleted"}
Steps == Holding \cup {"idle", "peek", "readRow", "load", "try"}

TypeOK ==
    /\ locks \in Mutexes \cup {None}
    /\ owner \in [Mutexes -> Procs \cup {None}]
    /\ row \in 0..NoRow
    /\ lastSnap \in 0..MaxSnap
    /\ writer \in Procs \cup {None}
    /\ pc \in [Procs -> Steps]
    /\ op \in [Procs -> Ops]
    /\ mu \in [Procs -> Mutexes \cup {None}]
    /\ seen \in [Procs -> 0..NoRow]
    /\ memo \in BOOLEAN
    /\ answered \in BOOLEAN
    /\ residue \in {"none", "readError", "lateCommit", "recreated", "peek"}
    /\ vanished \in [Procs -> BOOLEAN]
    /\ \A p \in Procs : pc[p] \in Holding \cup {"peek", "try"} => mu[p] # None

Init ==
    /\ locks = None
    /\ owner = [m \in Mutexes |-> None]
    /\ row = NoRow
    /\ lastSnap = 0
    /\ writer = None
    /\ pc = [p \in Procs |-> "idle"]
    /\ op = [p \in Procs |-> "check"]
    /\ mu = [p \in Procs |-> None]
    /\ seen = [p \in Procs |-> NoRow]
    /\ memo = FALSE
    /\ answered = FALSE
    /\ residue = "none"
    /\ vanished = [p \in Procs |-> FALSE]

Goto(p, step) == pc' = [pc EXCEPT ![p] = step]

\* The process returns: its pointer to the mutex is garbage.
Return(p) ==
    /\ Goto(p, "idle")
    /\ mu' = [mu EXCEPT ![p] = None]
    /\ seen' = [seen EXCEPT ![p] = NoRow]
    /\ op' = [op EXCEPT ![p] = "check"]
    /\ vanished' = [vanished EXCEPT ![p] = FALSE]

\* The first cause since the entry was last dropped.
Blame(cause, applies) ==
    residue' = IF applies /\ residue = "none" THEN cause ELSE residue

Lock(p, m) == owner' = [owner EXCEPT ![m] = p]
Unlock(p) == owner' = [owner EXCEPT ![mu[p]] = None]

----------------------------------------------------------------------------
(* The busy peek at the start of check.                                    *)

CheckStart(p) ==
    /\ pc[p] = "idle"
    /\ op' = [op EXCEPT ![p] = "check"]
    /\ mu' = [mu EXCEPT ![p] = locks]
    /\ Goto(p, IF locks = None THEN "readRow" ELSE "peek")
    /\ UNCHANGED <<locks, owner, rowVars, seen, memoVars, ghostVars>>

PeekTryLock(p) ==
    /\ pc[p] = "peek"
    /\ \/ /\ owner[mu[p]] # None
          /\ Return(p)
          /\ UNCHANGED owner
       \/ /\ owner[mu[p]] = None
          /\ Lock(p, mu[p])
          /\ Goto(p, "peekHeld")
          /\ UNCHANGED <<op, mu, seen, vanished>>
    /\ UNCHANGED <<locks, rowVars, memoVars, residue>>

PeekUnlock(p) ==
    /\ pc[p] = "peekHeld"
    /\ Unlock(p)
    /\ mu' = [mu EXCEPT ![p] = None]
    /\ Goto(p, "readRow")
    /\ UNCHANGED <<locks, rowVars, op, seen, memoVars, ghostVars>>

(* Every caller reads the row before it may store a lock-map entry; for a  *)
(* holder that read is its list of candidates.  A read error counts as "no *)
(* row".                                                                   *)
CheckReadRow(p) ==
    /\ pc[p] = "readRow"
    /\ \/ /\ row # NoRow
          /\ Goto(p, "load")
          /\ UNCHANGED <<op, mu, seen, vanished>>
       \/ Return(p)
    /\ UNCHANGED <<locks, owner, rowVars, memoVars, residue>>

ReconcileReadRow(p) ==
    /\ pc[p] = "idle"
    /\ row \notin {NoRow, 0}
    /\ op' = [op EXCEPT ![p] = "reconcile"]
    /\ seen' = [seen EXCEPT ![p] = row]
    /\ Goto(p, "load")
    /\ UNCHANGED <<locks, owner, rowVars, mu, memoVars, ghostVars>>

HoldListRow(p) ==
    /\ pc[p] = "idle"
    /\ row # NoRow
    /\ op' = [op EXCEPT ![p] = "hold"]
    /\ Goto(p, "load")
    /\ UNCHANGED <<locks, owner, rowVars, mu, seen, memoVars, ghostVars>>

----------------------------------------------------------------------------
(* lockSuite: LoadOrStore, TryLock, re-validation.                         *)

\* A mutex no one refers to: what &sync.Mutex{} returns.
Fresh(m) == /\ m # locks
            /\ owner[m] = None
            /\ \A q \in Procs : mu[q] # m

LoadOrStore(p) ==
    /\ pc[p] = "load"
    /\ \/ /\ locks = None
          /\ \E m \in Mutexes : /\ Fresh(m)
                                /\ locks' = m
                                /\ mu' = [mu EXCEPT ![p] = m]
       \/ /\ locks # None
          /\ mu' = [mu EXCEPT ![p] = locks]
          /\ UNCHANGED locks
    /\ Goto(p, "try")
    /\ UNCHANGED <<owner, rowVars, op, seen, memoVars, ghostVars>>

\* lockBusy drops nothing: the entry this call may have stored stays.
TryLock(p) ==
    /\ pc[p] = "try"
    /\ \/ /\ owner[mu[p]] = None
          /\ Lock(p, mu[p])
          /\ Goto(p, "validate")
          /\ UNCHANGED <<op, mu, seen, vanished, residue>>
       \/ /\ owner[mu[p]] # None
          /\ Blame("peek", row = NoRow /\ pc[owner[mu[p]]] = "peekHeld")
          /\ Return(p)
          /\ UNCHANGED owner
    /\ UNCHANGED <<locks, rowVars, memoVars>>

\* Mutant: no re-validation after TryLock.
RevalidateSkipped(p) ==
    /\ pc[p] = "validate"
    /\ Goto(p, "locked")
    /\ UNCHANGED <<locks, owner, rowVars, op, mu, seen, memoVars, ghostVars>>

Revalidate(p) ==
    /\ pc[p] = "validate"
    /\ \/ /\ locks = mu[p]
          /\ Goto(p, "locked")
          /\ UNCHANGED <<owner, op, mu, seen, vanished>>
       \/ /\ locks # mu[p]
          /\ Unlock(p)
          /\ Return(p)
    /\ UNCHANGED <<locks, rowVars, memoVars, residue>>

----------------------------------------------------------------------------
(* Under the mutex: the row is read again.                                 *)

\* Mutant: Reconcile does not compare the snapshot it read before the lock.
UnderLockNoCompare(p) ==
    CASE op[p] = "check" -> "checking"
      [] op[p] = "reconcile" -> "reconciling"
      [] op[p] = "hold" -> "held"

\* "hold" stands for every HoldSuite caller.  Forget compares nothing; the
\* reaper compares the snapshot it listed, and returns if it changed, which is
\* a hold that goes straight to Release; eviction leaves it to the writer.
UnderLock(p) ==
    CASE op[p] = "check" -> "checking"
      [] op[p] = "reconcile" -> IF row = seen[p] THEN "reconciling" ELSE "release"
      [] op[p] = "hold" -> "held"

\* Mutant: a vanished row only unlocks.
RereadRowKeepsEntry(p) ==
    /\ pc[p] = "locked"
    /\ Goto(p, IF row = NoRow THEN "release" ELSE UnderLock(p))
    /\ seen' = [seen EXCEPT ![p] = IF op[p] = "reconcile" THEN @ ELSE row]
    /\ UNCHANGED <<locks, owner, rowVars, op, mu, memoVars, ghostVars>>

RereadRow(p) ==
    /\ pc[p] = "locked"
    /\ Goto(p, IF row = NoRow THEN "dropMap" ELSE UnderLock(p))
    /\ seen' = [seen EXCEPT ![p] = IF op[p] = "reconcile" THEN @ ELSE row]
    /\ UNCHANGED <<locks, owner, rowVars, op, mu, memoVars, ghostVars>>

\* The re-read fails: the hold ends and the entry stays.
RereadError(p) ==
    /\ pc[p] = "locked"
    /\ Goto(p, "release")
    /\ Blame("readError", row = NoRow)
    /\ UNCHANGED <<locks, owner, rowVars, op, mu, seen, memoVars, vanished>>

\* mu.Unlock at the end of a hold whose suite keeps its row; also the end of
\* a check inside its cooldown, of a panicking one, and of a reconcile that
\* finds another snapshot or no admission slot.
Release(p) ==
    /\ pc[p] \in {"release", "checking", "answered", "adopting", "retired",
                  "reconciling", "held", "kept"}
    /\ Unlock(p)
    /\ Return(p)
    /\ UNCHANGED <<locks, rowVars, memoVars, residue>>

\* finishCheck and failCheck: the answer sets or clears the memo.
CheckAnswer(p) ==
    /\ pc[p] = "checking"
    /\ \E absent \in BOOLEAN :
          /\ memo' = absent
          /\ answered' = (absent /\ row # NoRow)
    /\ Goto(p, "answered")
    /\ UNCHANGED <<locks, owner, rowVars, op, mu, seen, ghostVars>>

\* The mutex is handed to the adoption goroutine; its candidate is inserted.
SpawnAdoption(p) ==
    /\ pc[p] = "answered"
    /\ Goto(p, "adopting")
    /\ UNCHANGED <<locks, owner, rowVars, op, mu, seen, memoVars, ghostVars>>

\* CommitAdoption, on the writer: refused when the suite has no row, or when
\* a delete of the row retired the candidate (the step "retired").
CommitAdoption(p) ==
    /\ pc[p] = "adopting"
    /\ writer = None
    /\ row # NoRow
    /\ lastSnap < MaxSnap
    /\ lastSnap' = lastSnap + 1
    /\ row' = lastSnap'
    /\ Goto(p, "release")
    /\ UNCHANGED <<locks, owner, writer, op, mu, seen, memoVars, ghostVars>>

----------------------------------------------------------------------------
(* Creation and deletion of the row, on the writer.                        *)

CreateSuite ==
    /\ writer = None
    /\ row = NoRow
    /\ row' = 0
    /\ UNCHANGED <<locks, owner, lastSnap, writer, pc, op, mu, seen, memoVars,
                   ghostVars>>

\* A holder submits deleteSuiteTx.
SubmitDelete(p) ==
    /\ pc[p] = "held"
    /\ writer = None
    /\ writer' = p
    /\ Goto(p, "deleting")
    /\ UNCHANGED <<locks, owner, row, lastSnap, op, mu, seen, memoVars, ghostVars>>

\* The writer runs the compare-and-delete: it deletes the row (and retires
\* the suite's candidates), or keeps a row a client asked for or an adoption
\* changed, or finds none.  A submitter that gave up hears nothing; an
\* operation run on its ended context rolls back.
WriterDelete ==
    /\ writer # None
    /\ LET waiting == pc[writer] = "deleting" IN
       \/ /\ row # NoRow
          /\ waiting => row = seen[writer]
          /\ row' = NoRow
          /\ answered' = FALSE
          /\ IF waiting
             THEN Goto(writer, "deleted") /\ UNCHANGED ghostVars
             ELSE /\ pc' = [q \in Procs |->
                              IF pc[q] = "adopting" THEN "retired" ELSE pc[q]]
                  /\ vanished' = [q \in Procs |-> vanished[q] \/ pc[q] \in Working]
                  /\ Blame("lateCommit", TRUE)
       \/ /\ IF waiting
             THEN Goto(writer, IF row = NoRow THEN "deleted" ELSE "kept")
             ELSE UNCHANGED pc
          /\ UNCHANGED <<row, answered, ghostVars>>
    /\ writer' = None
    /\ UNCHANGED <<locks, owner, lastSnap, op, mu, seen, memo>>

\* submitWrite answered: the row is gone.
SettleDeleted(p) ==
    /\ pc[p] = "deleted"
    /\ Goto(p, "dropMap")
    /\ UNCHANGED <<locks, owner, rowVars, op, mu, seen, memoVars, ghostVars>>

\* submitWrite failed (its context ended): a fresh read of the row decides.
\* A read that fails answers "present", which is wrong only for a gone row.
SettleByRead(p) ==
    /\ pc[p] \in {"deleting", "deleted", "kept"}
    /\ \/ /\ row = NoRow
          /\ Goto(p, "dropMap")
          /\ UNCHANGED residue
       \/ /\ row # NoRow
          /\ Goto(p, "release")
          /\ Blame("recreated", pc[p] = "deleted")
       \/ /\ row = NoRow
          /\ Goto(p, "release")
          /\ Blame("readError", TRUE)
    /\ UNCHANGED <<locks, owner, rowVars, op, mu, seen, memoVars, vanished>>

----------------------------------------------------------------------------
(* unlockDropped: drop the entry, then the memo, then unlock.              *)

DropEntry(p) ==
    /\ pc[p] = "dropMap"
    /\ locks' = IF locks = mu[p] THEN None ELSE locks
    /\ residue' = IF locks = mu[p] THEN "none" ELSE residue
    /\ Goto(p, "dropMemo")
    /\ UNCHANGED <<owner, rowVars, op, mu, seen, memoVars, vanished>>

\* Mutant: the memo survives the drop.
DropMemoForgotten(p) ==
    /\ pc[p] = "dropMemo"
    /\ Goto(p, "dropUnlock")
    /\ UNCHANGED <<locks, owner, rowVars, op, mu, seen, memoVars, ghostVars>>

DropMemo(p) ==
    /\ pc[p] = "dropMemo"
    /\ memo' = FALSE
    /\ Goto(p, "dropUnlock")
    /\ UNCHANGED <<locks, owner, rowVars, op, mu, seen, answered, ghostVars>>

DropUnlock(p) ==
    /\ pc[p] = "dropUnlock"
    /\ Unlock(p)
    /\ Return(p)
    /\ UNCHANGED <<locks, rowVars, memoVars, residue>>

----------------------------------------------------------------------------
Step(p) ==
    \/ CheckStart(p) \/ PeekTryLock(p) \/ PeekUnlock(p) \/ CheckReadRow(p)
    \/ ReconcileReadRow(p) \/ HoldListRow(p)
    \/ LoadOrStore(p) \/ TryLock(p) \/ Revalidate(p)
    \/ RereadRow(p) \/ RereadError(p) \/ Release(p)
    \/ CheckAnswer(p) \/ SpawnAdoption(p) \/ CommitAdoption(p)
    \/ SubmitDelete(p) \/ SettleDeleted(p) \/ SettleByRead(p)
    \/ DropEntry(p) \/ DropMemo(p) \/ DropUnlock(p)

Next == CreateSuite \/ WriterDelete \/ \E p \in Procs : Step(p)

Spec == Init /\ [][Next]_vars

----------------------------------------------------------------------------
(* Properties.                                                             *)

(* Two goroutines never act for one suite at the same time, although the   *)
(* lock map may hand out a second mutex for the suite while the first is   *)
(* still locked: the comment at lockSuite, "it never runs beside a holder  *)
(* of a re-created suite's new entry".                                     *)
MutualExclusion ==
    \A p, q \in Procs : pc[p] \in Working /\ pc[q] \in Working => p = q

(* What a goroutine read under the mutex stays true while it works: no one *)
(* else deletes the row or changes its current snapshot, unless a delete   *)
(* whose submitter had given up committed late (the window the comment of  *)
(* afterCreate describes).                                                 *)
RowStableUnderLock ==
    \A p \in Procs :
        pc[p] \in Working \ {"deleted"} => row = seen[p] \/ vanished[p]

Quiescent == \A p \in Procs : pc[p] = "idle"

(* A lock-map entry without a suite row has a known cause once every       *)
(* caller has returned: a failed read, a delete that committed late, or a  *)
(* TryLock that lost to a busy peek.  Nothing else leaks an entry.         *)
LeakHasCause ==
    Quiescent /\ locks # None /\ row = NoRow => residue # "none"

(* The comments at Checker.locks and LockCount: an entry outlives its row  *)
(* only while a caller that loaded it unwinds, or after a read error (or a *)
(* late commit).                                                           *)
EntryOutlivesRowOnlyOnReadError ==
    Quiescent /\ locks # None /\ row = NoRow
        => residue \in {"readError", "lateCommit", "recreated"}

(* A re-created suite never inherits the "answered absent" memo of the     *)
(* suite deleted before it (which would pace its checks), unless the       *)
(* delete's outcome was misread.                                           *)
MemoNotInherited ==
    Quiescent /\ memo => answered \/ residue # "none"
=============================================================================
