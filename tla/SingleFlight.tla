---------------------------- MODULE SingleFlight ----------------------------
(***************************************************************************)
(* The request coalescing of internal/handler/singleflight.go, for one     *)
(* key (keys share only the mutex).  The first caller of a key leads: it   *)
(* runs fn, publishes the result, signals its waiters and only then        *)
(* deletes the map entry.  A leader whose fn panics does the same with an  *)
(* error result, from a deferred function.                                 *)
(***************************************************************************)
EXTENDS Naturals, FiniteSets

CONSTANTS Procs,      \* callers of Do
          Calls,      \* sfCall objects allocation may return
          Results,    \* what fn may return
          Panicked,   \* errSFLeaderPanicked
          None        \* no call, no result

ASSUME ConstantsAssumption ==
    /\ None \notin Calls
    /\ None \notin Results \cup {Panicked}
    /\ Panicked \notin Results

VARIABLES calls,      \* sfGroup.calls[key]: a call, or None
          done,       \* calls whose wait group is at zero
          res,        \* [Calls -> sfCall.res]
          pc,         \* [Procs -> step]
          mine,       \* [Procs -> the call the caller leads or joined]
          got         \* [Procs -> the result of the caller's last Do]

vars == <<calls, done, res, pc, mine, got>>

Leading == {"running", "returned", "panicking", "deleting"}

Init ==
    /\ calls = None
    /\ done = {}
    /\ res = [c \in Calls |-> None]
    /\ pc = [p \in Procs |-> "idle"]
    /\ mine = [p \in Procs |-> None]
    /\ got = [p \in Procs |-> None]

Goto(p, step) == pc' = [pc EXCEPT ![p] = step]

\* p returns from Do with the result of its call.
Return(p) ==
    /\ got' = [got EXCEPT ![p] = res[mine[p]]]
    /\ mine' = [mine EXCEPT ![p] = None]
    /\ Goto(p, "idle")

\* Do finds a call of the key: count as a waiter and wait.
Join(p) ==
    /\ pc[p] = "idle"
    /\ calls # None
    /\ mine' = [mine EXCEPT ![p] = calls]
    /\ Goto(p, "waiting")
    /\ UNCHANGED <<calls, done, res, got>>

\* Do finds none: put a new call, which no caller refers to, in the map.
Lead(p) ==
    \E c \in Calls :
      /\ pc[p] = "idle"
      /\ calls = None
      /\ \A q \in Procs : mine[q] # c
      /\ calls' = c
      /\ done' = done \ {c}
      /\ res' = [res EXCEPT ![c] = None]
      /\ mine' = [mine EXCEPT ![p] = c]
      /\ Goto(p, "running")
      /\ UNCHANGED got

\* Mutant: the order the comment on Do warns of, delete first and Done second.
FnReturnsDeleting(p, r) ==
    /\ pc[p] = "running"
    /\ res' = [res EXCEPT ![mine[p]] = r]
    /\ calls' = None
    /\ Goto(p, "returned")
    /\ UNCHANGED <<done, mine, got>>

\* fn returns r to its leader.
FnReturns(p, r) ==
    /\ pc[p] = "running"
    /\ res' = [res EXCEPT ![mine[p]] = r]
    /\ Goto(p, "returned")
    /\ UNCHANGED <<calls, done, mine, got>>

\* Mutant: the deferred function deletes the entry and forgets wg.Done.
FnPanicsNoDone(p) ==
    /\ pc[p] = "running"
    /\ calls' = None
    /\ got' = [got EXCEPT ![p] = Panicked]
    /\ mine' = [mine EXCEPT ![p] = None]
    /\ Goto(p, "idle")
    /\ UNCHANGED <<done, res>>

\* fn panics: the deferred function sets the error result.
FnPanics(p) ==
    /\ pc[p] = "running"
    /\ res' = [res EXCEPT ![mine[p]] = Panicked]
    /\ Goto(p, "panicking")
    /\ UNCHANGED <<calls, done, mine, got>>

\* The leader signals its waiters (wg.Done), on either path.
Done(p) ==
    /\ pc[p] \in {"returned", "panicking"}
    /\ done' = done \cup {mine[p]}
    /\ Goto(p, "deleting")
    /\ UNCHANGED <<calls, res, mine, got>>

\* Mutant: the deferred function does not look at returned, and runs its body
\* after a normal return too.
DeleteRunsDeferred(p) ==
    /\ pc[p] = "deleting"
    /\ calls' = None
    /\ res' = [res EXCEPT ![mine[p]] = Panicked]
    /\ Return(p)
    /\ UNCHANGED done

\* The leader deletes the key's entry, whichever call it holds, and returns.
Delete(p) ==
    /\ pc[p] = "deleting"
    /\ calls' = None
    /\ Return(p)
    /\ UNCHANGED <<done, res>>

\* A waiter whose call is done returns its result.
Wake(p) ==
    /\ pc[p] = "waiting"
    /\ mine[p] \in done
    /\ Return(p)
    /\ UNCHANGED <<calls, done, res>>

Finish(p) == FnPanics(p) \/ \E r \in Results : FnReturns(p, r)

Step(p) == Join(p) \/ Lead(p) \/ Finish(p) \/ Done(p) \/ Delete(p) \/ Wake(p)

Next == \E p \in Procs : Step(p)

Spec == Init /\ [][Next]_vars

\* fn is a fetch with a total timeout, so it ends; the rest of Do blocks only on
\* the mutex, held for a map access, and on the wait group.
Fairness ==
    \A p \in Procs : /\ WF_vars(Finish(p))
                     /\ WF_vars(Done(p) \/ Delete(p))
                     /\ WF_vars(Wake(p))

LiveSpec == Spec /\ Fairness

-----------------------------------------------------------------------------
Outcomes == Results \cup {Panicked, None}

TypeOK ==
    /\ calls \in Calls \cup {None}
    /\ done \subseteq Calls
    /\ res \in [Calls -> Outcomes]
    /\ pc \in [Procs -> Leading \cup {"idle", "waiting"}]
    /\ mine \in [Procs -> Calls \cup {None}]
    /\ got \in [Procs -> Outcomes]
    /\ \A p \in Procs : (pc[p] = "idle") <=> (mine[p] = None)

\* Callers that run fn or have run it and not yet signalled.
Unfinished == {p \in Procs : pc[p] \in Leading \ {"deleting"}}

\* The coalescing guarantee: while one fetch of the key is unfinished no other
\* starts, and it is the one the map offers to join.
OneUnfinished ==
    \A p, q \in Unfinished : p = q /\ mine[p] = calls

\* The entry a leader deletes without looking is its own: no caller ever leads
\* while an earlier leader has its delete to come.
DeletesOwnEntry ==
    /\ \A p \in Procs : pc[p] \in Leading => mine[p] = calls
    /\ \A p, q \in Procs : {pc[p], pc[q]} \subseteq Leading => p = q

\* A caller past wg.Wait never reads an unset result, the panic path included.
DoneHasResult == \A p \in Procs : mine[p] \in done => res[mine[p]] # None

\* All who joined one call read one result: it never changes after the signal,
\* as long as somebody has it to read.
SharedResultStable ==
    [][\A p \in Procs : pc[p] = "waiting" /\ mine[p] \in done
                            => res'[mine[p]] = res[mine[p]]]_vars

\* Whoever joins a call gets out of it: Handler.Close waits for every request.
JoinersReturn == \A p \in Procs : pc[p] = "waiting" ~> pc[p] = "idle"
=============================================================================
