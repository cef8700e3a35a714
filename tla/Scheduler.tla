----------------------------- MODULE Scheduler ------------------------------
(***************************************************************************)
(* The freshness scheduler (Checker.Run in internal/freshness/scheduler.go)*)
(* composed with the admission pool, the check workers, client checks and  *)
(* adoptions.  The Run goroutine alternates between dispatching what pop   *)
(* gives it and waiting for a tick, a wake or a finished check; meanwhile  *)
(* workers check suites, client requests check suites too, and adoptions   *)
(* hold the suite's mutex and its slots until they end.                    *)
(***************************************************************************)
EXTENDS Admission, Sequences, SequencesExt

CONSTANTS Workers,     \* checkWorkers
          MaxSuites,   \* freshness.max_suites, 0 for no bound
          Unsigned,    \* suites whose upstream signs nothing
          Adopted,     \* suites that may have been adopted before the start
          Events,      \* which of "publish", "client", "reconcile" and "fault" happen
                       \* to which suite
          MaxEvents    \* bound: how many of them

INSTANCE SchedQueues

ASSUME SchedulerAssumption ==
    /\ Suites \subseteq Nat \ {0} /\ Unsigned \subseteq Suites
    /\ Adopted \subseteq Suites
    /\ Workers \in Nat \ {0} /\ {MaxSuites, MaxEvents} \subseteq Nat

VARIABLES q,           \* schedQueues
          loop,        \* where Run is: "pop", "send" or "select"
          sending,     \* the item popped and not handed over, or 0
          idle, offers,
          worker,      \* [Suites -> where the suite's scheduler check is]
          reported,    \* suites whose finished check reports signedCurrent
          mutex,       \* [Suites -> "free", "check", "client", "spawned", "reconcile"]
          class,       \* schedClass by the persisted columns
          content,     \* [Suites -> "same", "changed" or "damaged"]
          seen,        \* inrelease_change_seen_at is set
          recorded,    \* adoption_fail_count > 0
          signed,      \* the current snapshot is signed
          byCheck,     \* the suites by last_check_at, least recently checked first
          events,      \* how many happened
          offered,     \* ghost: offered since the last release, wake or tick
          fits,        \* ghost: offers out whose slot nothing else has taken
          busied       \* ghost: waiters held because their offer ended busy

runVars   == <<q, loop, sending, idle, offers>>
suiteVars == <<class, content, seen, recorded, signed, byCheck>>
ghosts    == <<offered, fits, busied>>
vars == <<admissionVars, runVars, worker, reported, mutex, suiteVars, events, ghosts>>

\* The process starts: some of Adopted have a snapshot from an earlier run.
Init ==
    /\ AdmissionInit
    /\ q = EmptyQueues
    /\ loop = "pop" /\ sending = 0 /\ idle = Workers /\ offers = 0
    /\ worker = [s \in Suites |-> "none"]
    /\ reported = {}
    /\ mutex = [s \in Suites |-> "free"]
    /\ \E before \in SUBSET Adopted :
         /\ class = [s \in Suites |-> IF s \in before THEN 0 ELSE 1]
         /\ signed = before \ Unsigned
    /\ seen = {} /\ recorded = {}
    /\ byCheck = SetToSortSeq(Suites, <)
    /\ content = [s \in Suites |-> "changed"]     \* or never adopted
    /\ events = 0
    /\ offered = {} /\ fits = {} /\ busied = {}

Spend(kind, s) == <<kind, s>> \in Events /\ events < MaxEvents /\ events' = events + 1

With(set, s, in) == IF in THEN set \cup {s} ELSE set \ {s}

\* pendingChange
Pending == seen \ recorded

-----------------------------------------------------------------------------
(* The Run goroutine.                                                      *)

\* Mutant: the slots that the offers in flight will take count as free.
AdmitAnyFree == {a \in Hosts \X BOOLEAN : FreeFor(a[1], a[2]) > 0}

\* Run's closure admit: room beyond the offers already made.
Admit == {a \in Hosts \X BOOLEAN : FreeFor(a[1], a[2]) > offers}

\* The pop loop finds a suite, or nothing more to dispatch.
Pop ==
    /\ loop = "pop"
    /\ LET ready == IF idle > 0 THEN Ready(q, Admit) ELSE <<>>
       IN  IF ready = <<>>
           THEN /\ loop' = "select"
                /\ UNCHANGED <<q, sending, ghosts>>
           ELSE LET s == Choice(q, Head(ready), Admit)
                IN  /\ q' = Take(q, s)
                    /\ sending' = s
                    /\ loop' = "send"
                    /\ offered' = With(offered, s, s \in offered \/ s \in q.item)
                    /\ fits' = With(fits, s, s \in q.item)
                    /\ UNCHANGED busied
    /\ UNCHANGED <<admissionVars, idle, offers, worker, reported, mutex, suiteVars, events>>

\* work <- withGen(item, generation()) to a worker that is idle; only an offer's
\* stamp is read.
Send ==
    /\ loop = "send"
    /\ IF sending \in q.item THEN Stamp(sending) ELSE UNCHANGED admissionVars
    /\ worker' = [worker EXCEPT ![sending] = "sent"]
    /\ idle' = idle - 1
    /\ offers' = IF sending \in q.item THEN offers + 1 ELSE offers
    /\ sending' = 0
    /\ loop' = "pop"
    /\ UNCHANGED <<q, reported, mutex, suiteVars, events, ghosts>>

\* The first n of the suites of fresh in the order of their last check.
LeastRecent(fresh, n) ==
    LET old == SelectSeq(byCheck, LAMBDA s : s \in fresh)
    IN  {old[i] : i \in {j \in DOMAIN old : j <= n}}

\* Mutant: the queue bound counts the class queues only.
BoundDueUncounted(due) ==
    LET fresh == due \ q.queued
        room  == MaxSuites - Cardinality({s \in q.queued : worker[s] = "none" /\ s \notin q.item})
    IN  IF MaxSuites = 0 THEN due ELSE LeastRecent(fresh, room)

\* boundDue: the due suites a tick enqueues under the bound.
BoundDue(due) ==
    LET fresh == due \ q.queued
        room  == MaxSuites - Cardinality(q.queued)
    IN  IF MaxSuites = 0 THEN due ELSE LeastRecent(fresh, room)

\* tick: suiteDue holds of every adopted suite with a pending change that is not
\* in the backoff of failing checks (of one never adopted only while clients ask
\* for it), and of any other that is stale or whose retry is due.
\* The step is the read of the suite list: only Run touches the queues, so what
\* it enqueues is settled then, and the pop that follows may come any time later.
Tick(due) ==
    /\ loop = "select"
    /\ {s \in Pending \cap signed : class[s] # 2} \subseteq due
    /\ q' = FoldLeft(LAMBDA k, s : Enqueue(k, s, class[s], s \in Pending),
                     RefreshSigned(Unhold(q), signed),
                     SetToSortSeq(BoundDue(due), <))
    /\ loop' = "pop"
    /\ offered' = {} /\ busied' = {}
    /\ UNCHANGED <<admissionVars, sending, idle, offers, worker, reported, mutex,
                   suiteVars, events, fits>>

\* A tick whose suite list could not be read.
TickFails ==
    /\ loop = "select"
    /\ Spend("fault", 0)
    /\ q' = Unhold(q)
    /\ loop' = "pop"
    /\ offered' = {} /\ busied' = {}
    /\ UNCHANGED <<admissionVars, sending, idle, offers, worker, reported, mutex,
                   suiteVars, fits>>

\* A wake.
Freed ==
    /\ loop = "select"
    /\ TakeWake
    /\ q' = Unhold(q)
    /\ loop' = "pop"
    /\ offered' = {} /\ busied' = {}
    /\ UNCHANGED <<sending, idle, offers, worker, reported, mutex, suiteVars, events, fits>>

\* Mutant: a lost offer is held whether or not a slot was released meanwhile.
FinishHoldsAlways(k, s) ==
    IF worker[s] = "queued"
    THEN Park([k EXCEPT !.held = With(@, s, s \in k.item)], s, s \in reported)
    ELSE IF s \in k.item /\ worker[s] = "busy"
    THEN Park([k EXCEPT !.held = @ \cup {s}], s, s \in k.signed)
    ELSE Done(k, s)

\* Mutant: a lost offer is never held.
FinishNeverHolds(k, s) ==
    IF worker[s] = "queued"
    THEN Park(k, s, s \in reported)
    ELSE IF s \in k.item /\ worker[s] = "busy"
    THEN Park(k, s, s \in k.signed)
    ELSE Done(k, s)

\* finish
Finish(k, s) ==
    IF worker[s] = "queued"
    THEN Park([k EXCEPT !.held = With(@, s, s \in k.item /\ s \in stamped)], s, s \in reported)
    ELSE IF s \in k.item /\ worker[s] = "busy"
    THEN Park([k EXCEPT !.held = @ \cup {s}], s, s \in k.signed)
    ELSE Done(k, s)

\* The worker is idle again, and an offer is no longer out.
Counted(s) ==
    /\ idle' = idle + 1
    /\ offers' = IF s \in q.item THEN offers - 1 ELSE offers

\* A finished check is received.
CheckDone(s) ==
    /\ loop = "select"
    /\ worker[s] \in {"queued", "busy", "other"}
    /\ Counted(s)
    /\ q' = Finish(q, s)
    /\ worker' = [worker EXCEPT ![s] = "none"]
    /\ reported' = reported \ {s}
    /\ stamped' = stamped \ {s}
    /\ busied' = With(busied, s, s \in q.item /\ worker[s] = "busy")
    /\ offered' = offered \cap q'.item
    /\ fits' = fits \ {s}
    /\ loop' = "pop"
    /\ UNCHANGED <<inUse, hosts, waking, freed, lease, asSigned, sending, mutex,
                   suiteVars, events>>

-----------------------------------------------------------------------------
(* Checks, by a worker (mutex "check") or by a client request ("client").  *)

\* A scheduler check that finds the mutex held.
CheckBusy(s) ==
    /\ worker[s] = "sent"
    /\ mutex[s] # "free"
    /\ worker' = [worker EXCEPT ![s] = "busy"]
    /\ UNCHANGED <<admissionVars, runVars, reported, mutex, suiteVars, events, ghosts>>

\* checkRecovered: a waiting item and one queued with a pending change bypass
\* the cooldown.
Bypasses(s) == s \in q.item \/ s \in q.bypass

\* The cooldown of an earlier check turns the check away, or a read fails.
\* Time is not modelled: the cooldown of a suite checked before may or may not
\* be over.
CheckSkipped(s) ==
    /\ worker[s] = "sent"
    /\ mutex[s] = "free"
    /\ \/ class[s] # 1 /\ ~Bypasses(s) /\ UNCHANGED events
       \/ Spend("fault", s)
    /\ worker' = [worker EXCEPT ![s] = "other"]
    /\ UNCHANGED <<admissionVars, runVars, reported, mutex, suiteVars, ghosts>>

CheckStarts(s) ==
    /\ worker[s] = "sent"
    /\ mutex[s] = "free"
    /\ worker' = [worker EXCEPT ![s] = "checking"]
    /\ mutex' = [mutex EXCEPT ![s] = "check"]
    /\ UNCHANGED <<admissionVars, runVars, reported, suiteVars, events, ghosts>>

ClientCheckStarts(s) ==
    /\ mutex[s] = "free"
    /\ Spend("client", s)
    /\ mutex' = [mutex EXCEPT ![s] = "client"]
    /\ UNCHANGED <<admissionVars, runVars, worker, reported, suiteVars, ghosts>>

\* Which offers keep their slot when the check of s ends: one that takes a lease
\* and is no offer itself may take any slot; an offer of a signed suite, only the
\* one an unsigned waiter was offered (the last slot is reserved).
StillFit(s, m) ==
    LET isOffer == mutex[s] = "check" /\ s \in q.item
    IN  IF ~isOffer THEN IF m = "spawned" THEN {} ELSE fits
        ELSE IF m = "spawned" /\ s \in signed THEN (fits \cap signed) \ {s}
        ELSE fits \ {s}

\* The check of s ends with result res and leaves the mutex to m.
Ends(s, res, m) ==
    /\ mutex[s] \in {"check", "client"}
    /\ mutex' = [mutex EXCEPT ![s] = m]
    /\ worker' = IF mutex[s] = "check" THEN [worker EXCEPT ![s] = res] ELSE worker
    /\ reported' = With(reported, s, mutex[s] = "check" /\ res = "queued" /\ s \in signed)
    /\ fits' = StillFit(s, m)
    /\ UNCHANGED <<runVars, content, signed, offered, busied>>

\* last_check_at is written; its order matters only to a bound that can cut.
Checked(s) ==
    byCheck' = IF MaxSuites \in {0, Cardinality(Suites)} THEN byCheck
               ELSE Append(SelectSeq(byCheck, LAMBDA t : t # s), s)

Answered(s) ==
    /\ class' = [class EXCEPT ![s] = 0]
    /\ Checked(s)
    /\ UNCHANGED events

\* Upstream could not be asked (failCheck).
CheckFails(s) ==
    /\ Ends(s, "other", "free")
    /\ Spend("fault", s)
    /\ class' = [class EXCEPT ![s] = 2]
    /\ Checked(s)
    /\ UNCHANGED <<admissionVars, seen, recorded>>

\* Upstream serves the current content: a 200 clears the failure record too, a
\* 304 does not.  What is damaged is repaired if there is a slot for it
\* (planRepair), and left for a later check if not.
CheckUnchanged(s) ==
    /\ content[s] # "changed"
    /\ Answered(s)
    /\ seen' = seen \ {s} /\ recorded' \in {recorded, recorded \ {s}}
    /\ IF content[s] = "damaged" /\ CanAcquire(s, s \in signed)
       THEN Ends(s, "other", "spawned") /\ Acquire(s, s \in signed)
       ELSE Ends(s, "other", "free") /\ UNCHANGED admissionVars

\* Upstream changed, and the failure record says not to try yet.
CheckDeferred(s) ==
    /\ content[s] = "changed"
    /\ s \in recorded
    /\ Answered(s)
    /\ Ends(s, "other", "free")
    /\ seen' = seen \cup {s}
    /\ UNCHANGED <<admissionVars, recorded>>

\* Upstream changed: the adoption is spawned if admit finds a slot, and queued
\* if not.
CheckChanged(s) ==
    /\ content[s] = "changed"
    /\ Answered(s)
    /\ seen' = seen \cup {s}
    /\ IF CanAcquire(s, s \in signed)
       THEN Ends(s, "other", "spawned") /\ Acquire(s, s \in signed)
       ELSE Ends(s, "queued", "free") /\ UNCHANGED admissionVars
    /\ UNCHANGED recorded

-----------------------------------------------------------------------------
(* The goroutine of an adoption or a repair.                               *)

\* membersDone gives the host slot back early.
MembersDone(s) ==
    /\ mutex[s] = "spawned" /\ content[s] = "changed"
    /\ ReleaseHost(s)
    /\ offered' = {}
    /\ UNCHANGED <<runVars, worker, reported, mutex, suiteVars, events, fits, busied>>

SendWake(s) ==
    /\ Wake(s)
    /\ UNCHANGED <<runVars, worker, reported, mutex, suiteVars, events, ghosts>>

\* The flip committed, perhaps without a member that a repair adds later, then
\* the deferred lease release.
AdoptionSucceeds(s) ==
    /\ mutex[s] = "spawned" /\ content[s] = "changed" /\ lease[s] = "global"
    /\ \/ content' = [content EXCEPT ![s] = "same"] /\ UNCHANGED events
       \/ content' = [content EXCEPT ![s] = "damaged"] /\ Spend("fault", s)
    /\ signed' = With(signed, s, s \notin Unsigned)
    /\ seen' = seen \ {s} /\ recorded' = recorded \ {s}
    /\ Release(s)
    /\ offered' = {}
    /\ UNCHANGED <<runVars, worker, reported, mutex, class, byCheck, fits, busied>>

\* recordAdoptionFailure, whose write may itself fail, then the release.
AdoptionFails(s) ==
    /\ mutex[s] = "spawned" /\ content[s] = "changed"
    /\ Spend("fault", s)
    /\ recorded' \in {recorded, recorded \cup {s}}
    /\ Release(s)
    /\ offered' = {}
    /\ UNCHANGED <<runVars, worker, reported, mutex, class, content, seen, signed,
                   byCheck, fits, busied>>

RepairEnds(s) ==
    /\ mutex[s] = "spawned" /\ content[s] = "damaged"
    /\ \/ content' = [content EXCEPT ![s] = "same"] /\ UNCHANGED events
       \/ Spend("fault", s) /\ UNCHANGED content
    /\ Release(s)
    /\ offered' = {}
    /\ UNCHANGED <<runVars, worker, reported, mutex, class, seen, recorded, signed,
                   byCheck, fits, busied>>

\* Reconcile, on an operator's request: a suite with a current snapshot, whose
\* mutex and slot are free; a snapshot that cannot be read counts as unsigned.
Reconcile(s) ==
    /\ mutex[s] = "free"
    /\ content[s] # "changed" \/ s \in signed
    /\ Spend("reconcile", s)
    /\ \E asIf \in {s \in signed, FALSE} : Acquire(s, asIf)
    /\ mutex' = [mutex EXCEPT ![s] = "reconcile"]
    /\ fits' = {}
    /\ UNCHANGED <<runVars, worker, reported, suiteVars, offered, busied>>

\* ReconcileSnapshot adds the missing members, or fails and says so in the log.
ReconcileEnds(s) ==
    /\ mutex[s] = "reconcile"
    /\ content' \in {content, [content EXCEPT ![s] = IF @ = "damaged" THEN "same" ELSE @]}
    /\ Release(s)
    /\ offered' = {}
    /\ UNCHANGED <<runVars, worker, reported, mutex, class, seen, recorded, signed,
                   byCheck, events, fits, busied>>

\* The deferred Unlock, after the release and its wake.
Unlock(s) ==
    /\ mutex[s] \in {"spawned", "reconcile"} /\ lease[s] = "none" /\ s \notin waking
    /\ mutex' = [mutex EXCEPT ![s] = "free"]
    /\ UNCHANGED <<admissionVars, runVars, worker, reported, suiteVars, events, ghosts>>

-----------------------------------------------------------------------------
\* Upstream publishes, or goes back to what the current snapshot holds (some of
\* its members perhaps missing still); a change during an adoption shows once
\* that ended.
Publish(s) ==
    /\ mutex[s] # "spawned"
    /\ Spend("publish", s)
    /\ \/ content[s] # "changed" /\ content' = [content EXCEPT ![s] = "changed"]
       \/ /\ content[s] = "changed" /\ s \in signed
          /\ \E c \in {"same", "damaged"} : content' = [content EXCEPT ![s] = c]
    /\ UNCHANGED <<admissionVars, runVars, worker, reported, mutex, class, seen,
                   recorded, signed, byCheck, ghosts>>

WorkerStep(s) == CheckBusy(s) \/ CheckSkipped(s) \/ CheckStarts(s)

CheckEnds(s) ==
    \/ CheckFails(s) \/ CheckUnchanged(s) \/ CheckDeferred(s) \/ CheckChanged(s)

AdoptionStep(s) ==
    \/ MembersDone(s) \/ SendWake(s) \/ AdoptionSucceeds(s) \/ AdoptionFails(s)
    \/ RepairEnds(s) \/ ReconcileEnds(s) \/ Unlock(s)

Next ==
    \/ Pop \/ Send \/ TickFails \/ Freed
    \/ \E due \in SUBSET Suites : Tick(due)
    \/ \E s \in Suites :
         \/ CheckDone(s) \/ WorkerStep(s) \/ CheckEnds(s) \/ AdoptionStep(s)
         \/ ClientCheckStarts(s) \/ Reconcile(s) \/ Publish(s)

Spec == Init /\ [][Next]_vars

\* The goroutines run on; select takes each of its cases again and again; and
\* every suite is due again and again at a tick that has room for it, since it
\* goes stale, the backoff of its failing checks ends, clients keep asking for it
\* until it is adopted, and the suites that are checked meanwhile come after it.
Fairness ==
    /\ WF_vars(Pop) /\ WF_vars(Send) /\ SF_vars(Freed)
    /\ SF_vars(\E due \in SUBSET Suites : Tick(due))
    /\ \A s \in Suites :
         /\ SF_vars(\E due \in SUBSET Suites : s \in BoundDue(due) /\ Tick(due))
         /\ SF_vars(CheckDone(s)) /\ WF_vars(WorkerStep(s))
         /\ WF_vars(CheckEnds(s)) /\ WF_vars(AdoptionStep(s))

LiveSpec == Spec /\ Fairness

-----------------------------------------------------------------------------
InFlight == {s \in Suites : worker[s] # "none"} \cup ({sending} \ {0})

ListsOf(h) == {q.waiting[h]} \cup {q.class[h][c] : c \in Classes}

\* Types of the composition, with at most Workers checks and offers out.
TypeOK ==
    /\ AdmissionTypeOK
    /\ loop \in {"pop", "send", "select"}
    /\ sending \in Suites \cup {0}
    /\ idle \in 0 .. Workers /\ offers \in 0 .. Workers
    /\ worker \in [Suites -> {"none", "sent", "checking", "queued", "busy", "other"}]
    /\ mutex \in [Suites -> {"free", "check", "client", "spawned", "reconcile"}]
    /\ \A set \in {q.queued, q.pending, q.item, q.signed, q.held, q.bypass, reported,
                   seen, recorded, signed, offered, fits, busied} : set \subseteq Suites
    /\ \A h \in Hosts : \A l \in ListsOf(h) : IsInjective(l) /\ ToSet(l) \subseteq Suites
    /\ class \in [Suites -> Classes] /\ content \in [Suites -> {"same", "changed", "damaged"}]
    /\ IsInjective(byCheck) /\ ToSet(byCheck) = Suites
    /\ events \in 0 .. MaxEvents

\* The invariants the comment on schedQueues lists: a key is queued iff its suite
\* sits in one list or its check is in flight, never two of them; a host is in the
\* ring, once, iff it has a suite or a check in flight; one check per host; and the
\* turn points into the ring.
QueuesConsistent ==
    /\ \A s \in Suites :
         /\ Cardinality({c \in Classes : Contains(q.class[HostOf[s]][c], s)})
              + (IF s \in InLists(q) THEN 1 ELSE 0) + (IF s \in InFlight THEN 1 ELSE 0)
              = IF s \in q.queued THEN 1 ELSE 0
         /\ s \in InLists(q) => s \in q.item
    /\ IsInjective(q.order)
    /\ ToSet(q.order) = {HostOf[s] : s \in q.queued}
    /\ q.next < Len(q.order) \/ q.next = 0
    /\ q.inFlight = {HostOf[s] : s \in InFlight}
    /\ \A s, t \in InFlight : HostOf[s] = HostOf[t] => s = t

\* "no offer is dispatched that cannot succeed given those in flight" (Run): an
\* offered suite finds its slot, whatever offers are out beside it, unless a check
\* that is no offer took a slot since, or a signed offer the one that an unsigned
\* suite was offered.
OfferFits == \A s \in fits : CanAcquire(s, s \in signed)

\* max_suites bounds what is queued, waiting or in flight (boundDue).
QueueBound == MaxSuites > 0 => Cardinality(q.queued) <= MaxSuites

\* "lost or busy offers in a row never invert the order" (park, B-46): a host's
\* waiters stand in the order in which they became waiting.
OldestFirst ==
    \A h \in Hosts : \A i, j \in DOMAIN q.waiting[h] :
      i < j => \E m, n \in DOMAIN q.since :
                 m < n /\ q.since[m] = q.waiting[h][i] /\ q.since[n] = q.waiting[h][j]

\* "Admission is therefore work-conserving" (Run): at rest, with no wake on its
\* way, no slot is free for a waiter, but for one whose offer found its suite
\* busy, which waits for the tick.
WorkConserving ==
    loop = "select" /\ InFlight = {} /\ ~freed /\ waking = {} =>
      \A s \in InLists(q) \ busied : ~CanAcquire(s, s \in q.signed)

\* "no suite is re-offered in a loop" (schedQueues): between two offers of a suite
\* a slot was released, a wake was received or a tick passed.
NoOfferLoop ==
    [][\A s \in Suites : sending = 0 /\ sending' = s /\ s \in q.item => s \notin offered]_vars

\* A change that a check could not adopt is adopted, refused or found gone in the
\* end, whoever holds the slots now: no wake is lost for good, no suite stays
\* held or queued forever.
PendingAdmitted ==
    \A s \in Suites : s \in Pending /\ mutex[s] = "free" ~> s \notin Pending

\* "pending holds the keys of queued suites a later tick found with a pending
\* change" (scheduler.go:181), so that "a suite already queued as stale that a client
\* check then leaves with a pending change bypasses the cooldown at its turn"
\* (sched_e_test.go:82): after a tick, every suite in a class queue that has a
\* pending change is marked.
QueuedPendingMarked ==
    [][\A due \in SUBSET Suites : Tick(due) =>
         \A s \in (q.queued \cap Pending \cap due) \ (InFlight \cup q.item) :
           s \in q'.pending \cup q'.bypass]_vars
=============================================================================
