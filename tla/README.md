# apt-cacher-ultra: a TLA+ verification project

apt-cacher-ultra is a caching proxy for Debian repositories written in Go. It
serves packages and index files from a content-addressed pool, keeps a consistent
*snapshot* of each suite's signed metadata, checks suites for freshness in the
background, and collects what nothing refers to. This directory holds TLA+ models
of its concurrent and persistent core, TLC configurations that check them on small
instances, and TLAPS proofs of the properties that matter most.

Every definition is translated from the Go source; `PROJECT.json` maps each to the
lines it stands for, and lists the components, the runs, the mutants (a plausible
bug per property, which the property must catch), the hazards and the theorems.

    cd tla
    tlc -workers 2 -config MCFlipGate.cfg MCFlipGate     # a run
    tlapm --threads 4 SnapshotStoreProofs.tla            # a proof

## 1. The system and its parts

Paths are under `src/internal/`.

| Part | State | Operations | What makes it hard |
|---|---|---|---|
| suite locks (`freshness/suite_lock.go`, `freshness.go`) | a map from suite key to mutex; entries come and go with suite rows | check, reconcile, hold-and-delete (eviction, reaper, forget), busy peek | pointers to a dropped mutex, a row deleted and re-created between read and lock, a delete whose outcome is unknown |
| snapshot and blob database (`cache/adoption.go`, `gc.go`, `gc_urlpath.go`, `suite_*.go`, `legacy_audit.go`) | suites, snapshots, members, blobs with reference count and grace clock, url_path rows | candidate, member, commit, heartbeat, abandon, retire, url_path upsert and delete, collection passes, suite deletion, quarantine | counts that must agree with references through every order of transactions; chunks of one deletion interleaved with everything else |
| blob pool (`cache/pool.go`, `gc/blob.go`, `gc/gc.go`, `integrity/integrity.go`, handler and adopter) | files `pool/<hash>` next to the rows | download, finalize, record, reuse, unlink, scan, discard, startup scan | file and row are not one transaction; crash between them; decay on disk |
| per-host semaphore (`hostsem`) | a map of reference-counted token channels | acquire, cancel, release | deleting an entry others still wait on |
| request coalescing (`handler/singleflight.go`) | one call per key | lead, join, finish, panic | results read after the entry is gone |
| adoption admission (`freshness/admission.go`) | global slots, one slot per host | try, early host release, release, wake | a slot leaked or freed twice; the reserved slot |
| freshness scheduler (`freshness/scheduler.go`) | priority queues, pending marks, a ring of parked suites, worker counters | tick, pop, send, wake, offer, park, finish | lost wakes, starvation, offer loops, a bound on distinct suites |
| freshness checks, retry records (`freshness/check.go`, `retry.go`) | validators, stamps, failure records | check, fail, pace | clock steps, an answer that ages |
| adoption pipeline (`freshness/adoption.go`) | candidate, member fetches, heartbeat | fetch, verify, reuse, commit | liveness of the heartbeat, retries |
| flip barrier (`flipgate/gate.go`, `freshness/flip_barrier.go`) | per-suite in-flight anchors, one hold token, quiet periods | flip (phase A, token, phase B, commit), anchor start and done, purge, sweep, close | timers racing completions, commit and expiry; clients between an anchor and its index files |
| in-flight adoption wait (`freshness/inflight.go`) | adoptions by suite | begin, end, wait | a miss that waits for an adoption that ends |
| suite rows, caps, markers (`cache/suite_rows.go`, `suite_evict.go`, `suite_reap.go`, `signed_seen.go`, `marker_sweep.go`) | suite rows, budgets, signed-seen markers | create, evict, reap, forget, sweep | a marker lost between a deletion and a re-creation |
| garbage collector (`gc/gc.go`) | tick cursor | passes, deadline, resume | a pass cut off, a panic, a restart |
| writer queue (`cache/cache.go`) | one writer goroutine and its channel | submit, write, drain, close | a submitter that leaves, shutdown with a full queue |
| request handler (`handler/handler.go`) | per-request | hit, miss, validation, stale serving | the pointer moving under a request |
| upstream fetch, CONNECT and TLS interception, certificates | connections, tunnel registry, leaf cache | fetch, resume, tunnel, issue, reload | mostly I/O |
| verification, version comparison, parsing, configuration, administration, start-up | none or read-only | - | data conversion and wiring |

How they interact: a client request passes the handler, which serves from the
current snapshot or the url_path rows, or fetches through request coalescing and
the per-host semaphore into the pool. The scheduler and client requests run
checks under the suite's lock. A check that finds a change takes a lease from
admission and hands the lock to an adoption, which fetches members into the pool,
builds a candidate in the database, and passes the flip barrier to commit it. The
displaced snapshot is retired and collected, and with it the blobs and files that
nothing names. Caps, reaper and operators delete suites under the same locks.

## 2. Modules

| Module | Models | Checked by | Proved in |
|---|---|---|---|
| `SuiteLock` | suite locks | `suite_lock`, `suite_lock_leak` | `SuiteLockProofs` |
| `SnapshotStore` | snapshot and blob database | `store`, `store_collection` | `SnapshotStoreLemmas`, `SnapshotStoreProofs` |
| `BlobPool` | blob pool files | `blob_pool`, `blob_pool_unlink` | `BlobPoolProofs` |
| `Semaphore` | what the per-host semaphore promises (abstract) | `host_sem` | |
| `HostSem` | per-host semaphore, implements `Semaphore` | `host_sem` | `HostSemProofs` |
| `SingleFlight` | request coalescing | `single_flight` | `SingleFlightProofs` |
| `Admission` | adoption admission | `scheduler_live` | `AdmissionProofs` |
| `SchedQueues` | the scheduler's queues as pure operators | `scheduler` | |
| `Scheduler` | the scheduler's loop, workers, client checks and adoptions, composed with `Admission` and `SchedQueues` | `scheduler`, `scheduler_live`, `scheduler_mark` | |
| `FlipGate` | flip barrier and the clients it protects | `flip_gate` | |

`MC*` modules add only symmetry sets and constant functions for TLC.

**SuiteLock** follows one suite key. A process runs a check, a reconcile or a hold;
its program counter stops at each place where the code releases the map's
lock or reads the database. `Mutexes` are the objects an allocation may return;
`locks` is the map's entry and `owner` who locked which object. A deleter's
transaction may commit after its submitter gave up, so `writer` holds it apart. A
hold stands for forget, eviction and the reaper; the reaper's own comparison with the
snapshot it listed ends in a hold that deletes nothing.

**SnapshotStore** makes each writer transaction one action, since the writer
goroutine runs one at a time and SQLite makes it atomic. A grace clock is "null",
"young" or "old"; a candidate's heartbeat is fresh or not. A collection pass is one
action per batch or chunk, as in the code. `released` is a ghost that counts the
decrements of url_path deletions, which the code takes from the same counter that
snapshot members move; the counter may be negative, as the code's may. A snapshot
has one of the three anchor forms, which with its suite and anchor hash is its natural
key, and a commit writes the url_path row of every file of the form (`InRelease`;
`Release` and `Release.gpg`; `Release`), whereas a forget deletes whichever are there.

**BlobPool** follows one content hash. A writer's steps are download, look, hash,
rename, record; the collector commits the row's deletion and removes the file
in a second step; a crash loses every process's place and keeps file and row. Every
step that can fail has an action for it, the startup scan included. `listed` says that
a current snapshot relies on the hash, as a member or through its package index, which
is what the scanner's list and the property `Heals` go by. `Age` lets the grace pass
only outside the window from `PutBlob` to the reference: that heartbeats and write
budgets are shorter than the grace is assumed here; a timed model of it is planned (section 6).

**HostSem** makes each access under `Sem.mu` and each channel operation a step.
**SingleFlight** does the same for `sfGroup.Do`, with the deferred function of a
panicking leader.

**Scheduler** follows the `Run` goroutine through dispatch ("pop"), hand-over to a
worker ("send") and its select. `class`, `seen`, `recorded`, `signed` and `byCheck`
are the persisted columns it orders suites by; `content` is what upstream has.
Workers, client checks, operator reconciles and adoptions hold `mutex` and leases as
the code does; a reconcile takes its slot without an offer. A tick's reading of the
suite list and its enqueueing are one step, which loses nothing: only `Run` touches the
queues. The ghost `fits` holds the suites with an offer out that nothing but another
offer can have disturbed.

**FlipGate** is in discrete time. An instant is kept as its age, which saturates
where the code's comparisons stop telling ages apart. A goroutine that can go on does
so before time passes; a commit and a download take as long as they like. Between a
flip's last wait and its commit the gate may close (`StartCommit`). The
ghost `got` records which client holds an anchor whose index files it has yet to
fetch, which it does within the quiet period once none of its requests is held.

## 3. Runs

Bounds are chosen so that the case each property is about occurs; the mutants
confirm that it does.

| Run | Question | Bounds |
|---|---|---|
| `suite_lock` | Is at most one validated holder at work, does the row stay as read under the lock, does a leaked entry have a known cause, and does no suite inherit an earlier row's memo? | three goroutines (a holder, a deleter and a late one holding an old pointer), four mutex objects, one adoption |
| `suite_lock_leak` | (violation) Does an entry outlive its row only after a read error or while a caller unwinds? | the same |
| `store` | Do counts, clocks, current pointers and served members stay right over every order of transactions? | two suites sharing two blobs, inline snapshots with two ids, one charged url_path deletion per blob |
| `store_collection` | Does every reference resolve; are unreachable blobs and retired snapshots collected? | one suite, detached and unsigned snapshots, one signature blob, two ids |
| `host_sem` | Is the limit kept, does the map implement one semaphore, is a waiter served? | four callers, limit two, three slot objects |
| `single_flight` | Do requests coalesce, is the result stable, does every joiner return? | three callers, three call objects, one result or a panic |
| `blob_pool` | Does an orphan file have a cause, is reuse verified, does what a snapshot relies on heal? | one request and two adopters, with failures and a crash at any point |
| `blob_pool_unlink` | (violation) Does collection leave the file of a named blob alone? | one adopter |
| `scheduler` | Do queues and ring agree; is order kept; do offers out at once all fit; no free slot with a waiter at rest? | three suites on two hosts, bound two, two of them unsigned and one perhaps adopted before, two slots, two workers, one reconcile |
| `scheduler_live` | Does the bound on suites hold, are slots exact, is the reserved slot kept, is no suite offered in a loop, and is a pending change settled? | two suites, bound one, two slots, two workers, two events among publishes, client checks, a reconcile and a fault |
| `scheduler_mark` | (violation) Is a suite that is queued when a client check leaves it pending marked at the next tick? | two suites, bound two |
| `flip_gate` | Is no client caught by a clean flip; does a hold reach its bound only in its commit; is the token kept; does no flip oversleep; is no used entry dropped? | two suites, two clients, one waiter per hold, quiet 1, hold 2, margin 1, phase A 2, token wait 1, anchor timeout 3 |

Two suites are enough in `store` for sharing a blob and for one suite's deletion
under the other's adoption; ids are never reused, so two ids per run already give a
displaced and a current snapshot. No run has package paths (`Pkgs` is empty): the
rows a commit writes for prefetched packages are covered by the proofs, which hold for
any `Pkgs`, and not by TLC. In `flip_gate` two suites give the queue for the
token, the cross-suite quiet period and the client blocked behind another suite's
hold; the durations keep the order of the production constants that the code's
comments rely on (quiet <= hold - margin, hold < anchor timeout), which the module
assumes. In `scheduler` two slots and two workers let two offers be out at once, one
signed and one not; in `scheduler_live` client checks keep suites busy, so that offers
are lost. `store` and `store_collection` do not check deadlock: ids run out.

### What the violation runs show

* `suite_lock_leak`: `freshness.go:237` says that a lock entry outlives its row only
  while a caller unwinds or after a read error. `lockSuite` stores the entry before
  `TryLock` and leaves it there when the mutex is busy, possibly with no more than
  another caller's busy peek, which drops nothing. The cost is one mutex per race.
* `blob_pool_unlink`: `legacy_audit.go:118` says that collection never deletes a blob
  with a positive count. The row is safe; the file is removed after the COMMIT
  without a second look, so a request or an adoption that reuses it in between loses
  it.
* `scheduler_mark`: with the suite bound on, as every valid configuration has it
  (`config.go:1039` wants at least 10), `tick` drops already queued suites in
  `boundDue` before `enqueue` can mark their pending change, which
  `sched_e_test.go:82` expects; the suite is then paced by the client's check.

### Fairness

* `store_collection`: weak fairness of the blob batch for each blob and of the chunk
  for each retired snapshot: the collector's passes are periodic and take what is
  due, and a retired snapshot does not return.
* `host_sem`: weak fairness of the steps a caller takes once it has its token, which
  need nobody else; strong fairness of the channel send, since Go serves blocked
  senders in order.
* `single_flight`: weak fairness of a leader's finish (fetches have timeouts), of the
  steps that follow it, and of the wake of a joiner.
* `blob_pool`: weak fairness of the scanner's steps: its passes recur on a ticker and
  run to their end. The rest is in `Heals` itself as a premise: that the daemon stays
  up, that passes that meet bad bytes come to remove them, that requests for the content go
  on being fetched, and, for the last part, that decay ends.
* `scheduler_live`: weak fairness of the loop's and the workers' own steps, of a check
  and an adoption ending (both have deadlines); strong fairness of the branches of the
  loop's `select`, because Go chooses among ready ones at random; ticks recur, and a
  tick that finds a suite due and within the bound recurs for it as time makes it due.

`flip_gate` states no liveness: that a flip ends is there as `NoOversleep`,
`TokenNotLost` and `ExpiryOnlyDuringCommit`, each of which holds at every instant.

## 4. Proofs

TLAPS proves the following for every value of the constants, from the named
assumptions in the modules (finite sets of suites and callers, natural bounds, the
null value outside the sets it is added to).

* **SuiteLockProofs**: `TypeCorrect`, `MutualExclusionHolds`. The invariant adds two
  facts to the types: a process past its lock owns the mutex it points at (`Held`),
  and a process that passed re-validation points at the mutex that is in the map
  (`InMap`). Mutual exclusion follows: two such processes would own one mutex.
  `InMap` needs that only the validated holder drops the entry.
* **SnapshotStoreProofs**: `StoreTypeCorrect`, `RefcountIsExact`,
  `ClockMatchesRefcount`, `NoDanglingReference`, `CurrentSnapshotIsLive`,
  `PositiveCountIsServed`. They need each other: the exact count of a commit rests on
  the candidate being live and not current, a batch deletes no referenced blob because
  the count is exact, and a positive count means served because deletions only lower
  it. `Recount` says how the number of current snapshots that contain a blob changes
  when one suite's pointer moves; each transaction has a lemma of its own. `SnapshotStoreLemmas`
  holds the counting and the transactions that move no pin.
* **HostSemProofs**: `HostLimitHolds`, `EntryIsReferenced`, `SemImplementsSemaphore`.
  The invariant says that a slot's token count is the number of its holders and that
  every active caller refers to the slot in the map (`Counted`), so slot objects that
  are not in the map are empty. The refinement maps the semaphore's holders to the
  callers that hold a token and its free tokens to what `Snapshot` reads off the entry,
  the limit less the channel's tokens or all of it when there is no entry: that the two
  move together is what has to be proved.
* **SingleFlightProofs**: `FetchesCoalesce`, `LeaderDeletesOwnEntry`, `ResultIsSet`,
  `ResultStaysShared`, from the fact that an unfinished call is in the map and belongs
  to the one process that leads it.
* **BlobPoolProofs**: `OrphansHaveCauses`, `ReuseIsVerified`; the strengthening
  says what an adopter that has looked at the file knows of it.
* **AdmissionProofs**: `SlotsAreExact`, `ReservedSlotWorks`, `PeekIsRight`. The
  cardinality of the leases moves with `inUse` (`LeasedGrows`, `LeasedShrinks`); the
  theorems are about the pool by itself, under any order of its operations.

Only model-checked: liveness (outside the prover's reach), the scheduler and its
queues, the flip barrier, `RowStableUnderLock`, `LeakHasCause`, `MemoNotInherited`,
`ServedMembersNeverShrink`, `NeverRepromoted`. Only proved: the types of the lock map,
the semaphore and request coalescing, `PositiveMeansServed`, `DeletesOwnEntry`,
`DoneHasResult` and `PeekAgrees`, which the proofs of the others rest on or which
follow from them.

## 5. What is not modelled

* Parsing, formatting, configuration, metrics and logs: data conversion or read-only.
* Upstream connections, TLS, signature verification: external services. A fetch
  succeeds with some content or fails; a signature is good or not.
* Wall-clock values other than in the flip barrier: they are abstracted to the
  outcome of the comparison the code makes.
* In the database: `package_hash` rows, the second scheme and the `/.` twin of a
  suite's anchor rows, which suites share a base (a forget may or may not find another),
  the hold-grace of retired snapshots as a duration, marker rows and budgets.
* In the flip barrier: statistics, the skip of the barrier by a first adoption whose
  anchor is unchanged, and the end of a flip's context, which comes after `Close`.

## 6. Plan

Modules to come, in order, and what each is for:

1. `SuiteRows`: rows, caps, budgets, eviction, reaping, forgetting and signed-seen
   markers (a marker survives until nothing may rely on it), composed with the locks;
   the rows of suites without an anchor.
2. `MissPath`: the handler's hit and miss paths with request coalescing, the per-host
   semaphore and the in-flight adoption wait; a miss that waited sees the adoption.
3. `Heartbeat`: adoption heartbeat against the stale grace in time (no live adoption
   is abandoned while 2 * heartbeat < grace); the member fan-out and its retries.
4. `AdoptionHistory`: adoption stamps under a clock that steps back, and the ranking
   that keeps displaced snapshots.
5. `WriterQueue` and `GCTick`: the writer's channel with departing submitters and
   close; the collector's tick with its deadline, resume, panic and restart.
6. `CheckRecords`: forms, validators, failure records and pacing of a check.
7. Tunnel registry, leaf cache, certificate reload; version comparison as a pure
   algorithm against a reference order.

Theorems to come: the flip barrier's `TokenNotLost` and `ExpiryOnlyDuringCommit`, the
store's `NeverRepromoted` and `ServedMembersNeverShrink`, the scheduler's slot
accounting in composition with admission.
