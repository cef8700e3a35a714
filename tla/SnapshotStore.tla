--------------------------- MODULE SnapshotStore ---------------------------
(***************************************************************************)
(* The cache database: suites, snapshots, members, blobs and url_path      *)
(* rows, and every writer transaction that moves a blob's reference count  *)
(* or its grace clock.  The writer goroutine runs one transaction at a     *)
(* time, so each transaction is one action, and one that rolls back is no  *)
(* step at all.  Callers (requests, adoptions, garbage collection, the     *)
(* startup audit, operators) interleave between transactions.              *)
(*                                                                         *)
(* A blob is a content hash.  Time is abstracted to what the transactions  *)
(* compare it with: a grace clock is "null", "young" or "old" (older than  *)
(* gc.blob_grace), and a candidate's heartbeat is fresh or not.            *)
(***************************************************************************)
EXTENDS Integers, FiniteSets

CONSTANTS Suites,      \* suite keys
          Pkgs,        \* the url_path keys of packages
          Forms,       \* the anchor forms snapshots have
          Blobs,       \* content hashes
          Sigs,        \* the blobs that serve as a Release.gpg
          None,        \* SQL NULL, and "no such row" for a url_path
          MaxId,       \* bound: snapshot ids handed out
          MaxReleased  \* bound: url_path deletions charged to one blob

ASSUME ConstantsAssumption ==
    /\ IsFiniteSet(Suites) /\ IsFiniteSet(Pkgs) /\ Sigs \subseteq Blobs
    /\ Forms \subseteq {"inline", "detached", "unsigned"}
    /\ None \notin Suites /\ None \notin Blobs
    /\ MaxId \in Nat /\ MaxReleased \in Nat

VARIABLES tracked,    \* suites with a suite_freshness row
          current,    \* [Suites -> id]: current_snapshot_id, 0 for NULL or no row
          nextId,     \* the next AUTOINCREMENT snapshot_id
          suiteOf,    \* [Ids -> suite], None when the header row is absent
          form,       \* [Ids -> form]: anchor_form
          key,        \* [Ids -> blob]: release_hash if detached, else inrelease_hash
          gpg,        \* [Ids -> blob]: release_gpg_hash (detached form)
          adopted,    \* ids with adopted_at set
          retired,    \* ids with retired_at set
          live,       \* candidates whose heartbeat_at is within the stale grace
          members,    \* [Ids -> set of blobs named by snapshot_member rows]
          queue,      \* legacy_trust_audit
          blobs,      \* blobs with a row
          refcount, zeroed, \* the row's refcount and refcount_zeroed_at
          url,        \* [Paths -> blob]: url_path rows
          released    \* ghost: decrements made by url_path deletions

suiteVars == <<tracked, current>>
snapVars == <<nextId, suiteOf, form, key, gpg, adopted, retired, live, members, queue>>
blobVars == <<blobs, refcount, zeroed, released>>
vars == <<suiteVars, snapVars, blobVars, url>>

Ids == 1..MaxId

\* The files a suite of form f is anchored by.
AnchorPaths(f) ==
    CASE f = "inline"   -> {"InRelease"}
      [] f = "detached" -> {"Release", "Release.gpg"}
      [] OTHER          -> {"Release"}

Anchors == {a \in {"InRelease", "Release", "Release.gpg"} :
              \E f \in Forms : a \in AnchorPaths(f)}

Paths == (Suites \X Anchors) \cup Pkgs
Snapshots == {i \in Ids : suiteOf[i] # None}
Currents == {current[s] : s \in tracked}

-----------------------------------------------------------------------------
(* Reference counts.  d[b] is how many references of b a transaction       *)
(* drops; Once(S) is one for each blob of S.                               *)

Once(S) == [b \in Blobs |-> IF b \in S THEN 1 ELSE 0]
NoDrop == Once({})

\* How many of the url_path rows P name each blob, and the table without P.
RowsNaming(P) == [b \in Blobs |-> Cardinality({p \in P : url[p] = b})]
Without(P) == [p \in Paths |-> IF p \in P THEN None ELSE url[p]]

\* The url_path table u with the anchor rows of a snapshot of s: of form f,
\* anchored by k, with the detached signature g.
Seeded(s, f, k, g, u) ==
    [p \in Paths |-> IF p \in {s} \X AnchorPaths(f)
                     THEN IF p = <<s, "Release.gpg">> THEN g ELSE k
                     ELSE u[p]]

\* The release_gpg_hash of a candidate of form f.
Signatures(f) == IF f = "detached" THEN Sigs ELSE {None}

BumpN(n, S) == [b \in Blobs |-> IF b \in S THEN n[b] + 1 ELSE n[b]]

\* Mutant: the bump leaves the grace clock running.
BumpZKeepsClock(n, z, S) == z

BumpZ(n, z, S) ==
    [b \in Blobs |-> IF b \in S /\ n[b] + 1 > 0 THEN "null" ELSE z[b]]

DropN(n, d) == [b \in Blobs |-> n[b] - d[b]]

DropZ(n, z, d) ==
    [b \in Blobs |-> IF d[b] > 0 /\ z[b] = "null" /\ n[b] - d[b] <= 0
                     THEN "young" ELSE z[b]]

\* Deleting url_path rows charges d to their blobs; the ghost remembers it.
Charge(d) ==
    /\ \A b \in Blobs : released[b] + d[b] <= MaxReleased
    /\ released' = [b \in Blobs |-> released[b] + d[b]]

\* The blobs a current snapshot of s pins (decrementSnapshotRefcountsTx).
PinnedMembers(s) == IF current[s] = 0 THEN {} ELSE members[current[s]]

Retire(s) == {i \in Snapshots : suiteOf[i] = s}

-----------------------------------------------------------------------------
(* An empty database, or one just migrated to schema v7: one suite with an *)
(* adopted snapshot, current or displaced, queued for the legacy audit.    *)

InitEmpty ==
    /\ tracked = {} /\ current = [s \in Suites |-> 0]
    /\ nextId = 1
    /\ suiteOf = [i \in Ids |-> None]
    /\ form = [i \in Ids |-> None]
    /\ key = [i \in Ids |-> None] /\ gpg = [i \in Ids |-> None]
    /\ adopted = {} /\ retired = {} /\ live = {} /\ queue = {}
    /\ members = [i \in Ids |-> {}]
    /\ blobs = {} /\ refcount = NoDrop /\ zeroed = [b \in Blobs |-> "null"]
    /\ url = [p \in Paths |-> None]
    /\ released = NoDrop

InitMigrated ==
    \E s \in Suites, f \in Forms \ {"unsigned"}, k \in Blobs, g \in Sigs \cup {None},
       isCurrent \in BOOLEAN :
      /\ MaxId > 0 /\ g \in Signatures(f)
      /\ tracked = {s}
      /\ current = [t \in Suites |-> IF t = s /\ isCurrent THEN 1 ELSE 0]
      /\ nextId = 2
      /\ suiteOf = [i \in Ids |-> IF i = 1 THEN s ELSE None]
      /\ form = [i \in Ids |-> IF i = 1 THEN f ELSE None]
      /\ key = [i \in Ids |-> IF i = 1 THEN k ELSE None]
      /\ gpg = [i \in Ids |-> IF i = 1 THEN g ELSE None]
      /\ adopted = {1} /\ retired = {} /\ live = {} /\ queue = {1}
      /\ members = [i \in Ids |-> IF i = 1 THEN {k} ELSE {}]
      /\ blobs = {k, g} \ {None}
      /\ refcount = IF isCurrent THEN Once({k}) ELSE NoDrop
      /\ zeroed = [b \in Blobs |-> IF b \in {k, g} /\ (b # k \/ ~isCurrent)
                                    THEN "young" ELSE "null"]
      /\ url = Seeded(s, f, k, g, [p \in Paths |-> None])
      /\ released = NoDrop

Init == InitEmpty \/ InitMigrated

-----------------------------------------------------------------------------
(* Rows written for requests.                                              *)

CreateSuite(s) ==
    /\ s \notin tracked
    /\ tracked' = tracked \cup {s}
    /\ UNCHANGED <<current, snapVars, blobVars, url>>

PutBlob(b) ==
    /\ blobs' = blobs \cup {b}
    /\ zeroed' = IF refcount[b] <= 0 THEN [zeroed EXCEPT ![b] = "young"] ELSE zeroed
    /\ UNCHANGED <<suiteVars, snapVars, refcount, url, released>>

PutURLPath(p, b) ==
    /\ b \in blobs
    /\ url' = [url EXCEPT ![p] = b]
    /\ UNCHANGED <<suiteVars, snapVars, blobVars>>

\* EvictURLPath, and the deletions by hold grace, suite reaping and Forget.
DeleteURLPath(p) ==
    LET d == Once({url[p]}) IN
    /\ url[p] # None
    /\ url' = [url EXCEPT ![p] = None]
    /\ refcount' = DropN(refcount, d)
    /\ zeroed' = DropZ(refcount, zeroed, d)
    /\ Charge(d)
    /\ UNCHANGED <<suiteVars, snapVars, blobs>>

-----------------------------------------------------------------------------
(* Adoption.  A candidate header is inserted first; its members, pins and  *)
(* the suite's pointer are committed later, in one transaction.            *)

NaturalKey(s, f, k) ==
    {i \in Snapshots \ retired : suiteOf[i] = s /\ form[i] = f /\ key[i] = k}

InsertNewCandidate(s, f, k, g) ==
    /\ NaturalKey(s, f, k) = {}
    /\ nextId \in Ids
    /\ nextId' = nextId + 1
    /\ suiteOf' = [suiteOf EXCEPT ![nextId] = s]
    /\ form' = [form EXCEPT ![nextId] = f]
    /\ key' = [key EXCEPT ![nextId] = k]
    /\ gpg' = [gpg EXCEPT ![nextId] = g]
    /\ live' = live \cup {nextId}
    /\ UNCHANGED <<suiteVars, adopted, retired, members, queue, blobVars, url>>

\* A retry at the same content reuses the unadopted row.
ReuseCandidate(s, f, k, g) ==
    \E i \in NaturalKey(s, f, k) \ adopted :
      /\ gpg' = [gpg EXCEPT ![i] = g]
      /\ live' = live \cup {i}
      /\ UNCHANGED <<suiteVars, nextId, suiteOf, form, key, adopted, retired, members, queue,
                     blobVars, url>>

InsertCandidateSnapshot(s, f, k, g) ==
    /\ k \in blobs /\ g \in blobs \cup {None}
    /\ InsertNewCandidate(s, f, k, g) \/ ReuseCandidate(s, f, k, g)

HeartbeatSnapshot(i) ==
    /\ i \in Snapshots \ adopted
    /\ live' = live \cup {i}
    /\ UNCHANGED <<suiteVars, nextId, suiteOf, form, key, gpg, adopted, retired, members,
                   queue, blobVars, url>>

HeartbeatBlobs(S) ==
    /\ zeroed' = [b \in Blobs |-> IF b \in S \cap blobs /\ refcount[b] <= 0
                                  THEN "young" ELSE zeroed[b]]
    /\ UNCHANGED <<suiteVars, snapVars, blobs, refcount, url, released>>

\* The body of CommitAdoption: insert the members M, write the url_path rows of
\* the prefetched packages (warmed) and of the anchors, bump M, flip the
\* pointer, and drop the references d of the prior snapshot.
Flip(i, M, warmed, d) ==
    LET s == suiteOf[i]
        n == BumpN(refcount, M)
        z == BumpZ(refcount, zeroed, M) IN
    /\ M \subseteq blobs
    /\ members' = [members EXCEPT ![i] = M]
    /\ url' = Seeded(s, form[i], key[i], gpg[i],
                     [p \in Paths |-> IF p \in DOMAIN warmed THEN warmed[p] ELSE url[p]])
    /\ refcount' = DropN(n, d)
    /\ zeroed' = DropZ(n, z, d)
    /\ current' = [current EXCEPT ![s] = i]
    /\ adopted' = adopted \cup {i}
    /\ live' = live \ {i}
    /\ UNCHANGED <<tracked, nextId, suiteOf, form, key, gpg, retired, queue, blobs, released>>

\* Mutant: the displaced snapshot's pins are not released.
CommitAdoptionKeepsPrior(i, M, warmed) ==
    /\ i \in Snapshots \ (adopted \cup retired)
    /\ suiteOf[i] \in tracked
    /\ Flip(i, M, warmed, NoDrop)

\* Mutant: the candidate's retired_at is not tested.
CommitAdoptionOfRetired(i, M, warmed) ==
    /\ i \in Snapshots \ adopted
    /\ suiteOf[i] \in tracked
    /\ Flip(i, M, warmed, Once(PinnedMembers(suiteOf[i])))

\* Mutant: the candidate's adopted_at is not tested.
CommitAdoptionAgain(i, M, warmed) ==
    /\ i \in Snapshots \ retired
    /\ suiteOf[i] \in tracked
    /\ Flip(i, M \cup members[i], warmed, Once(PinnedMembers(suiteOf[i])))

\* CommitAdoption: a retired or adopted candidate, a member whose blob row is
\* gone (foreign key) and a suite whose row is gone roll the transaction back.
CommitAdoption(i, M, warmed) ==
    /\ i \in Snapshots \ (adopted \cup retired)
    /\ suiteOf[i] \in tracked
    /\ Flip(i, M, warmed, Once(PinnedMembers(suiteOf[i])))

\* Adds the member row of b to a snapshot that is still current, and bumps S.
InsertMember(i, b, S) ==
    /\ i \in Currents \ {0} /\ b \in blobs
    /\ refcount' = BumpN(refcount, S)
    /\ zeroed' = BumpZ(refcount, zeroed, S)
    /\ members' = [members EXCEPT ![i] = @ \cup {b}]
    /\ UNCHANGED <<suiteVars, nextId, suiteOf, form, key, gpg, adopted, retired, live, queue,
                   blobs, url, released>>

\* RepairSkippedMember and InsertReconciledMembers: the blob is pinned once per
\* snapshot, however many of its members name it.
AddMember(i, b) == InsertMember(i, b, {b} \ members[i])

-----------------------------------------------------------------------------
(* Untracking: eviction, reaping and Forget delete a suite's row; the      *)
(* startup audit quarantines a snapshot.                                   *)

\* deleteSuiteTx; anchors says whether Forget also deletes the anchor rows,
\* of whatever form, which it does when no other suite of the base is left.
DeleteSuite(s, anchors) ==
    LET d == Once(PinnedMembers(s))
        n == DropN(refcount, d)
        z == DropZ(refcount, zeroed, d)
        rows == IF anchors THEN {s} \X Anchors ELSE {}
        e == RowsNaming(rows) IN
    /\ s \in tracked
    /\ tracked' = tracked \ {s}
    /\ current' = [current EXCEPT ![s] = 0]
    /\ retired' = retired \cup Retire(s)
    /\ refcount' = DropN(n, e)
    /\ zeroed' = DropZ(n, z, e)
    /\ url' = Without(rows)
    /\ Charge(e)
    /\ UNCHANGED <<nextId, suiteOf, form, key, gpg, adopted, live, members, queue, blobs>>

\* The audit quarantines i: it stops being current, its pins are released if
\* it was, and with drop every url_path row of its InRelease blob is deleted.
Quarantine(i, drop) ==
    LET d == Once(IF i \in Currents THEN members[i] ELSE {})
        n == DropN(refcount, d)
        z == DropZ(refcount, zeroed, d)
        rows == {p \in Paths : drop /\ form[i] # "detached" /\ url[p] = key[i]}
        e == RowsNaming(rows) IN
    /\ i \in queue /\ i \in Snapshots
    /\ current' = [s \in Suites |-> IF current[s] = i THEN 0 ELSE current[s]]
    /\ retired' = retired \cup {i}
    /\ queue' = queue \ {i}
    /\ refcount' = DropN(n, e)
    /\ zeroed' = DropZ(n, z, e)
    /\ url' = Without(rows)
    /\ Charge(e)
    /\ UNCHANGED <<tracked, nextId, suiteOf, form, key, gpg, adopted, live, members, blobs>>

\* The audit keeps or drops the entry: i leaves the queue unchanged, as does an
\* id whose snapshot is already gone.
Dequeue(i) ==
    /\ i \in queue
    /\ queue' = queue \ {i}
    /\ UNCHANGED <<suiteVars, nextId, suiteOf, form, key, gpg, adopted, retired, live, members,
                   blobVars, url>>

-----------------------------------------------------------------------------
(* Garbage collection.                                                     *)

\* Mutant: a displaced snapshot's member rows survive its header.
DeleteSnapshotsKeepsMembers(R) ==
    /\ suiteOf' = [i \in Ids |-> IF i \in R THEN None ELSE suiteOf[i]]
    /\ form' = [i \in Ids |-> IF i \in R THEN None ELSE form[i]]
    /\ key' = [i \in Ids |-> IF i \in R THEN None ELSE key[i]]
    /\ gpg' = [i \in Ids |-> IF i \in R THEN None ELSE gpg[i]]
    /\ adopted' = adopted \ R /\ retired' = retired \ R /\ live' = live \ R
    /\ UNCHANGED members

\* The header and child rows of every snapshot of R go.  No pin is released:
\* R holds no current snapshot, and displacement already released its pins.
DeleteSnapshots(R) ==
    /\ suiteOf' = [i \in Ids |-> IF i \in R THEN None ELSE suiteOf[i]]
    /\ form' = [i \in Ids |-> IF i \in R THEN None ELSE form[i]]
    /\ key' = [i \in Ids |-> IF i \in R THEN None ELSE key[i]]
    /\ gpg' = [i \in Ids |-> IF i \in R THEN None ELSE gpg[i]]
    /\ members' = [i \in Ids |-> IF i \in R THEN {} ELSE members[i]]
    /\ adopted' = adopted \ R /\ retired' = retired \ R /\ live' = live \ R

\* Never-adopted candidates whose heartbeat stopped.
Orphans == Snapshots \ (adopted \cup live \cup Currents)

\* Adopted snapshots a later one displaced.  The newest keepDisplaced of them
\* are spared, which is not modelled here: any of them may go.
Displaced == adopted \ (retired \cup Currents \cup queue)

RunSnapshotGCBatch(R) ==
    /\ R # {} /\ R \subseteq Orphans \cup Displaced
    /\ DeleteSnapshots(R)
    /\ UNCHANGED <<suiteVars, nextId, queue, blobVars, url>>

\* Deletes the child rows C of i, and nothing else.
DeleteMembers(i, C) ==
    /\ C # {} /\ C \subseteq members[i]
    /\ members' = [members EXCEPT ![i] = @ \ C]
    /\ UNCHANGED <<suiteVars, nextId, suiteOf, form, key, gpg, adopted, retired, live, queue,
                   blobVars, url>>

\* Mutant: the chunk takes the lowest snapshot that is not current, retired or not.
ChunkOfAnySnapshot(i, C) ==
    /\ i \in Snapshots \ Currents
    /\ \A j \in Snapshots \ Currents : i <= j
    /\ DeleteMembers(i, C)

\* Mutant: the header waits for a chunk that never comes.
ChunkNeverTakesHeader(i, C) ==
    /\ i \in retired \ Currents
    /\ \A j \in retired \ Currents : i <= j
    /\ DeleteMembers(i, C)

\* One chunk of the lowest retired snapshot: some of its child rows, or, when
\* the chunk has room after the last of them, all of them and the header.
RunRetiredSnapshotGCChunk(i, C) ==
    /\ i \in retired \ Currents
    /\ \A j \in retired \ Currents : i <= j
    /\ \/ DeleteMembers(i, C)
       \/ /\ C = members[i]
          /\ DeleteSnapshots({i})
          /\ UNCHANGED <<suiteVars, nextId, queue, blobVars, url>>

\* A blob row nothing refers to.
Unreachable(b) ==
    /\ b \in blobs
    /\ \A p \in Paths : url[p] # b
    /\ \A i \in Ids : b \notin members[i] /\ key[i] # b /\ gpg[i] # b

\* Mutant: the predicate trusts refcount and forgets the anchors.
CollectibleNoAnchors ==
    {b \in blobs : /\ refcount[b] <= 0 /\ zeroed[b] = "old"
                   /\ \A p \in Paths : url[p] # b
                   /\ \A i \in Ids : b \notin members[i]}

\* Mutant: the comparison is strict, so a blob at refcount 0 stays.
CollectibleStrict ==
    {b \in Blobs : Unreachable(b) /\ refcount[b] < 0 /\ zeroed[b] = "old"}

Collectible ==
    {b \in Blobs : Unreachable(b) /\ refcount[b] <= 0 /\ zeroed[b] = "old"}

RunBlobGCBatch(R) ==
    /\ R # {} /\ R \subseteq Collectible
    /\ blobs' = blobs \ R
    /\ refcount' = [b \in Blobs |-> IF b \in R THEN 0 ELSE refcount[b]]
    /\ zeroed' = [b \in Blobs |-> IF b \in R THEN "null" ELSE zeroed[b]]
    /\ released' = [b \in Blobs |-> IF b \in R THEN 0 ELSE released[b]]
    /\ UNCHANGED <<suiteVars, snapVars, url>>

\* Time passes: a grace clock, or a candidate's heartbeat, gets old.
AgeBlob(b) ==
    /\ zeroed[b] = "young"
    /\ zeroed' = [zeroed EXCEPT ![b] = "old"]
    /\ UNCHANGED <<suiteVars, snapVars, blobs, refcount, url, released>>

AgeCandidate(i) ==
    /\ i \in live
    /\ live' = live \ {i}
    /\ UNCHANGED <<suiteVars, nextId, suiteOf, form, key, gpg, adopted, retired, members,
                   queue, blobVars, url>>

-----------------------------------------------------------------------------
SuiteStep ==
    \E s \in Suites :
      \/ CreateSuite(s)
      \/ \E anchors \in BOOLEAN : DeleteSuite(s, anchors)
      \/ \E f \in Forms, k \in Blobs :
           \E g \in Signatures(f) : InsertCandidateSnapshot(s, f, k, g)

BlobStep ==
    \/ \E b \in Blobs : PutBlob(b) \/ AgeBlob(b)
    \/ \E p \in Paths, b \in Blobs : PutURLPath(p, b)
    \/ \E p \in Paths : DeleteURLPath(p)
    \/ \E S \in SUBSET Blobs : HeartbeatBlobs(S)
    \/ \E R \in SUBSET Blobs : RunBlobGCBatch(R)

SnapshotStep ==
    \/ \E i \in Ids : HeartbeatSnapshot(i) \/ AgeCandidate(i) \/ Dequeue(i)
    \/ \E i \in Ids, drop \in BOOLEAN : Quarantine(i, drop)
    \/ \E i \in Ids, M \in SUBSET Blobs, P \in SUBSET Pkgs :
         \E warmed \in [P -> blobs] : CommitAdoption(i, M, warmed)
    \/ \E i \in Ids, b \in Blobs : AddMember(i, b)
    \/ \E R \in SUBSET Ids : RunSnapshotGCBatch(R)
    \/ \E i \in Ids, C \in SUBSET Blobs : RunRetiredSnapshotGCChunk(i, C)

Next == SuiteStep \/ BlobStep \/ SnapshotStep

Spec == Init /\ [][Next]_vars

\* The collector ticks for ever and each pass repeats its batches until one
\* comes back short, so a blob that stays collectible is collected, and so is
\* the lowest retired snapshot.
Fairness ==
    /\ \A b \in Blobs :
         WF_vars(\E R \in SUBSET Blobs : b \in R /\ RunBlobGCBatch(R))
    /\ \A i \in Ids : WF_vars(RunRetiredSnapshotGCChunk(i, members[i]))

LiveSpec == Spec /\ Fairness

-----------------------------------------------------------------------------
(* Properties.                                                             *)

\* Every table has its type.  An absent blob row has no count, a candidate has
\* no member rows before CommitAdoption, and no id is used before it is given out.
TypeOK ==
    /\ tracked \subseteq Suites
    /\ current \in [Suites -> 0..MaxId]
    /\ nextId \in 1..(MaxId + 1)
    /\ suiteOf \in [Ids -> Suites \cup {None}]
    /\ form \in [Ids -> Forms \cup {None}]
    /\ key \in [Ids -> Blobs \cup {None}] /\ gpg \in [Ids -> Blobs \cup {None}]
    /\ adopted \subseteq Snapshots /\ retired \subseteq Snapshots
    /\ live \subseteq Snapshots \ adopted
    /\ queue \subseteq Ids
    /\ members \in [Ids -> SUBSET Blobs]
    /\ \A i \in Ids : members[i] # {} => i \in adopted
    /\ \A i \in Ids : i >= nextId => suiteOf[i] = None
    /\ blobs \subseteq Blobs
    /\ refcount \in [Blobs -> Int] /\ released \in [Blobs -> Nat]
    /\ zeroed \in [Blobs -> {"null", "young", "old"}]
    /\ \A b \in Blobs \ blobs : refcount[b] = 0 /\ released[b] = 0
    /\ url \in [Paths -> Blobs \cup {None}]

\* Suites whose current snapshot has b as a member.
PinnedBy(b) == {s \in Suites : current[s] # 0 /\ b \in members[current[s]]}

\* The reference count is exact: one pin for each suite whose current snapshot
\* has the blob, less one for each url_path row of it deleted since the blob
\* row was born (EvictURLPath's comment: the count may go below zero).
RefcountExact ==
    \A b \in Blobs : refcount[b] = Cardinality(PinnedBy(b)) - released[b]

\* A blob with a positive count is a member of some current snapshot: what the
\* legacy audit's pre-flight takes for granted (PinnedBlobsOutsideAuditQueue).
PositiveMeansServed ==
    \A b \in Blobs : refcount[b] > 0 => PinnedBy(b) # {}

\* The grace clock runs exactly while the count of a blob row is not positive,
\* through every mix of bumps, displacements, deletions and evictions.
ClockMatches ==
    \A b \in Blobs : (zeroed[b] # "null") <=> (b \in blobs /\ refcount[b] <= 0)

\* Foreign keys hold: garbage collection never takes a blob row that a
\* url_path row, a member or a snapshot's anchor still names.
ReferencesResolve ==
    /\ \A p \in Paths : url[p] # None => url[p] \in blobs
    /\ \A i \in Ids : /\ members[i] \subseteq blobs
                      /\ key[i] # None => key[i] \in blobs
                      /\ gpg[i] # None => gpg[i] \in blobs

\* A suite's current snapshot exists, is adopted, is not retired, and is the
\* suite's own; a suite with no row has none.
CurrentIsLive ==
    \A s \in Suites : current[s] # 0 =>
      /\ s \in tracked
      /\ suiteOf[current[s]] = s
      /\ current[s] \in adopted \ retired

\* While a snapshot is adopted and not retired it never loses a member row:
\* only whole snapshots go, and chunked deletion is for retired ones.
ServedMembersNeverShrink ==
    [][\A i \in Ids : i \in adopted \ retired /\ i \in adopted' \ retired'
                        => members[i] \subseteq members'[i]]_vars

\* A snapshot that stopped being current is never made current again.
NeverRepromoted ==
    [][\A s \in Suites, i \in adopted : current[s] # i => current'[s] # i]_vars

\* No blob row leaks: one that nothing refers to is collected, unless its
\* grace clock is restarted again and again.
UnreachableCollected ==
    \A b \in Blobs : []<>(~Unreachable(b) \/ zeroed[b] = "young")

\* A retired snapshot is deleted in the end, however its chunks fall.
RetiredDrained ==
    \A i \in Ids : []<>(i \notin retired)
=============================================================================
