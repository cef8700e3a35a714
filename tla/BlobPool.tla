------------------------------ MODULE BlobPool ------------------------------
(***************************************************************************)
(* One content hash in the pool: the file pool/<hash>, its blob row, and   *)
(* everyone who touches either outside a common lock - request fetches     *)
(* and adoption member fetches, the blob garbage collector, the integrity  *)
(* scanner, and the startup pool scan after a crash.  Hashes do not        *)
(* interact, so one is enough.                                             *)
(***************************************************************************)
EXTENDS Naturals

CONSTANTS Fetchers,      \* request fetches (handler.runFetch, runSnapshotMemberFetch)
          Adopters,      \* adoption member fetches (freshness.adoptMember)
          ScanInterval   \* integrity interval; zero turns the scanner off

ASSUME ScanIntervalAssumption == ScanInterval \in Nat

Writers == Fetchers \cup Adopters

VARIABLES up,          \* the listeners are open
          file,        \* pool/<hash>: "absent", "good", or "bad" bytes
          row,         \* the blob row exists
          fresh,       \* refcount_zeroed_at is within the grace
          named,       \* a url_path, snapshot_member or suite_snapshot names it
          listed,      \* a current snapshot has it as a member or package hash
          pc,          \* [Writers -> step]
          gc,          \* "idle", or "unlink" between COMMIT and os.Remove
          scanner,     \* "idle", "verify" once its pass listed the hash, or
                       \* "discard" after it read bad bytes
          leaked,      \* ghost: a failure or crash left a file since the last scan
          rotted       \* ghost: writers during whose attempt the file went bad

vars == <<up, file, row, fresh, named, listed, pc, gc, scanner, leaked, rotted>>

Init ==
    /\ up = FALSE
    /\ file = "absent" /\ row = FALSE /\ fresh = FALSE
    /\ named = FALSE /\ listed = FALSE
    /\ pc = [p \in Writers |-> "idle"]
    /\ gc = "idle" /\ scanner = "idle"
    /\ leaked = FALSE /\ rotted = {}

Goto(p, step) == pc' = [pc EXCEPT ![p] = step]

\* p's attempt ends; a file without a row that it leaves is a leak.
Abandon(p) ==
    /\ Goto(p, "idle")
    /\ leaked' = (leaked \/ (file # "absent" /\ ~row))
    /\ UNCHANGED <<up, file, row, fresh, named, listed, gc, scanner, rotted>>

\* A fetch of the content succeeds into a temp blob, or ends with no trace.
Download(p) ==
    /\ up
    /\ pc[p] = IF p \in Adopters THEN "fetching" ELSE "idle"
    /\ Goto(p, "temp")
    /\ rotted' = IF p \in Adopters THEN rotted ELSE rotted \ {p}
    /\ UNCHANGED <<up, file, row, fresh, named, listed, gc, scanner, leaked>>

DownloadFails(p) ==
    /\ pc[p] = "fetching"
    /\ Abandon(p)

\* Mutant: an existing pool file is reused without hashing it.
RehashTrusting(p) ==
    /\ up
    /\ pc[p] = "idle"
    /\ Goto(p, IF file = "absent" THEN "fetching" ELSE "final")
    /\ rotted' = rotted \ {p}
    /\ UNCHANGED <<up, file, row, fresh, named, listed, gc, scanner, leaked>>

\* adoptMember, rehash on reuse: a good file is reused, a bad one evicted.
Rehash(p) ==
    /\ up
    /\ pc[p] = "idle"
    /\ Goto(p, IF file = "absent" THEN "fetching"
               ELSE IF file = "good" THEN "final" ELSE "evict")
    /\ rotted' = rotted \ {p}
    /\ UNCHANGED <<up, file, row, fresh, named, listed, gc, scanner, leaked>>

\* adoptMember removes the file it found corrupt, whatever is there by now.
Evict(p) ==
    /\ pc[p] = "evict"
    /\ file' = "absent"
    /\ Goto(p, "fetching")
    /\ UNCHANGED <<up, row, fresh, named, listed, gc, scanner, leaked, rotted>>

EvictFails(p) == pc[p] = "evict" /\ Abandon(p)

\* Mutant: the writer takes the file for present without a look.
FinalizeStatBlind(p) ==
    /\ pc[p] = "temp"
    /\ Goto(p, "final")
    /\ UNCHANGED <<up, file, row, fresh, named, listed, gc, scanner, leaked, rotted>>

\* Finalize's os.Stat: an existing file is kept and the temp dropped.
FinalizeStat(p) ==
    /\ pc[p] = "temp"
    /\ Goto(p, IF file = "absent" THEN "rename" ELSE "final")
    /\ UNCHANGED <<up, file, row, fresh, named, listed, gc, scanner, leaked, rotted>>

\* Finalize's os.Rename into pool/ replaces whatever is there.
FinalizeRename(p) ==
    /\ pc[p] = "rename"
    /\ file' = "good"
    /\ Goto(p, "final")
    /\ UNCHANGED <<up, row, fresh, named, listed, gc, scanner, leaked, rotted>>

\* A size, sync or rename error: the temp goes and the attempt ends.
FinalizeFails(p) == pc[p] \in {"temp", "rename"} /\ Abandon(p)

\* PutBlob: insert the row, or restart its grace clock.
PutBlob(p) ==
    /\ pc[p] = "final"
    /\ row' = TRUE /\ fresh' = TRUE
    /\ Goto(p, "rowed")
    /\ UNCHANGED <<up, file, named, listed, gc, scanner, leaked, rotted>>

PutBlobFails(p) == pc[p] = "final" /\ Abandon(p)

\* The write that names the blob: the url_path row, or the adoption's commit,
\* which makes it a member of a current snapshot.
Refer(p) ==
    /\ pc[p] = "rowed"
    /\ row
    /\ named' = TRUE
    /\ listed' = (listed \/ p \in Adopters)
    /\ Goto(p, "idle")
    /\ UNCHANGED <<up, file, row, fresh, gc, scanner, leaked, rotted>>

\* That write fails, or there is none: the recovery of a lost snapshot member
\* leaves no url_path row.
ReferFails(p) == pc[p] = "rowed" /\ Abandon(p)

\* A count that falls to zero starts the grace clock; one already at zero, or
\* not touched at all, leaves it.
ClockOfDrop == fresh' \in {fresh, TRUE}

\* The last url_path, anchor or displaced member that names the blob goes.
Unname ==
    /\ up /\ named
    /\ named' = FALSE /\ ClockOfDrop
    /\ UNCHANGED <<up, file, row, listed, pc, gc, scanner, leaked, rotted>>

\* A commit displaces the snapshot that lists the hash; its rows still name it.
Displace ==
    /\ up /\ listed
    /\ listed' = FALSE /\ ClockOfDrop
    /\ UNCHANGED <<up, file, row, named, pc, gc, scanner, leaked, rotted>>

\* A commit makes a snapshot current whose package index declares the hash.
ListPackage ==
    /\ up
    /\ listed' = TRUE
    /\ UNCHANGED <<up, file, row, fresh, named, pc, gc, scanner, leaked, rotted>>

\* The grace passes.  It covers the time from PutBlob to the reference: a
\* request's write budget is 30 s, and an adoption's heartbeat renews the clock.
Age ==
    /\ fresh
    /\ \A p \in Writers : pc[p] # "rowed"
    /\ fresh' = FALSE
    /\ UNCHANGED <<up, file, row, named, listed, pc, gc, scanner, leaked, rotted>>

\* Mutant: the pass does not remove the files of the rows it deleted.
RunBlobGCBatchOnly ==
    /\ up /\ gc = "idle"
    /\ row /\ ~named /\ ~fresh
    /\ row' = FALSE
    /\ UNCHANGED <<up, file, fresh, named, listed, pc, gc, scanner, leaked, rotted>>

\* Mutant: the reachability clauses are dropped from the DELETE.
RunBlobGCBatchNamed ==
    /\ up /\ gc = "idle"
    /\ row /\ ~fresh
    /\ row' = FALSE
    /\ gc' = "unlink"
    /\ UNCHANGED <<up, file, fresh, named, listed, pc, scanner, leaked, rotted>>

\* RunBlobGCBatch's COMMIT: the row of an unreachable, old blob goes.
RunBlobGCBatch ==
    /\ up /\ gc = "idle"
    /\ row /\ ~named /\ ~fresh
    /\ row' = FALSE
    /\ gc' = "unlink"
    /\ UNCHANGED <<up, file, fresh, named, listed, pc, scanner, leaked, rotted>>

\* runBlobPass, after the COMMIT: remove the file without another look at the row.
Unlink ==
    /\ gc = "unlink"
    /\ file' = "absent"
    /\ gc' = "idle"
    /\ UNCHANGED <<up, row, fresh, named, listed, pc, scanner, leaked, rotted>>

UnlinkFails ==
    /\ gc = "unlink"
    /\ gc' = "idle"
    /\ leaked' = (leaked \/ (file # "absent" /\ ~row))
    /\ UNCHANGED <<up, file, row, fresh, named, listed, pc, scanner, rotted>>

\* A scanner pass lists the hashes that current snapshots rely on.
ListIntegrityCandidates ==
    /\ up /\ ScanInterval > 0
    /\ scanner = "idle" /\ listed
    /\ scanner' = "verify"
    /\ UNCHANGED <<up, file, row, fresh, named, listed, pc, gc, leaked, rotted>>

\* It hashes the file, if there is one, and goes on to discard bad bytes.
VerifyOne ==
    /\ scanner = "verify"
    /\ scanner' = IF file = "bad" THEN "discard" ELSE "idle"
    /\ UNCHANGED <<up, file, row, fresh, named, listed, pc, gc, leaked, rotted>>

\* A file it cannot read or remove is logged and left to the next pass.
ScanFails ==
    /\ scanner # "idle"
    /\ scanner' = "idle"
    /\ UNCHANGED <<up, file, row, fresh, named, listed, pc, gc, leaked, rotted>>

\* It removes the file, whatever is there by now.
DiscardFinalizedBlob ==
    /\ scanner = "discard"
    /\ file' = "absent"
    /\ scanner' = "idle"
    /\ UNCHANGED <<up, row, fresh, named, listed, pc, gc, leaked, rotted>>

\* The bytes on disk decay.
Rot ==
    /\ file = "good"
    /\ file' = "bad"
    /\ rotted' = Writers
    /\ UNCHANGED <<up, row, fresh, named, listed, pc, gc, scanner, leaked>>

\* The process ends anywhere; disk and database stay as they are.
Crash ==
    /\ up
    /\ up' = FALSE
    /\ pc' = [p \in Writers |-> "idle"]
    /\ gc' = "idle" /\ scanner' = "idle"
    /\ leaked' = (leaked \/ (file # "absent" /\ ~row))
    /\ UNCHANGED <<file, row, fresh, named, listed, rotted>>

\* The startup pool scan, before any listener: a file no row names goes.
StartupPass ==
    /\ ~up
    /\ file' = IF row THEN file ELSE "absent"
    /\ up' = TRUE
    /\ leaked' = FALSE
    /\ UNCHANGED <<row, fresh, named, listed, pc, gc, scanner, rotted>>

\* The daemon serves although the scan is off, fails or cannot remove the file.
StartupPassFails ==
    /\ ~up
    /\ up' = TRUE
    /\ UNCHANGED <<file, row, fresh, named, listed, pc, gc, scanner, leaked, rotted>>

WriterStep(p) ==
    \/ Download(p) \/ DownloadFails(p)
    \/ FinalizeStat(p) \/ FinalizeRename(p) \/ FinalizeFails(p)
    \/ PutBlob(p) \/ PutBlobFails(p) \/ Refer(p) \/ ReferFails(p)

AdopterStep(p) == Rehash(p) \/ Evict(p) \/ EvictFails(p)

CollectorStep == RunBlobGCBatch \/ Unlink \/ UnlinkFails

ScannerStep ==
    ListIntegrityCandidates \/ VerifyOne \/ DiscardFinalizedBlob \/ ScanFails

ReferenceStep == Unname \/ Displace \/ ListPackage

Next ==
    \/ \E p \in Writers : WriterStep(p)
    \/ \E p \in Adopters : AdopterStep(p)
    \/ CollectorStep \/ ScannerStep \/ ReferenceStep
    \/ Age \/ Rot \/ Crash \/ StartupPass \/ StartupPassFails

Spec == Init /\ [][Next]_vars

\* The scanner's passes recur on a ticker and each runs to its end.
LiveSpec == Spec /\ WF_vars(ScannerStep)

-----------------------------------------------------------------------------
Steps == {"idle", "fetching", "evict", "temp", "rename", "final", "rowed"}

\* A name has its blob row (the schema's foreign keys) and the program's parts
\* rest while the daemon is down.
TypeOK ==
    /\ up \in BOOLEAN /\ row \in BOOLEAN /\ fresh \in BOOLEAN
    /\ named \in BOOLEAN /\ listed \in BOOLEAN /\ leaked \in BOOLEAN
    /\ file \in {"absent", "good", "bad"}
    /\ pc \in [Writers -> Steps]
    /\ gc \in {"idle", "unlink"} /\ scanner \in {"idle", "verify", "discard"}
    /\ rotted \subseteq Writers
    /\ named => row
    /\ ~up => gc = "idle" /\ scanner = "idle" /\ \A p \in Writers : pc[p] = "idle"

\* A pool file without a row has an owner that will give it a row or remove it,
\* or is the leak of a failed write, a failed unlink or a crash.
OrphanHasCause ==
    file # "absent" /\ ~row =>
        leaked \/ gc = "unlink" \/ \E p \in Writers : pc[p] = "final"

\* An adoption names only bytes that were good when it looked: a bad file is in
\* its way only if the bytes decayed during its own attempt, however evictions,
\* collections and other fetches of the hash interleave.
VerifiedReuse ==
    \A p \in Adopters : pc[p] \in {"final", "rowed"} /\ file = "bad" => p \in rotted

\* Passes that meet bad bytes come to remove them, and some request goes on
\* fetching the content.
ScansWork == ScanInterval > 0 /\ <>[][~(ScanFails /\ file = "bad")]_vars
FetchesGoOn == \E p \in Fetchers : []<><<PutBlob(p)>>_vars

\* A good file goes by hash, under a scanner or an adopter that read the bad one
\* before it.
LosesGoodFile == file = "good" /\ file' = "absent" /\ UNCHANGED gc

\* What a current snapshot relies on heals once the daemon stays up, whether its
\* bytes decayed or a remover that looked too early took a good file ("Subsequent
\* requests miss, refetch, and re-validate"); and when decay ends such losses do.
Heals ==
    /\ <>[]up /\ ScansWork /\ FetchesGoOn => []<>(~listed \/ file = "good")
    /\ <>[]up /\ <>[][~Rot]_vars => <>[][~LosesGoodFile]_vars

\* "blob GC never deletes a blob whose refcount is positive": its unlink never
\* takes the pool file of a named blob (one an adoption's commit named has a
\* positive refcount).
GCKeepsNamedFile ==
    [][gc = "unlink" /\ gc' = "idle" /\ named /\ file # "absent" => file' # "absent"]_vars
=============================================================================
