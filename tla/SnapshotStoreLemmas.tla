------------------------ MODULE SnapshotStoreLemmas -------------------------
(* What the proofs of the database rest on: ledgers of counts and grace    *)
(* clocks, counting pins, the initial states, and the transactions that    *)
(* move no pin.                                                            *)
EXTENDS SnapshotStore, FiniteSetTheorems, TLAPS

Clocks == {"null", "young", "old"}

\* A count and a grace clock for every blob, the clock running exactly while a
\* blob with a row (in B) has no positive count.
Ledger(n, z, B) ==
    /\ n \in [Blobs -> Int] /\ z \in [Blobs -> Clocks]
    /\ \A b \in Blobs : (z[b] # "null") <=> (b \in B /\ n[b] <= 0)

IInv ==
    /\ TypeOK
    /\ ClockMatches
    /\ ReferencesResolve
    /\ CurrentIsLive
    /\ RefcountExact

-----------------------------------------------------------------------------
(* A bump of blobs that have a row keeps the ledger: UPDATE blob SET       *)
(* refcount = refcount + 1 of CommitAdoption and of the member repairs.    *)
LEMMA BumpLedger ==
  ASSUME NEW n, NEW z, NEW B, NEW S, Ledger(n, z, B), S \subseteq B
  PROVE  /\ Ledger(BumpN(n, S), BumpZ(n, z, S), B)
         /\ \A b \in Blobs : BumpN(n, S)[b] = n[b] + (IF b \in S THEN 1 ELSE 0)
BY DEF Ledger, BumpN, BumpZ, Clocks

(* A drop of references to blobs that have a row keeps the ledger:         *)
(* decrementSnapshotRefcountsTx and deleteURLPathRowTx.                    *)
LEMMA DropLedger ==
  ASSUME NEW n, NEW z, NEW B, NEW d, Ledger(n, z, B), d \in [Blobs -> Nat],
         \A b \in Blobs : d[b] > 0 => b \in B
  PROVE  /\ Ledger(DropN(n, d), DropZ(n, z, d), B)
         /\ \A b \in Blobs : DropN(n, d)[b] = n[b] - d[b]
BY DEF Ledger, DropN, DropZ, Clocks

LEMMA OnceType ==
  ASSUME NEW S
  PROVE  /\ Once(S) \in [Blobs -> Nat]
         /\ \A b \in Blobs : /\ Once(S)[b] = IF b \in S THEN 1 ELSE 0
                             /\ Once(S)[b] > 0 => b \in S
BY DEF Once

(* The anchor rows CommitAdoption writes hold the candidate's own hashes.   *)
LEMMA SeededType ==
  ASSUME NEW s, NEW f, NEW X, NEW k \in X, NEW g \in X, NEW u \in [Paths -> X]
  PROVE  Seeded(s, f, k, g, u) \in [Paths -> X]
BY DEF Seeded

(* Deleting url_path rows charges a natural number to each blob, and only  *)
(* to blobs that have a row.                                               *)
LEMMA RowsNamingType ==
  ASSUME NEW P \in SUBSET Paths, \A p \in Paths : url[p] # None => url[p] \in blobs
  PROVE  /\ RowsNaming(P) \in [Blobs -> Nat]
         /\ \A b \in Blobs : RowsNaming(P)[b] > 0 => b \in blobs
<1> SUFFICES ASSUME NEW b \in Blobs
             PROVE  /\ Cardinality({p \in P : url[p] = b}) \in Nat
                    /\ Cardinality({p \in P : url[p] = b}) > 0 => b \in blobs
  BY DEF RowsNaming
<1> DEFINE Q == {p \in P : url[p] = b}
<1>1. IsFiniteSet(Paths)
  <2>1. IsFiniteSet({"InRelease", "Release", "Release.gpg"})
    <3>1. IsFiniteSet({"InRelease"} \cup {"Release"})
      BY FS_AddElement, FS_Singleton
    <3>2. IsFiniteSet(({"InRelease"} \cup {"Release"}) \cup {"Release.gpg"})
      BY <3>1, FS_AddElement
    <3>3. ({"InRelease"} \cup {"Release"}) \cup {"Release.gpg"}
            = {"InRelease", "Release", "Release.gpg"}
      OBVIOUS
    <3> QED BY <3>2, <3>3
  <2>2. IsFiniteSet(Anchors)
    BY <2>1, FS_Subset DEF Anchors
  <2>3. IsFiniteSet(Suites \X Anchors)
    BY <2>2, FS_Product, ConstantsAssumption DEF ConstantsAssumption
  <2> QED BY <2>3, FS_Union, ConstantsAssumption DEF Paths, ConstantsAssumption
<1>2. IsFiniteSet(Q) /\ Cardinality(Q) \in Nat
  BY <1>1, FS_Subset, FS_CardinalityType
<1>3. CASE Q = {}
  BY <1>3, <1>2, FS_EmptySet
<1>4. CASE Q # {}
  <2>1. b \in blobs
    BY <1>4, ConstantsAssumption DEF ConstantsAssumption
  <2> QED BY <2>1, <1>2
<1> QED BY <1>3, <1>4

(* Two finite sets that differ at most in s differ in size by what each    *)
(* holds of s.                                                             *)
LEMMA CardinalityToggle ==
  ASSUME NEW A, NEW C, NEW s, IsFiniteSet(A), A \ {s} = C \ {s}
  PROVE  /\ IsFiniteSet(C)
         /\ Cardinality(A) \in Nat /\ Cardinality(C) \in Nat
         /\ Cardinality(C) = Cardinality(A) - (IF s \in A THEN 1 ELSE 0)
                                            + (IF s \in C THEN 1 ELSE 0)
<1> DEFINE D == A \ {s}
<1>1. /\ IsFiniteSet(D) /\ Cardinality(D) \in Nat /\ Cardinality(A) \in Nat
      /\ Cardinality(D) = IF s \in A THEN Cardinality(A) - 1 ELSE Cardinality(A)
  BY FS_RemoveElement, FS_CardinalityType
<1>2. /\ IsFiniteSet(D \cup {s})
      /\ Cardinality(D \cup {s}) = Cardinality(D) + 1
  BY <1>1, FS_AddElement
<1>3. CASE s \in C
  <2>1. C = D \cup {s}
    BY <1>3
  <2> QED BY <2>1, <1>1, <1>2, <1>3
<1>4. CASE s \notin C
  <2>1. C = D
    BY <1>4
  <2> QED BY <2>1, <1>1, <1>4
<1> QED BY <1>3, <1>4

-----------------------------------------------------------------------------
(* What the invariant says of the current snapshots: each is one suite's,  *)
(* its members have rows, and the pins of a blob are finitely many.        *)
LEMMA CurrentFacts ==
  ASSUME IInv
  PROVE  /\ Ledger(refcount, zeroed, blobs)
         /\ \A s \in Suites : PinnedMembers(s) \subseteq blobs
         /\ \A s \in Suites, b \in Blobs : s \in PinnedBy(b) <=> b \in PinnedMembers(s)
         /\ \A s, t \in Suites : current[s] # 0 /\ current[s] = current[t] => s = t
         /\ \A i \in Ids : i \in Currents <=> \E s \in Suites : current[s] = i
         /\ \A b \in Blobs : PinnedBy(b) \subseteq Suites /\ IsFiniteSet(PinnedBy(b))
<1>1. Ledger(refcount, zeroed, blobs)
  BY DEF IInv, TypeOK, ClockMatches, Ledger, Clocks
<1>2. \A s \in Suites : PinnedMembers(s) \subseteq blobs
  BY DEF IInv, TypeOK, ReferencesResolve, PinnedMembers, Ids
<1>3. \A s \in Suites, b \in Blobs : s \in PinnedBy(b) <=> b \in PinnedMembers(s)
  BY DEF PinnedBy, PinnedMembers
<1>4. \A s, t \in Suites : current[s] # 0 /\ current[s] = current[t] => s = t
  BY DEF IInv, CurrentIsLive
<1>5. \A i \in Ids : i \in Currents <=> \E s \in Suites : current[s] = i
  BY DEF IInv, TypeOK, CurrentIsLive, Currents, Ids
<1>6. \A b \in Blobs : PinnedBy(b) \subseteq Suites /\ IsFiniteSet(PinnedBy(b))
  <2>1. \A b \in Blobs : PinnedBy(b) \subseteq Suites
    BY DEF PinnedBy
  <2> QED BY <2>1, FS_Subset, ConstantsAssumption DEF ConstantsAssumption
<1> QED BY <1>1, <1>2, <1>3, <1>4, <1>5, <1>6

(* A step that changes at most whether suite s pins each blob keeps the    *)
(* counts exact if it adds s's new pins, takes away s's old ones and       *)
(* charges what the ghost records.                                         *)
LEMMA Recount ==
  ASSUME IInv, NEW s \in Suites,
         \A b \in Blobs : PinnedBy(b) \ {s} = PinnedBy(b)' \ {s},
         refcount' \in [Blobs -> Int], released' \in [Blobs -> Nat],
         \A b \in Blobs :
           refcount'[b] = refcount[b] - (IF s \in PinnedBy(b) THEN 1 ELSE 0)
                                      + (IF s \in PinnedBy(b)' THEN 1 ELSE 0)
                                      - (released'[b] - released[b])
  PROVE  RefcountExact'
<1> SUFFICES ASSUME NEW b \in Blobs
             PROVE  refcount'[b] = Cardinality(PinnedBy(b)') - released'[b]
  BY DEF RefcountExact
<1> DEFINE A == PinnedBy(b)
           C == PinnedBy(b)'
<1>1. IsFiniteSet(A) /\ A \ {s} = C \ {s}
  BY CurrentFacts
<1>2. /\ Cardinality(A) \in Nat /\ Cardinality(C) \in Nat
      /\ Cardinality(C) = Cardinality(A) - (IF s \in A THEN 1 ELSE 0)
                                         + (IF s \in C THEN 1 ELSE 0)
  <2> HIDE DEF A, C
  <2> QED BY <1>1, CardinalityToggle
<1>3. refcount[b] = Cardinality(A) - released[b]
  BY DEF IInv, RefcountExact
<1>4. refcount[b] \in Int /\ released[b] \in Nat /\ refcount'[b] \in Int /\ released'[b] \in Nat
  BY DEF IInv, TypeOK
<1>5. refcount'[b] = refcount[b] - (IF s \in A THEN 1 ELSE 0)
                                 + (IF s \in C THEN 1 ELSE 0) - (released'[b] - released[b])
  OBVIOUS
<1> HIDE DEF A, C
<1>6. refcount'[b] = Cardinality(C) - released'[b]
  BY <1>2, <1>3, <1>4, <1>5
<1> QED BY <1>6 DEF C

(* A step that changes no pin keeps the counts exact if it only charges    *)
(* what the ghost records.                                                 *)
LEMMA RecountSame ==
  ASSUME IInv, \A b \in Blobs : PinnedBy(b)' = PinnedBy(b),
         \A b \in Blobs : refcount'[b] = refcount[b] - (released'[b] - released[b]),
         released' \in [Blobs -> Nat]
  PROVE  RefcountExact'
<1> SUFFICES ASSUME NEW b \in Blobs
             PROVE  refcount'[b] = Cardinality(PinnedBy(b)') - released'[b]
  BY DEF RefcountExact
<1>1. PinnedBy(b)' = PinnedBy(b) /\ Cardinality(PinnedBy(b)) \in Nat
  BY CurrentFacts, FS_CardinalityType
<1>2. refcount[b] = Cardinality(PinnedBy(b)) - released[b]
  BY DEF IInv, RefcountExact
<1>3. refcount[b] \in Int /\ released[b] \in Nat /\ released'[b] \in Nat
  BY DEF IInv, TypeOK
<1>4. refcount'[b] = refcount[b] - (released'[b] - released[b])
  OBVIOUS
<1> DEFINE k == Cardinality(PinnedBy(b))
<1> HIDE DEF k
<1>5. k \in Nat /\ refcount[b] = k - released[b]
  BY <1>1, <1>2 DEF k
<1>6. refcount'[b] = k - released'[b]
  BY <1>3, <1>4, <1>5
<1> QED BY <1>1, <1>6 DEF k

(* In particular if it touches no count at all.                            *)
LEMMA UncountedSame ==
  ASSUME IInv, \A b \in Blobs : PinnedBy(b)' = PinnedBy(b),
         UNCHANGED <<refcount, released>>
  PROVE  RefcountExact'
BY DEF IInv, RefcountExact

-----------------------------------------------------------------------------
LEMMA InitIInv == Init => IInv
<1>1. CASE InitEmpty
  <2>1. \A b \in Blobs : PinnedBy(b) = {}
    BY <1>1 DEF InitEmpty, PinnedBy
  <2>2. RefcountExact
    BY <1>1, <2>1, FS_EmptySet DEF InitEmpty, RefcountExact, NoDrop, Once
  <2>3. TypeOK
    BY <1>1, ConstantsAssumption
    DEF InitEmpty, TypeOK, NoDrop, Once, Ids, Paths, Snapshots, ConstantsAssumption
  <2>4. ClockMatches /\ ReferencesResolve /\ CurrentIsLive
    BY <1>1 DEF InitEmpty, ClockMatches, ReferencesResolve, CurrentIsLive
  <2> QED BY <2>2, <2>3, <2>4 DEF IInv
<1>2. CASE InitMigrated
  <2>1. PICK s \in Suites, f \in Forms \ {"unsigned"}, k \in Blobs, g \in Sigs \cup {None},
             isCurrent \in BOOLEAN :
          /\ MaxId > 0 /\ g \in Signatures(f)
          /\ tracked = {s}
          /\ current = [t \in Suites |-> IF t = s /\ isCurrent THEN 1 ELSE 0]
          /\ nextId = 2
          /\ suiteOf = [i \in Ids |-> IF i = 1 THEN s ELSE None]
          /\ form = [i \in Ids |-> IF i = 1 THEN f ELSE None]
          /\ key = [i \in Ids |-> IF i = 1 THEN k ELSE None]
          /\ gpg = [i \in Ids |-> IF i = 1 THEN g ELSE None]
          /\ adopted = {1} /\ retired = {} /\ live = {} /\ queue = {1}
          /\ members = [i \in Ids |-> IF i = 1 THEN {k} ELSE {}]
          /\ blobs = {k, g} \ {None}
          /\ refcount = IF isCurrent THEN Once({k}) ELSE NoDrop
          /\ zeroed = [b \in Blobs |-> IF b \in {k, g} /\ (b # k \/ ~isCurrent)
                                        THEN "young" ELSE "null"]
          /\ url = Seeded(s, f, k, g, [p \in Paths |-> None])
          /\ released = NoDrop
    BY <1>2, Zenon DEF InitMigrated
  <2>2. 1 \in Ids /\ s # None /\ k # None /\ g \in Blobs \cup {None}
    BY <2>1, ConstantsAssumption DEF Ids, ConstantsAssumption
  <2>3. \A b \in Blobs : refcount[b] = (IF isCurrent /\ b = k THEN 1 ELSE 0) /\ released[b] = 0
    BY <2>1 DEF NoDrop, Once
  <2>4. \A b \in Blobs : PinnedBy(b) = IF isCurrent /\ b = k THEN {s} ELSE {}
    BY <2>1, <2>2 DEF PinnedBy
  <2>5. RefcountExact
    <3>1. Cardinality({}) = 0 /\ Cardinality({s}) = 1
      BY FS_EmptySet, FS_Singleton
    <3> QED BY <2>3, <2>4, <3>1 DEF RefcountExact
  <2>6. refcount \in [Blobs -> Int] /\ released \in [Blobs -> Nat]
    BY <2>1 DEF NoDrop, Once
  <2>7. blobs \subseteq Blobs /\ url \in [Paths -> blobs \cup {None}]
    <3>1. blobs = {k, g} \ {None} /\ [p \in Paths |-> None] \in [Paths -> blobs \cup {None}]
      BY <2>1
    <3>2. k \in blobs \cup {None} /\ g \in blobs \cup {None}
      BY <3>1
    <3>3. url = Seeded(s, f, k, g, [p \in Paths |-> None])
      BY <2>1
    <3> QED BY <2>2, <3>1, <3>2, <3>3, SeededType
  <2>8. TypeOK
    <3>1. Snapshots = {1}
      BY <2>1, <2>2 DEF Snapshots
    <3>2. /\ current \in [Suites -> 0..MaxId] /\ nextId \in 1..(MaxId + 1)
          /\ \A i \in Ids : i >= nextId => suiteOf[i] = None
      BY <2>1, ConstantsAssumption DEF Ids, ConstantsAssumption
    <3>3. /\ suiteOf \in [Ids -> Suites \cup {None}] /\ form \in [Ids -> Forms \cup {None}]
          /\ key \in [Ids -> Blobs \cup {None}] /\ gpg \in [Ids -> Blobs \cup {None}]
          /\ members \in [Ids -> SUBSET Blobs]
          /\ zeroed \in [Blobs -> {"null", "young", "old"}]
      BY <2>1, <2>2
    <3>4. \A b \in Blobs \ blobs : refcount[b] = 0 /\ released[b] = 0
      BY <2>1, <2>2, <2>3
    <3>5. /\ tracked \subseteq Suites /\ queue \subseteq Ids
          /\ adopted \subseteq Snapshots /\ retired \subseteq Snapshots
          /\ live \subseteq Snapshots \ adopted
          /\ \A i \in Ids : members[i] # {} => i \in adopted
      BY <2>1, <2>2, <3>1
    <3>6. url \in [Paths -> Blobs \cup {None}]
      BY <2>7
    <3> QED BY <2>6, <2>7, <3>2, <3>3, <3>4, <3>5, <3>6 DEF TypeOK
  <2>9. ClockMatches
    <3>1. /\ blobs = {k, g} \ {None}
          /\ zeroed = [b \in Blobs |-> IF b \in {k, g} /\ (b # k \/ ~isCurrent)
                                        THEN "young" ELSE "null"]
      BY <2>1
    <3> QED BY <3>1, <2>3, ConstantsAssumption DEF ClockMatches, ConstantsAssumption
  <2>10. ReferencesResolve
    <3>1. \A i \in Ids : /\ members[i] \subseteq blobs
                         /\ key[i] # None => key[i] \in blobs
                         /\ gpg[i] # None => gpg[i] \in blobs
      BY <2>1, <2>2
    <3> QED BY <2>7, <3>1 DEF ReferencesResolve
  <2>11. CurrentIsLive
    BY <2>1, <2>2 DEF CurrentIsLive
  <2> QED BY <2>5, <2>8, <2>9, <2>10, <2>11 DEF IInv
<1> QED BY <1>1, <1>2 DEF Init

(* Transactions that touch no count, clock, member or pointer: creation of *)
(* a suite or a candidate, heartbeats of candidates, and the audit's keep. *)
LEMMA FrameIInv ==
  ASSUME IInv, UNCHANGED <<current, members, retired, adopted, blobVars, url>>,
         TypeOK', tracked \subseteq tracked',
         \A i \in Snapshots : suiteOf'[i] = suiteOf[i],
         \A i \in Ids : /\ key'[i] = key[i] \/ key'[i] \in blobs
                        /\ gpg'[i] = gpg[i] \/ gpg'[i] \in blobs \cup {None}
  PROVE  IInv'
<1>1. RefcountExact'
  <2>1. \A b \in Blobs : PinnedBy(b)' = PinnedBy(b)
    BY DEF PinnedBy
  <2> QED BY <2>1, RecountSame DEF IInv, TypeOK, blobVars
<1>2. ClockMatches' /\ ReferencesResolve'
  BY DEF IInv, ClockMatches, ReferencesResolve, blobVars
<1>3. CurrentIsLive'
  BY DEF IInv, TypeOK, CurrentIsLive, Snapshots, Ids
<1> QED BY <1>1, <1>2, <1>3 DEF IInv

LEMMA SuiteRowsIInv ==
  ASSUME IInv,
         \/ \E s \in Suites : CreateSuite(s)
         \/ \E i \in Ids : HeartbeatSnapshot(i) \/ AgeCandidate(i) \/ Dequeue(i)
         \/ \E s \in Suites, f \in Forms, k \in Blobs :
              \E g \in Signatures(f) : InsertCandidateSnapshot(s, f, k, g)
  PROVE  IInv'
<1>1. CASE \E s \in Suites : CreateSuite(s)
  <2>1. TypeOK'
    BY <1>1 DEF IInv, TypeOK, CreateSuite, snapVars, blobVars, Snapshots
  <2> QED BY <1>1, <2>1, FrameIInv DEF CreateSuite, snapVars
<1>2. ASSUME NEW i \in Ids, HeartbeatSnapshot(i) \/ AgeCandidate(i) \/ Dequeue(i)
      PROVE  IInv'
  <2>1. TypeOK'
    BY <1>2 DEF IInv, TypeOK, HeartbeatSnapshot, AgeCandidate, Dequeue, suiteVars, blobVars,
                Snapshots
  <2> QED BY <1>2, <2>1, FrameIInv DEF HeartbeatSnapshot, AgeCandidate, Dequeue, suiteVars
<1>3. ASSUME NEW s \in Suites, NEW f \in Forms, NEW k \in Blobs, NEW g \in Signatures(f),
             k \in blobs, g \in blobs \cup {None}, InsertNewCandidate(s, f, k, g)
      PROVE  IInv'
  <2>1. nextId \notin Snapshots /\ nextId \in Ids
    BY <1>3 DEF InsertNewCandidate, IInv, TypeOK, Snapshots
  <2>2. TypeOK'
    BY <1>3, <2>1, ConstantsAssumption
    DEF IInv, TypeOK, InsertNewCandidate, suiteVars, blobVars, Snapshots, Ids,
        ConstantsAssumption
  <2>3. \A j \in Snapshots : suiteOf'[j] = suiteOf[j]
    BY <1>3, <2>1 DEF InsertNewCandidate, IInv, TypeOK, Snapshots
  <2>4. \A j \in Ids : /\ key'[j] = key[j] \/ key'[j] \in blobs
                       /\ gpg'[j] = gpg[j] \/ gpg'[j] \in blobs \cup {None}
    BY <1>3 DEF InsertNewCandidate, IInv, TypeOK
  <2> QED BY <1>3, <2>2, <2>3, <2>4, FrameIInv DEF InsertNewCandidate, suiteVars
<1>4. ASSUME NEW s \in Suites, NEW f \in Forms, NEW k \in Blobs, NEW g \in Signatures(f),
             g \in blobs \cup {None}, ReuseCandidate(s, f, k, g)
      PROVE  IInv'
  <2>1. PICK i \in NaturalKey(s, f, k) \ adopted :
          /\ gpg' = [gpg EXCEPT ![i] = g]
          /\ live' = live \cup {i}
          /\ UNCHANGED <<suiteVars, nextId, suiteOf, form, key, adopted, retired, members, queue,
                         blobVars, url>>
    BY <1>4, Zenon DEF ReuseCandidate
  <2>2. i \in Ids /\ i \in Snapshots
    BY DEF NaturalKey, Snapshots
  <2>3. TypeOK'
    BY <1>4, <2>1, <2>2, ConstantsAssumption
    DEF IInv, TypeOK, suiteVars, blobVars, Snapshots, ConstantsAssumption
  <2>4. \A j \in Ids : gpg'[j] = gpg[j] \/ gpg'[j] \in blobs \cup {None}
    BY <1>4, <2>1 DEF IInv, TypeOK
  <2> QED BY <2>1, <2>3, <2>4, FrameIInv DEF suiteVars
<1> QED BY <1>1, <1>2, <1>3, <1>4 DEF InsertCandidateSnapshot

(* Transactions on blob and url_path rows keep the snapshots as they are.  *)
LEMMA BlobFrame ==
  ASSUME IInv, UNCHANGED <<suiteVars, snapVars>>,
         blobs' \subseteq Blobs, released' \in [Blobs -> Nat],
         url' \in [Paths -> Blobs \cup {None}],
         Ledger(refcount', zeroed', blobs'), ReferencesResolve',
         \A b \in Blobs \ blobs' : refcount'[b] = 0 /\ released'[b] = 0,
         \A b \in Blobs : refcount'[b] = refcount[b] - (released'[b] - released[b])
  PROVE  IInv'
<1>1. TypeOK'
  BY DEF IInv, TypeOK, Ledger, Clocks, suiteVars, snapVars, Snapshots
<1>2. ClockMatches'
  BY DEF Ledger, ClockMatches
<1>3. CurrentIsLive'
  BY DEF IInv, CurrentIsLive, suiteVars, snapVars
<1>4. RefcountExact'
  <2>1. \A b \in Blobs : PinnedBy(b)' = PinnedBy(b)
    BY DEF PinnedBy, suiteVars, snapVars
  <2> QED BY <2>1, RecountSame
<1> QED BY <1>1, <1>2, <1>3, <1>4 DEF IInv

(* The same for a step that moves no count: only rows, clocks or url_path. *)
LEMMA ClockFrame ==
  ASSUME IInv, UNCHANGED <<suiteVars, snapVars, refcount, released>>,
         blobs \subseteq blobs', blobs' \subseteq Blobs,
         url' \in [Paths -> Blobs \cup {None}],
         Ledger(refcount', zeroed', blobs'), ReferencesResolve'
  PROVE  IInv'
<1>1. /\ released' \in [Blobs -> Nat]
      /\ \A b \in Blobs \ blobs' : refcount'[b] = 0 /\ released'[b] = 0
  BY DEF IInv, TypeOK
<1>2. ASSUME NEW b \in Blobs
      PROVE  refcount'[b] = refcount[b] - (released'[b] - released[b])
  <2>1. /\ refcount'[b] = refcount[b] /\ released'[b] = released[b]
        /\ refcount[b] \in Int /\ released[b] \in Nat
    BY DEF IInv, TypeOK
  <2> QED BY <2>1
<1> QED BY <1>1, <1>2, BlobFrame

LEMMA BlobRowsIInv ==
  ASSUME IInv, BlobStep
  PROVE  IInv'
<1> USE DEF IInv
<1>1. ASSUME NEW b \in Blobs, PutBlob(b) \/ AgeBlob(b)
      PROVE  IInv'
  <2>1. /\ UNCHANGED <<suiteVars, snapVars, refcount, released, url>>
        /\ blobs \subseteq blobs' /\ blobs' \subseteq Blobs
    BY <1>1 DEF PutBlob, AgeBlob, TypeOK
  <2>2. Ledger(refcount', zeroed', blobs')
    <3>1. CASE PutBlob(b)
      BY <3>1, <2>1 DEF PutBlob, Ledger, Clocks, TypeOK, ClockMatches
    <3>2. CASE AgeBlob(b)
      BY <3>2, <2>1 DEF AgeBlob, Ledger, Clocks, TypeOK, ClockMatches
    <3> QED BY <1>1, <3>1, <3>2
  <2>3. ReferencesResolve'
    BY <2>1 DEF ReferencesResolve, snapVars
  <2>4. url' \in [Paths -> Blobs \cup {None}]
    BY <2>1 DEF TypeOK
  <2> QED BY <2>1, <2>2, <2>3, <2>4, ClockFrame
<1>2. ASSUME NEW p \in Paths, NEW b \in Blobs, PutURLPath(p, b)
      PROVE  IInv'
  <2>1. /\ UNCHANGED <<suiteVars, snapVars, blobs, refcount, zeroed, released>>
        /\ url' \in [Paths -> Blobs \cup {None}]
    BY <1>2 DEF PutURLPath, blobVars, TypeOK
  <2>2. ReferencesResolve'
    BY <1>2, <2>1 DEF ReferencesResolve, PutURLPath, snapVars, TypeOK
  <2>3. Ledger(refcount', zeroed', blobs')
    BY <2>1, CurrentFacts
  <2>4. blobs \subseteq blobs' /\ blobs' \subseteq Blobs
    BY <2>1 DEF TypeOK
  <2> QED BY <2>1, <2>2, <2>3, <2>4, ClockFrame
<1>3. ASSUME NEW p \in Paths, DeleteURLPath(p)
      PROVE  IInv'
  <2> DEFINE d == Once({url[p]})
  <2>1. /\ url[p] \in blobs
        /\ d \in [Blobs -> Nat]
        /\ \A b \in Blobs : d[b] > 0 => b \in blobs
    BY <1>3, OnceType DEF DeleteURLPath, ReferencesResolve
  <2>2. /\ UNCHANGED <<suiteVars, snapVars, blobs>>
        /\ url' = [url EXCEPT ![p] = None]
        /\ refcount' = DropN(refcount, d) /\ zeroed' = DropZ(refcount, zeroed, d)
        /\ released' = [b \in Blobs |-> released[b] + d[b]]
    BY <1>3 DEF DeleteURLPath, Charge
  <2> HIDE DEF d
  <2>3. /\ Ledger(refcount', zeroed', blobs)
        /\ \A b \in Blobs : refcount'[b] = refcount[b] - d[b]
    BY <2>1, <2>2, CurrentFacts, DropLedger
  <2>4. ReferencesResolve' /\ url' \in [Paths -> Blobs \cup {None}]
    BY <2>2 DEF ReferencesResolve, snapVars, TypeOK
  <2>5. /\ released' \in [Blobs -> Nat]
        /\ \A b \in Blobs : refcount'[b] = refcount[b] - (released'[b] - released[b])
        /\ \A b \in Blobs \ blobs : refcount'[b] = 0 /\ released'[b] = 0
    <3>1. released' \in [Blobs -> Nat]
      BY <2>1, <2>2 DEF TypeOK
    <3>2. ASSUME NEW b \in Blobs
          PROVE  /\ refcount'[b] = refcount[b] - (released'[b] - released[b])
                 /\ b \notin blobs => refcount'[b] = 0 /\ released'[b] = 0
      <4>1. /\ released'[b] = released[b] + d[b] /\ refcount'[b] = refcount[b] - d[b]
            /\ d[b] \in Nat /\ released[b] \in Nat /\ refcount[b] \in Int
            /\ b \notin blobs => d[b] = 0 /\ refcount[b] = 0 /\ released[b] = 0
        BY <2>1, <2>2, <2>3 DEF TypeOK
      <4> QED BY <4>1
    <3> QED BY <3>1, <3>2
  <2> QED BY <2>2, <2>3, <2>4, <2>5, BlobFrame DEF TypeOK
<1>4. ASSUME NEW S \in SUBSET Blobs, HeartbeatBlobs(S)
      PROVE  IInv'
  <2>1. UNCHANGED <<suiteVars, snapVars, blobs, refcount, released, url>>
    BY <1>4 DEF HeartbeatBlobs
  <2>2. Ledger(refcount', zeroed', blobs')
    BY <1>4, <2>1 DEF HeartbeatBlobs, Ledger, Clocks, TypeOK, ClockMatches
  <2>3. ReferencesResolve'
    BY <2>1 DEF ReferencesResolve, snapVars
  <2>4. blobs' \subseteq Blobs /\ url' \in [Paths -> Blobs \cup {None}]
    BY <2>1 DEF TypeOK
  <2> QED BY <2>1, <2>2, <2>3, <2>4, ClockFrame
<1>5. ASSUME NEW R \in SUBSET Blobs, RunBlobGCBatch(R)
      PROVE  IInv'
  <2>1. \A b \in R : Unreachable(b) /\ refcount[b] <= 0
    BY <1>5 DEF RunBlobGCBatch, Collectible
  <2>2. \A b \in R : PinnedBy(b) = {}
    BY <2>1 DEF PinnedBy, Unreachable, TypeOK, Ids
  <2>3. \A b \in R : refcount[b] = 0 - released[b]
    <3>1. Cardinality({}) = 0
      BY FS_EmptySet
    <3> QED BY <2>2, <3>1, Zenon DEF RefcountExact, TypeOK
  <2>4. /\ UNCHANGED <<suiteVars, snapVars, url>>
        /\ blobs' = blobs \ R
        /\ released' = [b \in Blobs |-> IF b \in R THEN 0 ELSE released[b]]
        /\ refcount' = [b \in Blobs |-> IF b \in R THEN 0 ELSE refcount[b]]
        /\ zeroed' = [b \in Blobs |-> IF b \in R THEN "null" ELSE zeroed[b]]
    BY <1>5 DEF RunBlobGCBatch
  <2>5. ReferencesResolve'
    BY <2>1, <2>4 DEF ReferencesResolve, Unreachable, snapVars
  <2>6. Ledger(refcount', zeroed', blobs')
    BY <2>4 DEF Ledger, Clocks, TypeOK, ClockMatches
  <2>7. /\ released' \in [Blobs -> Nat]
        /\ \A b \in Blobs : refcount'[b] = refcount[b] - (released'[b] - released[b])
        /\ \A b \in Blobs \ blobs' : refcount'[b] = 0 /\ released'[b] = 0
    BY <2>3, <2>4 DEF TypeOK
  <2> QED BY <2>4, <2>5, <2>6, <2>7, BlobFrame DEF TypeOK
<1> QED BY <1>1, <1>2, <1>3, <1>4, <1>5 DEF BlobStep
=============================================================================
