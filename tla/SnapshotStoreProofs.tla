------------------------ MODULE SnapshotStoreProofs -------------------------
(* Proofs that the database's reference counts are exact and its current   *)
(* snapshots sound, for any sets of suites, packages and blobs.            *)
EXTENDS SnapshotStoreLemmas

-----------------------------------------------------------------------------
(* The flip of CommitAdoption: the suite's old pins go, its new ones come. *)
LEMMA CommitIInv ==
  ASSUME IInv, NEW i \in Ids, NEW M \in SUBSET Blobs, NEW P \in SUBSET Pkgs,
         NEW warmed \in [P -> blobs], CommitAdoption(i, M, warmed)
  PROVE  IInv'
<1> DEFINE s == suiteOf[i]
           d == Once(PinnedMembers(s))
           n == BumpN(refcount, M)
           z == BumpZ(refcount, zeroed, M)
           u == [p \in Paths |-> IF p \in DOMAIN warmed THEN warmed[p] ELSE url[p]]
<1>1. /\ i \in Snapshots \ (adopted \cup retired) /\ s \in tracked /\ s \in Suites
      /\ M \subseteq blobs
      /\ members' = [members EXCEPT ![i] = M]
      /\ url' = Seeded(s, form[i], key[i], gpg[i], u)
      /\ refcount' = DropN(n, d) /\ zeroed' = DropZ(n, z, d)
      /\ current' = [current EXCEPT ![s] = i]
      /\ adopted' = adopted \cup {i} /\ live' = live \ {i}
      /\ UNCHANGED <<tracked, nextId, suiteOf, form, key, gpg, retired, queue, blobs, released>>
  BY DEF CommitAdoption, Flip, IInv, TypeOK
<1>2. /\ d \in [Blobs -> Nat]
      /\ \A b \in Blobs : d[b] = (IF b \in PinnedMembers(s) THEN 1 ELSE 0)
      /\ \A b \in Blobs : d[b] > 0 => b \in blobs
  BY <1>1, OnceType, CurrentFacts
<1>3. /\ Ledger(n, z, blobs)
      /\ \A b \in Blobs : n[b] = refcount[b] + (IF b \in M THEN 1 ELSE 0)
  <2>1. M \subseteq blobs /\ Ledger(refcount, zeroed, blobs)
    BY <1>1, CurrentFacts
  <2> QED BY <2>1, BumpLedger, Zenon
<1> HIDE DEF d, n, z
<1>4. /\ Ledger(refcount', zeroed', blobs')
      /\ \A b \in Blobs : refcount'[b] = n[b] - d[b]
  <2>1. refcount' = DropN(n, d) /\ zeroed' = DropZ(n, z, d) /\ blobs' = blobs
    BY <1>1
  <2> QED BY <2>1, <1>2, <1>3, DropLedger
<1>5. \A t \in Suites : current[t] # i
  <2>1. i \notin adopted /\ i # 0
    BY <1>1 DEF Ids
  <2> QED BY <2>1 DEF IInv, CurrentIsLive
<1>6. \A b \in Blobs : /\ PinnedBy(b) \ {s} = PinnedBy(b)' \ {s}
                       /\ s \in PinnedBy(b) <=> b \in PinnedMembers(s)
                       /\ s \in PinnedBy(b)' <=> b \in M
  BY <1>1, <1>5 DEF PinnedBy, PinnedMembers, IInv, TypeOK, Ids
<1>7. RefcountExact'
  <2>1. ASSUME NEW b \in Blobs
        PROVE  refcount'[b] = refcount[b] - (IF s \in PinnedBy(b) THEN 1 ELSE 0)
                                          + (IF s \in PinnedBy(b)' THEN 1 ELSE 0)
                                          - (released'[b] - released[b])
    <3>1. /\ refcount'[b] = refcount[b] + (IF b \in M THEN 1 ELSE 0)
                                        - (IF b \in PinnedMembers(s) THEN 1 ELSE 0)
          /\ released'[b] = released[b] /\ released[b] \in Nat /\ refcount[b] \in Int
      BY <1>1, <1>2, <1>3, <1>4 DEF IInv, TypeOK
    <3>2. (s \in PinnedBy(b) <=> b \in PinnedMembers(s)) /\ (s \in PinnedBy(b)' <=> b \in M)
      BY <1>6
    <3> HIDE DEF s
    <3> QED BY <3>1, <3>2
  <2>2. refcount' \in [Blobs -> Int] /\ released' \in [Blobs -> Nat]
    BY <1>1, <1>4 DEF Ledger, IInv, TypeOK
  <2> HIDE DEF s
  <2> QED BY <1>1, <1>6, <2>1, <2>2, Recount
<1>8. ReferencesResolve' /\ url' \in [Paths -> Blobs \cup {None}]
  <2>1. /\ key[i] \in blobs \cup {None} /\ gpg[i] \in blobs \cup {None}
        /\ blobs \subseteq Blobs
    BY DEF IInv, ReferencesResolve, TypeOK
  <2>2. u \in [Paths -> blobs \cup {None}]
    <3>1. \A p \in Paths : url[p] \in blobs \cup {None}
      BY DEF IInv, ReferencesResolve
    <3>2. \A p \in DOMAIN warmed : warmed[p] \in blobs
      OBVIOUS
    <3> QED BY <3>1, <3>2
  <2> HIDE DEF u, s
  <2>3. url' \in [Paths -> blobs \cup {None}]
    BY <1>1, <2>1, <2>2, SeededType
  <2>4. \A j \in Ids : /\ members'[j] \subseteq blobs
                       /\ key'[j] # None => key'[j] \in blobs
                       /\ gpg'[j] # None => gpg'[j] \in blobs
    BY <1>1 DEF IInv, ReferencesResolve, TypeOK
  <2> QED BY <1>1, <2>1, <2>3, <2>4 DEF ReferencesResolve
<1> HIDE DEF u
<1>9. CurrentIsLive'
  BY <1>1, <1>5 DEF IInv, TypeOK, CurrentIsLive, Snapshots, Ids
<1>10. TypeOK'
  <2>1. \A b \in Blobs \ blobs' : refcount'[b] = 0 /\ released'[b] = 0
    BY <1>1, <1>2, <1>3, <1>4 DEF IInv, TypeOK
  <2>2. current' \in [Suites -> 0..MaxId]
    BY <1>1 DEF IInv, TypeOK, Ids
  <2>3. /\ refcount' \in [Blobs -> Int] /\ zeroed' \in [Blobs -> {"null", "young", "old"}]
    BY <1>4 DEF Ledger, Clocks
  <2>4. Snapshots' = Snapshots
    BY <1>1, Zenon DEF Snapshots
  <2>5. /\ adopted' \subseteq Snapshots' /\ retired' \subseteq Snapshots'
        /\ live' \subseteq Snapshots' \ adopted'
        /\ members' \in [Ids -> SUBSET Blobs]
        /\ \A j \in Ids : members'[j] # {} => j \in adopted'
    BY <1>1, <2>4 DEF IInv, TypeOK
  <2> QED BY <1>1, <1>8, <2>1, <2>2, <2>3, <2>5 DEF IInv, TypeOK
<1> QED BY <1>4, <1>7, <1>8, <1>9, <1>10 DEF IInv, Ledger, ClockMatches

(* A repaired or reconciled member of a current snapshot is pinned once.   *)
LEMMA AddMemberIInv ==
  ASSUME IInv, NEW i \in Ids, NEW c \in Blobs, AddMember(i, c)
  PROVE  IInv'
<1> DEFINE S == {c} \ members[i]
<1>1. /\ i \in Currents /\ c \in blobs
      /\ refcount' = BumpN(refcount, S) /\ zeroed' = BumpZ(refcount, zeroed, S)
      /\ members' = [members EXCEPT ![i] = members[i] \cup {c}]
      /\ UNCHANGED <<suiteVars, nextId, suiteOf, form, key, gpg, adopted, retired, live, queue,
                     blobs, url, released>>
  BY DEF AddMember, InsertMember
<1>2. PICK s \in Suites : current[s] = i
  BY <1>1, CurrentFacts
<1>3. /\ Ledger(refcount', zeroed', blobs')
      /\ \A b \in Blobs : refcount'[b] = refcount[b] + (IF b \in S THEN 1 ELSE 0)
  <2>1. S \subseteq blobs /\ blobs' = blobs /\ Ledger(refcount, zeroed, blobs)
    BY <1>1, CurrentFacts
  <2> HIDE DEF S
  <2> QED BY <1>1, <2>1, BumpLedger
<1>4. \A t \in Suites : current[t] = i => t = s
  BY <1>2, CurrentFacts DEF Ids
<1>5. \A b \in Blobs : /\ PinnedBy(b) \ {s} = PinnedBy(b)' \ {s}
                       /\ s \in PinnedBy(b) <=> b \in members[i]
                       /\ s \in PinnedBy(b)' <=> b \in members[i] \cup {c}
  BY <1>1, <1>2, <1>4 DEF PinnedBy, IInv, TypeOK, Ids, suiteVars
<1>6. RefcountExact'
  <2>1. ASSUME NEW b \in Blobs
        PROVE  refcount'[b] = refcount[b] - (IF s \in PinnedBy(b) THEN 1 ELSE 0)
                                          + (IF s \in PinnedBy(b)' THEN 1 ELSE 0)
                                          - (released'[b] - released[b])
    <3>1. released'[b] = released[b] /\ released[b] \in Nat /\ refcount[b] \in Int
      BY <1>1 DEF IInv, TypeOK
    <3>2. refcount'[b] = refcount[b] + (IF b \in {c} \ members[i] THEN 1 ELSE 0)
      BY <1>3
    <3>3. /\ s \in PinnedBy(b) <=> b \in members[i]
          /\ s \in PinnedBy(b)' <=> b \in members[i] \/ b \in {c} \ members[i]
      BY <1>5
    <3> QED BY <3>1, <3>2, <3>3
  <2>2. refcount' \in [Blobs -> Int] /\ released' \in [Blobs -> Nat]
    BY <1>1, <1>3, Zenon DEF Ledger, IInv, TypeOK
  <2> QED BY <1>5, <2>1, <2>2, Recount
<1>7. ReferencesResolve' /\ CurrentIsLive'
  BY <1>1 DEF IInv, ReferencesResolve, CurrentIsLive, TypeOK, suiteVars
<1>8. i \in adopted
  BY <1>2 DEF IInv, CurrentIsLive, Ids
<1>9. TypeOK'
  <2>1. \A b \in Blobs \ blobs' : refcount'[b] = 0 /\ released'[b] = 0
    <3>1. S \subseteq blobs /\ blobs' = blobs /\ released' = released
      BY <1>1
    <3> HIDE DEF S
    <3> QED BY <1>3, <3>1 DEF IInv, TypeOK
  <2>2. /\ refcount' \in [Blobs -> Int] /\ zeroed' \in [Blobs -> {"null", "young", "old"}]
    BY <1>3 DEF Ledger, Clocks
  <2>3. /\ members' \in [Ids -> SUBSET Blobs]
        /\ \A j \in Ids : members'[j] # {} => j \in adopted'
    BY <1>1, <1>8 DEF IInv, TypeOK
  <2> QED BY <1>1, <2>1, <2>2, <2>3, Zenon DEF IInv, TypeOK, suiteVars, Snapshots
<1> QED BY <1>3, <1>6, <1>7, <1>9 DEF IInv, Ledger, ClockMatches

(* Releasing the pins D of one suite, and then the url_path references e,  *)
(* keeps the ledger and the exact counts.                                  *)
LEMMA Unpin ==
  ASSUME IInv, NEW s \in Suites, NEW D, D \subseteq blobs,
         NEW e \in [Blobs -> Nat], \A b \in Blobs : e[b] > 0 => b \in blobs,
         \A b \in Blobs : PinnedBy(b) \ {s} = PinnedBy(b)' \ {s},
         \A b \in Blobs : b \in D <=> s \in PinnedBy(b) /\ s \notin PinnedBy(b)',
         \A b \in Blobs : s \in PinnedBy(b)' => s \in PinnedBy(b),
         refcount' = DropN(DropN(refcount, Once(D)), e),
         zeroed' = DropZ(DropN(refcount, Once(D)), DropZ(refcount, zeroed, Once(D)), e),
         Charge(e), blobs' = blobs
  PROVE  /\ Ledger(refcount', zeroed', blobs')
         /\ RefcountExact'
         /\ released' \in [Blobs -> Nat]
         /\ \A b \in Blobs \ blobs' : refcount'[b] = 0 /\ released'[b] = 0
<1> DEFINE n == DropN(refcount, Once(D))
           z == DropZ(refcount, zeroed, Once(D))
<1>1. /\ Once(D) \in [Blobs -> Nat]
      /\ \A b \in Blobs : Once(D)[b] = (IF b \in D THEN 1 ELSE 0)
      /\ \A b \in Blobs : Once(D)[b] > 0 => b \in blobs
  BY OnceType
<1>2. Ledger(n, z, blobs) /\ \A b \in Blobs : n[b] = refcount[b] - Once(D)[b]
  <2>1. Ledger(refcount, zeroed, blobs)
    BY CurrentFacts
  <2> QED BY <2>1, <1>1, DropLedger
<1> HIDE DEF n, z
<1>3. refcount' = DropN(n, e) /\ zeroed' = DropZ(n, z, e)
  BY DEF n, z
<1>4. Ledger(refcount', zeroed', blobs') /\ \A b \in Blobs : refcount'[b] = n[b] - e[b]
  BY <1>2, <1>3, DropLedger
<1>5. /\ released' = [b \in Blobs |-> released[b] + e[b]]
      /\ released' \in [Blobs -> Nat] /\ refcount' \in [Blobs -> Int]
  BY <1>4 DEF Charge, IInv, TypeOK, Ledger
<1>6. \A b \in Blobs :
        /\ refcount'[b] = refcount[b] - (IF b \in D THEN 1 ELSE 0) - e[b]
        /\ released'[b] = released[b] + e[b]
        /\ refcount[b] \in Int /\ released[b] \in Nat /\ e[b] \in Nat
  BY <1>1, <1>2, <1>4, <1>5 DEF IInv, TypeOK
<1>7. RefcountExact'
  <2>1. ASSUME NEW b \in Blobs
        PROVE  refcount'[b] = refcount[b] - (IF s \in PinnedBy(b) THEN 1 ELSE 0)
                                          + (IF s \in PinnedBy(b)' THEN 1 ELSE 0)
                                          - (released'[b] - released[b])
    <3>1. /\ refcount'[b] = refcount[b] - (IF b \in D THEN 1 ELSE 0) - e[b]
          /\ released'[b] = released[b] + e[b]
          /\ refcount[b] \in Int /\ released[b] \in Nat /\ e[b] \in Nat
      BY <1>6
    <3>2. /\ b \in D <=> s \in PinnedBy(b) /\ s \notin PinnedBy(b)'
          /\ s \in PinnedBy(b)' => s \in PinnedBy(b)
      OBVIOUS
    <3> QED BY <3>1, <3>2
  <2> QED BY <1>5, <2>1, Recount
<1>8. \A b \in Blobs \ blobs' : refcount'[b] = 0 /\ released'[b] = 0
  <2> SUFFICES ASSUME NEW b \in Blobs, b \notin blobs
               PROVE  refcount'[b] = 0 /\ released'[b] = 0
    OBVIOUS
  <2>1. b \notin D /\ e[b] = 0 /\ refcount[b] = 0 /\ released[b] = 0
    BY <1>6 DEF IInv, TypeOK
  <2> QED BY <2>1, <1>6
<1> QED BY <1>4, <1>5, <1>7, <1>8

LEMMA DeleteSuiteIInv ==
  ASSUME IInv, NEW s \in Suites, NEW anchors \in BOOLEAN, DeleteSuite(s, anchors)
  PROVE  IInv'
<1> DEFINE D == PinnedMembers(s)
           rows == IF anchors THEN {s} \X Anchors ELSE {}
           e == RowsNaming(rows)
<1>1. /\ s \in tracked
      /\ tracked' = tracked \ {s} /\ current' = [current EXCEPT ![s] = 0]
      /\ retired' = retired \cup Retire(s)
      /\ refcount' = DropN(DropN(refcount, Once(D)), e)
      /\ zeroed' = DropZ(DropN(refcount, Once(D)), DropZ(refcount, zeroed, Once(D)), e)
      /\ url' = Without(rows)
      /\ Charge(e)
      /\ UNCHANGED <<nextId, suiteOf, form, key, gpg, adopted, live, members, queue, blobs>>
  BY DEF DeleteSuite
<1>2. /\ e \in [Blobs -> Nat] /\ \A b \in Blobs : e[b] > 0 => b \in blobs
  <2>1. rows \in SUBSET Paths
    BY DEF Paths
  <2> HIDE DEF rows
  <2> QED BY <2>1, RowsNamingType DEF IInv, ReferencesResolve
<1>3. /\ \A b \in Blobs : PinnedBy(b) \ {s} = PinnedBy(b)' \ {s}
      /\ \A b \in Blobs : b \in D <=> s \in PinnedBy(b) /\ s \notin PinnedBy(b)'
      /\ \A b \in Blobs : s \in PinnedBy(b)' => s \in PinnedBy(b)
  BY <1>1 DEF PinnedBy, PinnedMembers, IInv, TypeOK
<1>4. D \subseteq blobs
  BY CurrentFacts
<1> HIDE DEF D, e, rows
<1>5. /\ Ledger(refcount', zeroed', blobs')
      /\ RefcountExact'
      /\ released' \in [Blobs -> Nat]
      /\ \A b \in Blobs \ blobs' : refcount'[b] = 0 /\ released'[b] = 0
  BY <1>1, <1>2, <1>3, <1>4, Unpin
<1>6. ReferencesResolve' /\ url' \in [Paths -> Blobs \cup {None}]
  BY <1>1 DEF IInv, ReferencesResolve, TypeOK, Without
<1>7. CurrentIsLive'
  BY <1>1 DEF IInv, CurrentIsLive, TypeOK, Retire
<1>8. TypeOK'
  <2>1. current' \in [Suites -> 0..MaxId]
    BY <1>1, ConstantsAssumption DEF IInv, TypeOK, ConstantsAssumption
  <2>2. Snapshots' = Snapshots /\ Retire(s) \subseteq Snapshots
    BY <1>1 DEF Snapshots, Retire
  <2>3. /\ refcount' \in [Blobs -> Int] /\ zeroed' \in [Blobs -> {"null", "young", "old"}]
    BY <1>5 DEF Ledger, Clocks
  <2> QED BY <1>1, <1>5, <1>6, <2>1, <2>2, <2>3, Zenon DEF IInv, TypeOK
<1> QED BY <1>5, <1>6, <1>7, <1>8 DEF IInv, Ledger, ClockMatches

LEMMA QuarantineIInv ==
  ASSUME IInv, NEW i \in Ids, NEW drop \in BOOLEAN, Quarantine(i, drop)
  PROVE  IInv'
<1> DEFINE s == suiteOf[i]
           D == IF i \in Currents THEN members[i] ELSE {}
           rows == {p \in Paths : drop /\ form[i] # "detached" /\ url[p] = key[i]}
           e == RowsNaming(rows)
<1>1. /\ i \in queue /\ i \in Snapshots
      /\ current' = [t \in Suites |-> IF current[t] = i THEN 0 ELSE current[t]]
      /\ retired' = retired \cup {i} /\ queue' = queue \ {i}
      /\ refcount' = DropN(DropN(refcount, Once(D)), e)
      /\ zeroed' = DropZ(DropN(refcount, Once(D)), DropZ(refcount, zeroed, Once(D)), e)
      /\ url' = Without(rows)
      /\ Charge(e)
      /\ UNCHANGED <<tracked, nextId, suiteOf, form, key, gpg, adopted, live, members, blobs>>
  BY Zenon DEF Quarantine
<1>2. s \in Suites
  BY <1>1 DEF Snapshots, IInv, TypeOK
<1>3. /\ e \in [Blobs -> Nat] /\ \A b \in Blobs : e[b] > 0 => b \in blobs
  <2>1. rows \in SUBSET Paths
    OBVIOUS
  <2> HIDE DEF rows
  <2> QED BY <2>1, RowsNamingType DEF IInv, ReferencesResolve
<1>4. /\ \A t \in Suites : current[t] = i => t = s
      /\ i \in Currents <=> current[s] = i
  <2>1. \A t \in Suites : current[t] = i => t = s
    BY DEF IInv, CurrentIsLive, Ids
  <2> QED BY <2>1, <1>2, CurrentFacts
<1>5. /\ \A b \in Blobs : PinnedBy(b) \ {s} = PinnedBy(b)' \ {s}
      /\ \A b \in Blobs : b \in D <=> s \in PinnedBy(b) /\ s \notin PinnedBy(b)'
      /\ \A b \in Blobs : s \in PinnedBy(b)' => s \in PinnedBy(b)
  <2>1. /\ members' = members
        /\ \A t \in Suites \ {s} : current'[t] = current[t]
        /\ current'[s] = IF current[s] = i THEN 0 ELSE current[s]
        /\ D = IF current[s] = i THEN members[i] ELSE {}
    BY <1>1, <1>2, <1>4, Zenon
  <2>2. i # 0
    BY DEF Ids
  <2> HIDE DEF D, s
  <2> QED BY <2>1, <2>2, <1>2 DEF PinnedBy
<1>6. D \subseteq blobs
  BY DEF IInv, ReferencesResolve
<1> HIDE DEF D, e, s, rows
<1>7. /\ Ledger(refcount', zeroed', blobs')
      /\ RefcountExact'
      /\ released' \in [Blobs -> Nat]
      /\ \A b \in Blobs \ blobs' : refcount'[b] = 0 /\ released'[b] = 0
  BY <1>1, <1>2, <1>3, <1>5, <1>6, Unpin, Zenon
<1>8. ReferencesResolve' /\ url' \in [Paths -> Blobs \cup {None}]
  BY <1>1 DEF IInv, ReferencesResolve, TypeOK, Without
<1>9. CurrentIsLive'
  BY <1>1 DEF IInv, CurrentIsLive, TypeOK
<1>10. TypeOK'
  <2>1. current' \in [Suites -> 0..MaxId]
    BY <1>1, ConstantsAssumption DEF IInv, TypeOK, ConstantsAssumption
  <2>2. Snapshots' = Snapshots
    BY <1>1 DEF Snapshots
  <2>3. /\ refcount' \in [Blobs -> Int] /\ zeroed' \in [Blobs -> {"null", "young", "old"}]
    BY <1>7 DEF Ledger, Clocks
  <2> QED BY <1>1, <1>7, <1>8, <2>1, <2>2, <2>3 DEF IInv, TypeOK
<1> QED BY <1>7, <1>8, <1>9, <1>10 DEF IInv, Ledger, ClockMatches

(* Deleting snapshots that no suite has as current, header and children.   *)
LEMMA DeleteSnapshotsIInv ==
  ASSUME IInv, NEW R \in SUBSET Ids, R \cap Currents = {}, DeleteSnapshots(R),
         UNCHANGED <<suiteVars, nextId, queue, blobVars, url>>
  PROVE  IInv'
<1>1. \A t \in Suites : current[t] \notin R
  BY CurrentFacts
<1>2. /\ \A j \in Ids \ R : /\ suiteOf'[j] = suiteOf[j] /\ members'[j] = members[j]
                            /\ key'[j] = key[j] /\ gpg'[j] = gpg[j]
      /\ \A j \in R : suiteOf'[j] = None /\ members'[j] = {} /\ key'[j] = None /\ gpg'[j] = None
      /\ adopted' = adopted \ R /\ retired' = retired \ R /\ live' = live \ R
  BY DEF DeleteSnapshots
<1>3. RefcountExact'
  <2>1. \A b \in Blobs : PinnedBy(b)' = PinnedBy(b)
    <3>1. /\ current' = current
          /\ \A t \in Suites : current[t] # 0 => members'[current[t]] = members[current[t]]
      <4>1. \A t \in Suites : current[t] # 0 => current[t] \in Ids \ R
        BY <1>1 DEF IInv, TypeOK, Ids
      <4> QED BY <4>1, <1>2 DEF suiteVars
    <3> QED BY <3>1 DEF PinnedBy
  <2> QED BY <2>1, UncountedSame DEF blobVars
<1>4. ClockMatches'
  BY DEF IInv, ClockMatches, blobVars
<1>5. ReferencesResolve'
  BY <1>2 DEF IInv, ReferencesResolve, blobVars
<1>6. CurrentIsLive'
  <2> SUFFICES ASSUME NEW t \in Suites, current'[t] # 0
               PROVE  /\ t \in tracked' /\ suiteOf'[current'[t]] = t
                      /\ current'[t] \in adopted' \ retired'
    BY DEF CurrentIsLive
  <2>1. /\ current' = current /\ tracked' = tracked
        /\ current[t] \in Ids \ R
    BY <1>1 DEF suiteVars, IInv, TypeOK, Ids
  <2>2. t \in tracked /\ suiteOf[current[t]] = t /\ current[t] \in adopted \ retired
    BY <2>1 DEF IInv, CurrentIsLive
  <2> QED BY <2>1, <2>2, <1>2, Zenon
<1>7. TypeOK'
  <2>1. Snapshots' = Snapshots \ R
    BY <1>2 DEF Snapshots
  <2>2. /\ suiteOf' \in [Ids -> Suites \cup {None}] /\ members' \in [Ids -> SUBSET Blobs]
        /\ form' \in [Ids -> Forms \cup {None}]
        /\ key' \in [Ids -> Blobs \cup {None}] /\ gpg' \in [Ids -> Blobs \cup {None}]
    BY DEF DeleteSnapshots, IInv, TypeOK
  <2>3. \A j \in Ids : /\ members'[j] # {} => j \in adopted'
                       /\ j >= nextId => suiteOf'[j] = None
    BY <1>2 DEF IInv, TypeOK
  <2> QED BY <1>2, <2>1, <2>2, <2>3, Zenon DEF IInv, TypeOK, suiteVars, blobVars
<1> QED BY <1>3, <1>4, <1>5, <1>6, <1>7 DEF IInv

LEMMA SnapshotGCIInv ==
  ASSUME IInv,
         \/ \E R \in SUBSET Ids : RunSnapshotGCBatch(R)
         \/ \E i \in Ids, C \in SUBSET Blobs : RunRetiredSnapshotGCChunk(i, C)
  PROVE  IInv'
<1>1. ASSUME NEW R \in SUBSET Ids, RunSnapshotGCBatch(R)
      PROVE  IInv'
  <2>1. R \cap Currents = {}
    BY <1>1 DEF RunSnapshotGCBatch, Orphans, Displaced
  <2> QED BY <1>1, <2>1, DeleteSnapshotsIInv DEF RunSnapshotGCBatch
<1>2. ASSUME NEW i \in Ids, NEW C \in SUBSET Blobs, RunRetiredSnapshotGCChunk(i, C)
      PROVE  IInv'
  <2>1. i \notin Currents
    BY <1>2 DEF RunRetiredSnapshotGCChunk
  <2>2. CASE C = members[i] /\ DeleteSnapshots({i}) /\ UNCHANGED <<suiteVars, nextId, queue, blobVars, url>>
    <3>1. {i} \in SUBSET Ids /\ {i} \cap Currents = {}
      BY <2>1
    <3> QED BY <2>2, <3>1, DeleteSnapshotsIInv
  <2>3. CASE DeleteMembers(i, C)
    <3>1. /\ members' = [members EXCEPT ![i] = members[i] \ C]
          /\ UNCHANGED <<suiteVars, nextId, suiteOf, form, key, gpg, adopted, retired, live, queue,
                         blobVars, url>>
      BY <2>3 DEF DeleteMembers
    <3>2. \A t \in Suites : current[t] # i
      BY <2>1, CurrentFacts
    <3>3. RefcountExact'
      <4>1. \A b \in Blobs : PinnedBy(b)' = PinnedBy(b)
        <5>1. /\ current' = current
              /\ \A t \in Suites : current[t] # 0 => members'[current[t]] = members[current[t]]
          BY <3>1, <3>2 DEF suiteVars, IInv, TypeOK, Ids
        <5> QED BY <5>1 DEF PinnedBy
      <4> QED BY <3>1, <4>1, UncountedSame DEF blobVars
    <3>4. ClockMatches' /\ CurrentIsLive'
      BY <3>1, Zenon DEF IInv, ClockMatches, CurrentIsLive, suiteVars, blobVars
    <3>6. ReferencesResolve'
      <4>1. \A j \in Ids : members'[j] \subseteq members[j]
        BY <3>1 DEF IInv, TypeOK
      <4> QED BY <3>1, <4>1, Zenon DEF IInv, ReferencesResolve, blobVars
    <3>5. TypeOK'
      BY <3>1 DEF IInv, TypeOK, suiteVars, blobVars, Snapshots
    <3> QED BY <3>3, <3>4, <3>5, <3>6 DEF IInv
  <2> QED BY <1>2, <2>2, <2>3 DEF RunRetiredSnapshotGCChunk
<1> QED BY <1>1, <1>2

LEMMA NextIInv == IInv /\ [Next]_vars => IInv'
<1> SUFFICES ASSUME IInv, [Next]_vars PROVE IInv'
  OBVIOUS
<1>1. CASE SuiteStep
  BY <1>1, SuiteRowsIInv, DeleteSuiteIInv DEF SuiteStep
<1>2. CASE BlobStep
  BY <1>2, BlobRowsIInv
<1>3. CASE SnapshotStep
  BY <1>3, SuiteRowsIInv, QuarantineIInv, CommitIInv, AddMemberIInv, SnapshotGCIInv
  DEF SnapshotStep
<1>4. CASE UNCHANGED vars
  <2> USE <1>4 DEF vars, suiteVars, snapVars, blobVars
  <2>1. TypeOK'
    BY DEF IInv, TypeOK, Snapshots
  <2>2. ClockMatches' /\ ReferencesResolve' /\ CurrentIsLive'
    BY DEF IInv, ClockMatches, ReferencesResolve, CurrentIsLive
  <2>3. \A b \in Blobs : PinnedBy(b)' = PinnedBy(b)
    BY DEF PinnedBy
  <2>4. RefcountExact'
    BY <2>3 DEF IInv, RefcountExact
  <2> QED BY <2>1, <2>2, <2>4 DEF IInv
<1> QED BY <1>1, <1>2, <1>3, <1>4 DEF Next

-----------------------------------------------------------------------------
(* The tables of the cache database always have their types.               *)
THEOREM StoreTypeCorrect == Spec => []TypeOK
<1>1. IInv => TypeOK
  BY DEF IInv
<1> QED BY InitIInv, NextIInv, <1>1, PTL DEF Spec

(* Every blob's refcount is the number of suites whose current snapshot    *)
(* has it, less the url_path deletions charged to it: CommitAdoption, the  *)
(* member repairs, suite deletion, quarantine and eviction never count a   *)
(* reference twice and never lose one.                                     *)
THEOREM RefcountIsExact == Spec => []RefcountExact
<1>1. IInv => RefcountExact
  BY DEF IInv
<1> QED BY InitIInv, NextIInv, <1>1, PTL DEF Spec

(* The grace clock of a blob row runs exactly while its refcount is not    *)
(* positive, so no row with a count escapes the collector for ever and no  *)
(* pinned row carries a stale clock.                                       *)
THEOREM ClockMatchesRefcount == Spec => []ClockMatches
<1>1. IInv => ClockMatches
  BY DEF IInv
<1> QED BY InitIInv, NextIInv, <1>1, PTL DEF Spec

(* Collection never removes a blob row that something still names.         *)
THEOREM NoDanglingReference == Spec => []ReferencesResolve
<1>1. IInv => ReferencesResolve
  BY DEF IInv
<1> QED BY InitIInv, NextIInv, <1>1, PTL DEF Spec

(* A suite's current snapshot is its own, adopted and not retired, whatever*)
(* interleaving of adoption, deletion, quarantine and collection led there.*)
THEOREM CurrentSnapshotIsLive == Spec => []CurrentIsLive
<1>1. IInv => CurrentIsLive
  BY DEF IInv
<1> QED BY InitIInv, NextIInv, <1>1, PTL DEF Spec

(* A blob with a positive refcount is a member of a current snapshot, as   *)
(* the legacy audit's pre-flight (PinnedBlobsOutsideAuditQueue) assumes.   *)
THEOREM PositiveCountIsServed == Spec => []PositiveMeansServed
<1>1. IInv => PositiveMeansServed
  <2> SUFFICES ASSUME IInv, NEW b \in Blobs, refcount[b] > 0
               PROVE  PinnedBy(b) # {}
    BY DEF PositiveMeansServed
  <2>1. /\ refcount[b] = Cardinality(PinnedBy(b)) - released[b]
        /\ released[b] \in Nat /\ refcount[b] \in Int
    BY DEF IInv, RefcountExact, TypeOK
  <2>2. Cardinality({}) = 0
    BY FS_EmptySet
  <2> QED BY <2>1, <2>2
<1> QED BY InitIInv, NextIInv, <1>1, PTL DEF Spec
=============================================================================
