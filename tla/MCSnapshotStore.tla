--------------------------- MODULE MCSnapshotStore --------------------------
(* Instances of SnapshotStore for TLC.  The transactions treat suites,     *)
(* packages and blobs alike, so permuting them is sound for the safety     *)
(* runs; the liveness runs use no symmetry.                                *)
EXTENDS SnapshotStore, TLC

Symmetry == Permutations(Suites) \cup Permutations(Blobs)
=============================================================================
