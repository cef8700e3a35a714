---------------------------- MODULE MCSuiteLock ----------------------------
(* SuiteLock with interchangeable goroutines and mutexes.                  *)
EXTENDS SuiteLock, TLC

Symmetry == Permutations(Procs) \cup Permutations(Mutexes)
=============================================================================
