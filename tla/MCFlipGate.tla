----------------------------- MODULE MCFlipGate -----------------------------
(* FlipGate with interchangeable clients.                                  *)
EXTENDS FlipGate, TLC

Symmetry == Permutations(Clients) \cup Permutations(Suites)
=============================================================================
