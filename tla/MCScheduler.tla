---------------------------- MODULE MCScheduler -----------------------------
(* Instances of Scheduler for TLC: suite 1 and 2 on one host, 3 on another. *)
EXTENDS Scheduler

TheHostOf == [s \in Suites |-> IF s = 3 THEN "b" ELSE "a"]

\* Faults anywhere, an unreadable list of suites included; upstream publishes and
\* an operator reconciles the signed suite, and clients check the unsigned one.
MixedEvents ==
    ({"fault"} \X (Suites \cup {0})) \cup ({"publish", "reconcile"} \X {1})
      \cup ({"client"} \X Unsigned)

\* An operator reconciles the unsigned suite.
Reconcile3 == {<<"reconcile", 3>>}

\* Client checks only.
ClientChecks == {"client"} \X Suites
=============================================================================
