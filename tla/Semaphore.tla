----------------------------- MODULE Semaphore ------------------------------
(* What a host's semaphore promises: a fixed number of tokens, each held   *)
(* by at most one caller; a caller enters only by taking a free token and  *)
(* gives it back when it leaves.                                           *)
EXTENDS Integers

CONSTANTS Procs, Limit

VARIABLES inside,   \* the callers that hold a token
          free      \* how many tokens are free

Init == inside = {} /\ free = Limit

Enter(p) ==
    /\ p \notin inside
    /\ free > 0
    /\ inside' = inside \cup {p}
    /\ free' = free - 1

Leave(p) ==
    /\ p \in inside
    /\ inside' = inside \ {p}
    /\ free' = free + 1

Next == \E p \in Procs : Enter(p) \/ Leave(p)

Spec == Init /\ [][Next]_<<inside, free>>
=============================================================================
