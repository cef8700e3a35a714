------------------------------ MODULE HostSem -------------------------------
(***************************************************************************)
(* The per-host semaphore (internal/hostsem), for one host.  The map entry *)
(* of the host is a slot object with a token channel and a reference       *)
(* count; it is deleted when its last reference goes and a later caller    *)
(* makes a new one.  Each map access under Sem.mu is one step, as is each  *)
(* channel operation; between them callers interleave.                     *)
(***************************************************************************)
EXTENDS Integers, FiniteSets

CONSTANTS Procs,     \* callers
          Slots,     \* slot objects allocation may return
          Limit,     \* tokens per slot
          None       \* no slot

ASSUME ConstantsAssumption ==
    /\ IsFiniteSet(Procs)
    /\ Limit \in Nat
    /\ None \notin Slots

VARIABLES entry,     \* Sem.slots[host]: a slot, or None
          refs,      \* [Slots -> Nat]: hostSlot.refs
          tokens,    \* [Slots -> Nat]: len(hostSlot.ch)
          pc,        \* [Procs -> step]
          mine       \* [Procs -> the slot the caller's closure points at]

vars == <<entry, refs, tokens, pc, mine>>

\* Steps in which a caller counts in refs.
Referring == {"waiting", "holding", "dropping"}

Init ==
    /\ entry = None
    /\ refs = [x \in Slots |-> 0]
    /\ tokens = [x \in Slots |-> 0]
    /\ pc = [p \in Procs |-> "idle"]
    /\ mine = [p \in Procs |-> None]

\* The slot Acquire works with: the map's, or a newly made one that no closure
\* refers to any more.
SlotFor(x) ==
    IF entry = None THEN \A p \in Procs : mine[p] # x ELSE x = entry

\* Acquire, under Sem.mu: find or make the slot and count the reference.
Register(p) ==
    \E x \in Slots :
      /\ pc[p] = "idle"
      /\ SlotFor(x)
      /\ entry' = x
      /\ refs' = [refs EXCEPT ![x] = (IF entry = None THEN 0 ELSE @) + 1]
      /\ tokens' = IF entry = None THEN [tokens EXCEPT ![x] = 0] ELSE tokens
      /\ mine' = [mine EXCEPT ![p] = x]
      /\ pc' = [pc EXCEPT ![p] = "waiting"]

\* Acquire's send on the slot's channel, which blocks while it is full.
Send(p) ==
    /\ pc[p] = "waiting"
    /\ tokens[mine[p]] < Limit
    /\ tokens' = [tokens EXCEPT ![mine[p]] = @ + 1]
    /\ pc' = [pc EXCEPT ![p] = "holding"]
    /\ UNCHANGED <<entry, refs, mine>>

\* Mutant: a caller whose context ended gives back a token it never took.
CancelReceives(p) ==
    /\ pc[p] = "waiting"
    /\ tokens[mine[p]] > 0
    /\ tokens' = [tokens EXCEPT ![mine[p]] = @ - 1]
    /\ pc' = [pc EXCEPT ![p] = "dropping"]
    /\ UNCHANGED <<entry, refs, mine>>

\* Acquire's context ends first: no token was taken.
Cancel(p) ==
    /\ pc[p] = "waiting"
    /\ pc' = [pc EXCEPT ![p] = "dropping"]
    /\ UNCHANGED <<entry, refs, tokens, mine>>

\* Mutant: the release forgets to give the token back.
ReceiveNothing(p) ==
    /\ pc[p] = "holding"
    /\ pc' = [pc EXCEPT ![p] = "dropping"]
    /\ UNCHANGED <<entry, refs, tokens, mine>>

\* The release closure, which runs once: give the token back.
Receive(p) ==
    /\ pc[p] = "holding"
    /\ tokens' = [tokens EXCEPT ![mine[p]] = @ - 1]
    /\ pc' = [pc EXCEPT ![p] = "dropping"]
    /\ UNCHANGED <<entry, refs, mine>>

\* The reference of p goes, and the map entry is set to e.
Unref(p, e) ==
    /\ pc[p] = "dropping"
    /\ refs' = [refs EXCEPT ![mine[p]] = @ - 1]
    /\ entry' = e
    /\ pc' = [pc EXCEPT ![p] = "idle"]
    /\ mine' = [mine EXCEPT ![p] = None]
    /\ UNCHANGED tokens

\* Mutant: the entry is deleted while other callers still refer to the slot.
DropRefDeletesEarly(p) == Unref(p, IF entry = mine[p] THEN None ELSE entry)

\* Mutant: the entry of a slot nobody refers to stays in the map.
DropRefKeepsEntry(p) == Unref(p, entry)

\* dropRef, under Sem.mu: delete the map entry with its last reference, if it
\* still is this slot.
DropRef(p) ==
    Unref(p, IF refs[mine[p]] = 1 /\ entry = mine[p] THEN None ELSE entry)

\* Snapshot's reading of the host, under Sem.mu: the length of the entry's
\* channel; a host without an entry has nothing in flight.
Inflight == IF entry = None THEN 0 ELSE tokens[entry]

Step(p) == Register(p) \/ Send(p) \/ Cancel(p) \/ Receive(p) \/ DropRef(p)

Next == \E p \in Procs : Step(p)

Spec == Init /\ [][Next]_vars

\* A holder returns its token when its fetch ends, dropRef is straight-line
\* code, and blocked senders on a Go channel are served first come, first served.
Fairness ==
    \A p \in Procs : /\ WF_vars(Receive(p))
                     /\ WF_vars(DropRef(p))
                     /\ SF_vars(Send(p))

LiveSpec == Spec /\ Fairness

-----------------------------------------------------------------------------
Holders == {p \in Procs : pc[p] = "holding"}

TypeOK ==
    /\ entry \in Slots \cup {None}
    /\ refs \in [Slots -> Nat] /\ tokens \in [Slots -> Nat]
    /\ pc \in [Procs -> Referring \cup {"idle"}]
    /\ mine \in [Procs -> Slots \cup {None}]
    /\ \A p \in Procs : (pc[p] = "idle") <=> (mine[p] = None)

\* The limit holds for the host, not only for one slot object: however often
\* the entry is deleted and made anew, at most Limit callers hold a token.
HostLimit == Cardinality(Holders) <= Limit

\* The map holds an entry exactly while a caller refers to it, and all callers
\* refer to that one ("bounded by currently-active hosts").
EntryIffReferenced ==
    /\ \A p \in Procs : pc[p] \in Referring => entry = mine[p]
    /\ entry # None => \E p \in Procs : mine[p] = entry

Abstract == INSTANCE Semaphore WITH inside <- Holders, free <- Limit - Inflight

\* The map of slots and channels implements one plain counting semaphore: what
\* Snapshot reads off the entry's channel, or a missing entry, moves by one with
\* each caller that enters or leaves and with nothing else, across every deletion
\* and re-creation of the slot.
ImplementsSemaphore == Abstract!Spec

\* A caller that waits gets a token or gives up; a lost token would block it
\* for good.
WaiterServed ==
    \A p \in Procs : Limit > 0 => (pc[p] = "waiting" ~> pc[p] # "waiting")
=============================================================================
