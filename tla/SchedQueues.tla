---------------------------- MODULE SchedQueues -----------------------------
(***************************************************************************)
(* The freshness scheduler's queues (schedQueues in                        *)
(* internal/freshness/scheduler.go) as operators on a record k.  A suite   *)
(* is its key, a number, so that key order is <.  The fields of a          *)
(* schedItem are sets of suites, which a key in the queues at most once    *)
(* allows:                                                                 *)
(*   class[h][c], waiting[h]  the lists of host h                          *)
(*   inFlight                 hosts with a check in flight                 *)
(*   order, next              the ring of hosts and the turn (from 0)      *)
(*   queued, pending          the two key sets                             *)
(*   item                     suites whose item says waiting               *)
(*   signed, held, bypass     item.signed, item.held, item.pendingChange   *)
(*   since                    the waiting items by waitSeq                 *)
(***************************************************************************)
EXTENDS Integers, Sequences, SequencesExt, FiniteSets

CONSTANTS Suites, Hosts, HostOf

Classes == 0 .. 2      \* healthy, never checked, failing

EmptyQueues ==
    [class    |-> [h \in Hosts |-> [c \in Classes |-> <<>>]],
     waiting  |-> [h \in Hosts |-> <<>>],
     inFlight |-> {}, order |-> <<>>, next |-> 0,
     queued   |-> {}, pending |-> {},
     item     |-> {}, signed |-> {}, held |-> {}, bypass |-> {},
     since    |-> <<>>]

HostEmpty(k, h) == k.waiting[h] = <<>> /\ \A c \in Classes : k.class[h][c] = <<>>

Kept(k, h) == h \in k.inFlight \/ ~HostEmpty(k, h)

\* Mutant: the turn index is left where it was.
PruneKeepsIndex(k) ==
    [k EXCEPT !.order = SelectSeq(@, LAMBDA h : Kept(k, h))]

\* prune: the turn stays with its host or passes to the next one kept.
Prune(k) ==
    LET kept   == SelectSeq(k.order, LAMBDA h : Kept(k, h))
        before == Len(SelectSeq(SubSeq(k.order, 1, k.next), LAMBDA h : Kept(k, h)))
    IN  [k EXCEPT !.order = kept, !.next = IF before < Len(kept) THEN before ELSE 0]

\* enqueue, where pend says the suite has a pending change.
Enqueue(k, s, c, pend) ==
    IF s \in k.queued
    THEN IF pend THEN [k EXCEPT !.pending = @ \cup {s}] ELSE k
    ELSE [k EXCEPT !.class[HostOf[s]][c] = Append(@, s),
                   !.order = IF Contains(@, HostOf[s]) THEN @ ELSE Append(@, HostOf[s]),
                   !.queued = @ \cup {s},
                   !.bypass = IF pend THEN @ \cup {s} ELSE @]

\* Mutant: the key stays queued.
DoneKeepsKey(k, s) ==
    Prune([k EXCEPT !.pending = @ \ {s},
                    !.inFlight = @ \ {HostOf[s]},
                    !.item = @ \ {s}, !.signed = @ \ {s},
                    !.held = @ \ {s}, !.bypass = @ \ {s},
                    !.since = SelectSeq(@, LAMBDA t : t # s)])

\* done: the turn of s ends.
Done(k, s) ==
    Prune([k EXCEPT !.queued = @ \ {s}, !.pending = @ \ {s},
                    !.inFlight = @ \ {HostOf[s]},
                    !.item = @ \ {s}, !.signed = @ \ {s},
                    !.held = @ \ {s}, !.bypass = @ \ {s},
                    !.since = SelectSeq(@, LAMBDA t : t # s)])

\* Mutant: a parked suite always goes to the back of its host's list.
ParkAtBack(k, s, signed) ==
    [k EXCEPT !.inFlight = @ \ {HostOf[s]},
              !.item = @ \cup {s},
              !.signed = IF signed THEN @ \cup {s} ELSE @ \ {s},
              !.since = IF s \in k.item THEN @ ELSE Append(@, s),
              !.waiting[HostOf[s]] = Append(@, s)]

\* park: to its place by the time it first became waiting.
Park(k, s, signed) ==
    LET since == IF s \in k.item THEN k.since ELSE Append(k.since, s)
        older(t) == \E i, j \in DOMAIN since : i < j /\ since[i] = t /\ since[j] = s
        place == Len(SelectSeq(k.waiting[HostOf[s]], older)) + 1
    IN  [k EXCEPT !.inFlight = @ \ {HostOf[s]},
                  !.item = @ \cup {s},
                  !.signed = IF signed THEN @ \cup {s} ELSE @ \ {s},
                  !.since = since,
                  !.waiting[HostOf[s]] = InsertAt(@, place, s)]

\* unhold
Unhold(k) == [k EXCEPT !.held = {}]

InLists(k) == UNION {ToSet(k.waiting[h]) : h \in Hosts}

\* refreshSigned: the flags of the waiters in the lists.
RefreshSigned(k, signed) ==
    [k EXCEPT !.signed = (@ \ InLists(k)) \cup (signed \cap InLists(k))]

\* pop's choice on host h: the first waiter that is not held and admitted, or
\* the head of the best class; 0 for nothing.  pop's parameter admit is the set
\* of the pairs of host and signed flag for which it answers true.
Admitted(k, h, admit) ==
    SelectSeq(k.waiting[h], LAMBDA w : w \notin k.held /\ <<h, w \in k.signed>> \in admit)

ClassHeads(k, h) ==
    LET full == SelectSeq(<<0, 1, 2>>, LAMBDA c : k.class[h][c] # <<>>)
    IN  IF full = <<>> THEN 0 ELSE Head(k.class[h][Head(full)])

Choice(k, h, admit) ==
    IF h \in k.inFlight THEN 0
    ELSE IF Admitted(k, h, admit) # <<>> THEN Head(Admitted(k, h, admit))
    ELSE ClassHeads(k, h)

\* The ring from the host whose turn it is.
Turns(k) == SubSeq(k.order, k.next + 1, Len(k.order)) \o SubSeq(k.order, 1, k.next)

Ready(k, admit) == SelectSeq(Turns(k), LAMBDA h : Choice(k, h, admit) # 0)

\* Mutant: an offered waiter stays in its list.
TakeKeepsWaiter(k, s) ==
    LET h == HostOf[s]
        at == CHOOSE i \in DOMAIN k.order : k.order[i] = h
        drop(l) == SelectSeq(l, LAMBDA t : t # s)
        marked == s \in k.pending /\ s \notin k.item
    IN  [k EXCEPT !.class[h] = [c \in Classes |-> drop(@[c])],
                  !.inFlight = @ \cup {h},
                  !.next = at % Len(k.order),
                  !.bypass = IF marked THEN @ \cup {s} ELSE @,
                  !.pending = IF marked THEN @ \ {s} ELSE @]

\* Take suite s off its host's lists; a pending mark moves to the item of a
\* class-queued suite.
Take(k, s) ==
    LET h == HostOf[s]
        at == CHOOSE i \in DOMAIN k.order : k.order[i] = h
        drop(l) == SelectSeq(l, LAMBDA t : t # s)
        marked == s \in k.pending /\ s \notin k.item
    IN  [k EXCEPT !.waiting[h] = drop(@),
                  !.class[h] = [c \in Classes |-> drop(@[c])],
                  !.inFlight = @ \cup {h},
                  !.next = at % Len(k.order),
                  !.bypass = IF marked THEN @ \cup {s} ELSE @,
                  !.pending = IF marked THEN @ \ {s} ELSE @]
=============================================================================
