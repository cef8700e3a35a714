------------------------------ MODULE FlipGate ------------------------------
(***************************************************************************)
(* The flip barrier (internal/flipgate/gate.go): before an adoption makes  *)
(* a suite's new snapshot current, it waits until no client is between the *)
(* suite's old anchor (InRelease) and the index files that the anchor      *)
(* names.  A flip waits for natural quiet (phase A), takes the one hold    *)
(* token, keeps new anchor requests waiting (phase B) until the suite is   *)
(* quiet or the hold must be cut short, and commits inside the hold.       *)
(*                                                                         *)
(* Time is discrete.  An instant the code compares with the clock is kept  *)
(* as its age, which saturates where the comparisons stop telling ages     *)
(* apart.  A goroutine that can go on does so before time passes; a commit *)
(* and a client's download take as long as they like.                      *)
(***************************************************************************)
EXTENDS Integers, FiniteSets, Sequences, SequencesExt

CONSTANTS Suites, Clients, None,
          Quiet,          \* flip_quiet_period
          HoldMax, CommitMargin, PhaseAMax, TokenWaitMax, AnchorTimeout,
          MaxWaiters

\* The load-bearing relation among the constants, and the range of Quiet.
ASSUME FlipGateAssumption ==
    /\ Quiet \in Nat \ {0} /\ HoldMax \in Nat /\ CommitMargin \in Nat
    /\ Quiet <= HoldMax - CommitMargin
    /\ HoldMax < AnchorTimeout /\ AnchorTimeout \in Nat
    /\ PhaseAMax \in Nat /\ TokenWaitMax \in Nat /\ MaxWaiters \in Nat

VARIABLES entry,          \* Gate.entries: [Suites -> an entry, or None]
          lastDone,       \* [Entries -> age], Quiet when long ago or never
          lastUse,        \* [Entries -> age], 2*Quiet when long ago
          lastSweep,
          holder,         \* the entry of Gate.holder, or None
          holdAge,        \* since hold.start
          held,           \* hold.heldTotal > 0
          queue,          \* suites whose flips wait for the token
          lastEnd, lastEndBy, prevEnd,
          closed,         \* Gate.closed
          pc,             \* [Suites -> where the suite's flip is]
          mine,           \* [Suites -> the flip's entry]
          since,          \* [Suites -> age of phase A or of the token wait]
          alarm,          \* [Suites -> time left on waitFor's timer]
          cutShort,       \* flips that commit with their quiet cut short
          cpc,            \* [Clients -> where the client's anchor request is]
          at,             \* [Clients -> the entry it is registered or waits on]
          age,            \* [Clients -> age of its registration]
          over,           \* clients served at once because the hold was full
          got             \* ghost: [Clients -> [Suites -> age]], see below

gateVars  == <<entry, lastDone, lastUse, lastSweep>>
endVars   == <<lastEnd, lastEndBy, prevEnd>>
holdVars  == <<holder, holdAge, held, queue, endVars>>
flipVars  == <<pc, mine, since, alarm, cutShort>>
clientVars == <<cpc, at, age, over, got>>
vars == <<gateVars, holdVars, closed, flipVars, clientVars>>

\* A suite's entry may be dropped and made again; two incarnations are told apart.
Entries == Suites \X {1, 2}
SuiteOf(e) == e[1]

\* got[c][s] < Quiet: client c holds the anchor of s that is current and has
\* still to fetch its index files, which it does within Quiet once nothing it
\* asked for before is held.

Init ==
    /\ entry = [s \in Suites |-> None]
    /\ lastDone = [e \in Entries |-> Quiet]
    /\ lastUse = [e \in Entries |-> 2 * Quiet]
    /\ lastSweep = Quiet
    /\ holder = None /\ holdAge = 0 /\ held = FALSE /\ queue = <<>>
    /\ lastEnd = Quiet /\ lastEndBy = None /\ prevEnd = Quiet
    /\ closed = FALSE
    /\ pc = [s \in Suites |-> "none"]
    /\ mine = [s \in Suites |-> None]
    /\ since = [s \in Suites |-> 0] /\ alarm = [s \in Suites |-> 0]
    /\ cutShort = {}
    /\ cpc = [c \in Clients |-> "idle"]
    /\ at = [c \in Clients |-> None] /\ age = [c \in Clients |-> 0]
    /\ over = {}
    /\ got = [c \in Clients |-> [s \in Suites |-> Quiet]]

-----------------------------------------------------------------------------
(* Entries.                                                                *)

InFlight(e) == {c \in Clients : at[c] = e /\ cpc[c] \in {"reading", "sending", "stale"}}

\* Mutant: an entry is live by its completions, not by its last use.
LiveByCompletions(e) ==
    \/ \E s \in Suites : mine[s] = e
    \/ holder = e
    \/ InFlight(e) # {}
    \/ lastDone[e] < Quiet

\* liveLocked
Live(e) ==
    \/ \E s \in Suites : mine[s] = e
    \/ holder = e
    \/ InFlight(e) # {}
    \/ lastUse[e] < Quiet

\* sweepLocked, at most once per quiet period: what Gate.entries is after it.
Swept ==
    IF lastSweep < Quiet THEN entry
    ELSE [s \in Suites |->
            IF entry[s] # None /\ ~Live(entry[s]) /\ lastUse[entry[s]] >= 2 * Quiet
            THEN None ELSE entry[s]]

\* The entry entryLocked gives for s: the one in the map, or a new one, which no
\* request knows.
EntryFor(s) ==
    IF Swept[s] # None THEN Swept[s]
    ELSE IF \E c \in Clients : at[c] = <<s, 1>> THEN <<s, 2>> ELSE <<s, 1>>

\* The entries that go from the map lose their stamps.
Forgotten(stamp, map, never) ==
    [e \in Entries |-> IF entry[SuiteOf(e)] = e /\ map[SuiteOf(e)] # e THEN never ELSE stamp[e]]

\* entryLocked: sweep, make the entry if it is not there, and stamp its use.
TakeEntry(s) ==
    LET e == EntryFor(s) IN
    /\ entry' = [Swept EXCEPT ![s] = e]
    /\ lastSweep' = IF lastSweep < Quiet THEN lastSweep ELSE 0
    /\ lastUse' = [Forgotten(lastUse, Swept, 2 * Quiet) EXCEPT ![e] = 0]
    /\ lastDone' = Forgotten(lastDone, Swept, Quiet)

Purge(s) ==
    /\ pc[s] = "none"                  \* the caller holds the suite's mutex
    /\ entry[s] # None /\ ~Live(entry[s])
    /\ entry' = [entry EXCEPT ![s] = None]
    /\ lastUse' = Forgotten(lastUse, entry', 2 * Quiet)
    /\ lastDone' = Forgotten(lastDone, entry', Quiet)
    /\ UNCHANGED <<lastSweep, holdVars, closed, flipVars, clientVars>>

-----------------------------------------------------------------------------
(* Waits: how long until a condition may hold, 0 when it holds now.        *)

Forever == PhaseAMax + HoldMax + AnchorTimeout + Quiet    \* until a change

\* localQuietLocked
LocalWait(e) ==
    LET young == {age[c] : c \in {d \in InFlight(e) : age[d] < AnchorTimeout}}
    IN  IF young # {} THEN AnchorTimeout - Min(young) ELSE Quiet - lastDone[e]

\* holdsQuietLocked
HoldsWait == IF holder # None THEN Forever ELSE Quiet - lastEnd

\* otherHoldsQuietLocked
OthersWait(e) == Quiet - (IF lastEndBy = e THEN prevEnd ELSE lastEnd)

Earliest(a, b) == IF a = 0 THEN b ELSE IF b = 0 \/ a < b THEN a ELSE b

Cut == HoldMax - CommitMargin

\* Phase A's and phase B's conditions for going on.
QuietA(s) == LocalWait(mine[s]) = 0 /\ HoldsWait = 0
QuietB(s) == OthersWait(mine[s]) = 0 /\ (LocalWait(mine[s]) = 0 \/ holdAge >= Cut)

-----------------------------------------------------------------------------
(* Wakes and hold ends.                                                    *)

Awake(p) == [s \in Suites |-> IF p[s] = "sleepA" THEN "phaseA"
                              ELSE IF p[s] = "sleepB" THEN "phaseB" ELSE p[s]]

\* broadcastLocked, with the program counters p otherwise.
Broadcast(p) ==
    /\ pc' = Awake(p)
    /\ alarm' = [s \in Suites |-> 0]

Waiting == {c \in Clients : cpc[c] = "waiting"}

\* A client released from a hold has its index files still to fetch.
Unblocked(c) == [s \in Suites |-> IF got[c][s] < Quiet THEN 0 ELSE Quiet]

\* Mutant: the token is put back, whoever waits for it.
EndHoldKeepsQueue(cl) ==
    /\ holder' = None
    /\ holdAge' = 0 /\ held' = FALSE
    /\ UNCHANGED <<queue, endVars>>
    /\ lastUse' = [lastUse EXCEPT ![holder] = 0]
    /\ cpc' = [c \in Clients |-> IF c \in Waiting THEN "released" ELSE cpc[c]]
    /\ got' = [c \in Clients |-> IF c \in Waiting THEN Unblocked(c) ELSE got[c]]

\* endHoldLocked of the hold in progress; cl is Gate.closed.
EndHold(cl) ==
    /\ IF queue # <<>> /\ ~cl
       THEN holder' = mine[Head(queue)] /\ queue' = Tail(queue)
       ELSE holder' = None /\ UNCHANGED queue
    /\ holdAge' = 0 /\ held' = FALSE
    /\ IF held
       THEN /\ lastEnd' = 0 /\ lastEndBy' = holder
            /\ prevEnd' = IF lastEndBy # holder THEN lastEnd ELSE prevEnd
       ELSE UNCHANGED endVars
    /\ lastUse' = [lastUse EXCEPT ![holder] = 0]
    /\ cpc' = [c \in Clients |-> IF c \in Waiting THEN "released" ELSE cpc[c]]
    /\ got' = [c \in Clients |-> IF c \in Waiting THEN Unblocked(c) ELSE got[c]]

\* The deferred functions of Flip, and of runHold if the hold is not over.
FlipEnds(s) ==
    /\ mine' = [mine EXCEPT ![s] = None]
    /\ since' = [since EXCEPT ![s] = 0]
    /\ cutShort' = cutShort \ {s}
    /\ IF holder = mine[s]
       THEN EndHold(closed) /\ Broadcast([pc EXCEPT ![s] = "none"])
       ELSE /\ lastUse' = [lastUse EXCEPT ![mine[s]] = 0]
            /\ pc' = [pc EXCEPT ![s] = "none"]
            /\ alarm' = [alarm EXCEPT ![s] = 0]
            /\ UNCHANGED <<holdVars, cpc, got>>
    /\ UNCHANGED <<entry, lastDone, lastSweep, closed, at, age, over>>

\* The flip goes on to p.
Moves(s, p) ==
    /\ pc' = [pc EXCEPT ![s] = p]
    /\ alarm' = [alarm EXCEPT ![s] = 0]
    /\ since' = [since EXCEPT ![s] = IF p \in {"phaseA", "sleepA"} THEN @ ELSE 0]
    /\ UNCHANGED <<gateVars, closed, mine, clientVars>>

\* waitFor
Sleeps(s, p, wait, limit) ==
    /\ pc' = [pc EXCEPT ![s] = p]
    /\ alarm' = [alarm EXCEPT ![s] = Earliest(wait, limit)]
    /\ UNCHANGED <<gateVars, holdVars, closed, mine, since, cutShort, clientVars>>

-----------------------------------------------------------------------------
(* A flip.                                                                 *)

FlipStarts(s) ==
    /\ pc[s] = "none"
    /\ TakeEntry(s)
    /\ pc' = [pc EXCEPT ![s] = "phaseA"]
    /\ mine' = [mine EXCEPT ![s] = EntryFor(s)]
    /\ UNCHANGED <<holdVars, closed, since, alarm, cutShort, clientVars>>

PhaseA(s) ==
    /\ pc[s] = "phaseA"
    /\ IF closed THEN FlipEnds(s)
       ELSE IF QuietA(s) \/ since[s] >= PhaseAMax
       THEN Moves(s, "acquire") /\ UNCHANGED <<holdVars, cutShort>>
       ELSE Sleeps(s, "sleepA", Earliest(LocalWait(mine[s]), HoldsWait), PhaseAMax - since[s])

\* acquire, up to its wait.
Acquire(s) ==
    /\ pc[s] = "acquire"
    /\ IF closed THEN FlipEnds(s)
       ELSE /\ UNCHANGED <<cutShort, endVars>>
            /\ IF holder = None /\ queue = <<>>
               THEN /\ holder' = mine[s] /\ holdAge' = 0 /\ held' = FALSE
                    /\ UNCHANGED queue
                    /\ Moves(s, "phaseB")
               ELSE /\ queue' = Append(queue, s)
                    /\ UNCHANGED <<holder, holdAge, held>>
                    /\ Moves(s, "token")

\* Mutant: a flip that gives up stays in the queue.
LeaveQueueNot(s) == UNCHANGED queue

LeaveQueue(s) == queue' = SelectSeq(queue, LAMBDA t : t # s)

\* The token wait ends: granted, over, or stopped.
TokenWaitEnds(s) ==
    /\ pc[s] = "token"
    /\ \/ /\ holder = mine[s] /\ ~closed
          /\ Moves(s, "phaseB") /\ UNCHANGED <<holdVars, cutShort>>
       \/ /\ holder # mine[s] /\ ~closed
          /\ since[s] >= TokenWaitMax
          /\ LeaveQueue(s)
          /\ Moves(s, "start") /\ UNCHANGED <<holder, holdAge, held, endVars, cutShort>>
       \/ /\ closed
          /\ LeaveQueue(s)
          /\ Moves(s, "done") /\ UNCHANGED <<holder, holdAge, held, endVars, cutShort>>

\* Mutant: the hold waits for local quiet without the cut.
PhaseBNoCut(s) ==
    /\ pc[s] = "phaseB"
    /\ IF closed THEN FlipEnds(s)
       ELSE /\ holdAge < HoldMax
            /\ IF OthersWait(mine[s]) = 0 /\ LocalWait(mine[s]) = 0
               THEN Moves(s, "start") /\ UNCHANGED <<holdVars, cutShort>>
               ELSE Sleeps(s, "sleepB", Earliest(LocalWait(mine[s]), OthersWait(mine[s])),
                           HoldMax - holdAge)

\* runHold's loop.
PhaseB(s) ==
    /\ pc[s] = "phaseB"
    /\ IF closed THEN FlipEnds(s)
       ELSE /\ holdAge < HoldMax
            /\ IF QuietB(s)
               THEN /\ Moves(s, "start")
                    /\ cutShort' = IF LocalWait(mine[s]) = 0 THEN cutShort
                                   ELSE cutShort \cup {s}
                    /\ UNCHANGED holdVars
               ELSE Sleeps(s, "sleepB", Earliest(LocalWait(mine[s]), OthersWait(mine[s])),
                           (IF holdAge < Cut THEN Cut ELSE HoldMax) - holdAge)

\* stopErr, between the loop and the commit: a gate closed since aborts the flip.
StartCommit(s) ==
    /\ pc[s] = "start"
    /\ IF closed THEN FlipEnds(s)
       ELSE Moves(s, "commit") /\ UNCHANGED <<holdVars, cutShort>>

SleepEnds(s) ==
    /\ pc[s] \in {"sleepA", "sleepB"}
    /\ alarm[s] = 0
    /\ Moves(s, Awake(pc)[s]) /\ UNCHANGED <<holdVars, cutShort>>

\* expireHold, by the timer that runs during the commit or by runHold's loop,
\* which starts the commit then.
Expire(s) ==
    /\ holder = mine[s] /\ holder # None /\ holdAge >= HoldMax
    /\ pc[s] \in {"phaseB", "commit"}
    /\ EndHold(closed)
    /\ Broadcast([pc EXCEPT ![s] = IF @ = "phaseB" THEN "start" ELSE "commit"])
    /\ UNCHANGED <<entry, lastDone, lastSweep, closed, mine, since, cutShort, at, age, over>>

\* The transaction commits: the suite's anchor and index files are new.
Commit(s) ==
    /\ pc[s] = "commit"
    /\ pc' = [pc EXCEPT ![s] = "done"]
    /\ cpc' = [c \in Clients |-> IF cpc[c] = "sending" /\ SuiteOf(at[c]) = s
                                 THEN "stale" ELSE cpc[c]]
    /\ got' = [c \in Clients |-> [got[c] EXCEPT ![s] = Quiet]]
    /\ over' = {p \in over : p[2] # s}
    /\ UNCHANGED <<gateVars, holdVars, closed, mine, since, alarm, cutShort, at, age>>

CommitFails(s) ==
    /\ pc[s] = "commit"
    /\ pc' = [pc EXCEPT ![s] = "done"]
    /\ over' = {p \in over : p[2] # s}
    /\ UNCHANGED <<gateVars, holdVars, closed, mine, since, alarm, cutShort, cpc, at,
                   age, got>>

Returns(s) == pc[s] = "done" /\ FlipEnds(s)

-----------------------------------------------------------------------------
(* An anchor request (Handler.anchorStart, AnchorStart, Token.Done).       *)

\* join: the request waits in the hold of its suite, or registers.
Start(c, s) ==
    LET e == EntryFor(s)
        joins == holder = e /\ Cardinality(Waiting) < MaxWaiters
    IN  /\ cpc[c] = "idle"
        /\ TakeEntry(s)
        /\ at' = [at EXCEPT ![c] = e]
        /\ cpc' = [cpc EXCEPT ![c] = IF joins THEN "waiting" ELSE "reading"]
        /\ held' = (held \/ joins)
        /\ over' = IF ~joins /\ holder = e /\ pc[s] \in {"start", "commit"}
                   THEN over \cup {<<c, s>>} ELSE over \ {<<c, s>>}
        /\ got' = [got EXCEPT ![c][s] = Quiet]
        /\ UNCHANGED <<holder, holdAge, queue, endVars, closed, flipVars, age>>

\* A waiter whose hold ended registers.  Its own timer runs from its join, so
\* the hold's bound always comes first.
Register(c) ==
    /\ cpc[c] = "released"
    /\ cpc' = [cpc EXCEPT ![c] = "reading"]
    /\ lastUse' = [lastUse EXCEPT ![at[c]] = 0]
    /\ UNCHANGED <<entry, lastDone, lastSweep, holdVars, closed, flipVars, at, age, over, got>>

\* The client leaves while it waits.
LeaveHold(c) ==
    /\ cpc[c] = "waiting"
    /\ cpc' = [cpc EXCEPT ![c] = "idle"]
    /\ at' = [at EXCEPT ![c] = None]
    /\ got' = [got EXCEPT ![c] = [s \in Suites |-> Quiet]]
    /\ UNCHANGED <<gateVars, holdVars, closed, flipVars, age, over>>

\* The handler reads the snapshot pointer and sends the current anchor.
Read(c) ==
    /\ cpc[c] = "reading"
    /\ cpc' = [cpc EXCEPT ![c] = "sending"]
    /\ UNCHANGED <<gateVars, holdVars, closed, flipVars, at, age, over, got>>

Finished(c, counts) ==
    LET e == at[c] IN
    /\ cpc[c] \in {"sending", "stale"}
    /\ cpc' = [cpc EXCEPT ![c] = "idle"]
    /\ at' = [at EXCEPT ![c] = None]
    /\ age' = [age EXCEPT ![c] = 0]
    /\ lastUse' = [lastUse EXCEPT ![e] = 0]
    /\ lastDone' = IF counts THEN [lastDone EXCEPT ![e] = 0] ELSE lastDone
    /\ got' = [got EXCEPT ![c][SuiteOf(e)] =
                 IF cpc[c] = "sending" /\ (age[c] < AnchorTimeout \/ holder # e) THEN 0 ELSE Quiet]
    /\ UNCHANGED <<entry, lastSweep, holdVars, closed, mine, since, cutShort, over>>

\* Mutant: a completion during a hold is not recorded.
DoneIgnoredInHold(c) == Finished(c, holder # at[c]) /\ Broadcast(pc)

\* Mutant: a completion wakes nobody.
DoneSilent(c) ==
    Finished(c, age[c] < AnchorTimeout \/ holder # at[c]) /\ UNCHANGED <<pc, alarm>>

\* Token.Done: a late completion counts only while the suite is not held.
Done(c) == Finished(c, age[c] < AnchorTimeout \/ holder # at[c]) /\ Broadcast(pc)

-----------------------------------------------------------------------------
(* Shutdown and time.                                                      *)

\* At the signal.  The context of a flip ends only later, when every flip that
\* is not in its commit has left.
Close ==
    /\ ~closed
    /\ closed' = TRUE
    /\ IF holder # None THEN EndHold(TRUE) ELSE UNCHANGED <<holdVars, lastUse, cpc, got>>
    /\ Broadcast(pc)
    /\ UNCHANGED <<entry, lastDone, lastSweep, mine, since, cutShort, at, age, over>>

\* Nothing is due at this instant.
Settled ==
    /\ \A s \in Suites :
         /\ pc[s] \in {"none", "sleepA", "sleepB", "token", "commit"}
         /\ pc[s] \in {"sleepA", "sleepB"} => alarm[s] > 0
         /\ pc[s] = "token" => since[s] < TokenWaitMax /\ ~closed /\ holder # mine[s]
    /\ holder # None => holdAge < HoldMax
    /\ \A c \in Clients : cpc[c] # "released"

Older(x, max) == IF x < max THEN x + 1 ELSE max

Tick ==
    /\ Settled
    /\ lastDone' = [e \in Entries |-> Older(lastDone[e], Quiet)]
    /\ lastUse' = [e \in Entries |-> Older(lastUse[e], 2 * Quiet)]
    /\ lastSweep' = Older(lastSweep, Quiet)
    /\ holdAge' = IF holder = None THEN 0 ELSE holdAge + 1
    /\ lastEnd' = Older(lastEnd, Quiet) /\ prevEnd' = Older(prevEnd, Quiet)
    /\ lastEndBy' = IF Older(lastEnd, Quiet) = Quiet THEN None ELSE lastEndBy
    /\ since' = [s \in Suites |-> IF pc[s] \in {"sleepA", "token"} THEN since[s] + 1 ELSE 0]
    /\ alarm' = [s \in Suites |-> IF alarm[s] > 0 THEN alarm[s] - 1 ELSE 0]
    /\ age' = [c \in Clients |-> IF cpc[c] \in {"reading", "sending", "stale"}
                                 THEN Older(age[c], AnchorTimeout) ELSE 0]
    /\ got' = [c \in Clients |-> IF c \in Waiting THEN got[c]
                                 ELSE [s \in Suites |-> Older(got[c][s], Quiet)]]
    /\ UNCHANGED <<entry, holder, held, queue, closed, pc, mine, cutShort, cpc, at, over>>

FlipStep(s) ==
    \/ PhaseA(s) \/ Acquire(s) \/ TokenWaitEnds(s) \/ PhaseB(s) \/ StartCommit(s)
    \/ SleepEnds(s) \/ Expire(s) \/ Commit(s) \/ CommitFails(s) \/ Returns(s)

Next ==
    \/ \E s \in Suites : FlipStarts(s) \/ FlipStep(s) \/ Purge(s)
    \/ \E c \in Clients, s \in Suites : Start(c, s)
    \/ \E c \in Clients : Register(c) \/ LeaveHold(c) \/ Read(c) \/ Done(c)
    \/ Close \/ Tick

Spec == Init /\ [][Next]_vars

-----------------------------------------------------------------------------
(* Properties.                                                             *)

\* Types; a queued flip waits for the token, and the holder is a flip's entry.
TypeOK ==
    /\ entry \in [Suites -> Entries \cup {None}]
    /\ lastDone \in [Entries -> 0 .. Quiet] /\ lastUse \in [Entries -> 0 .. 2 * Quiet]
    /\ holder \in Entries \cup {None} /\ holdAge \in 0 .. HoldMax
    /\ {lastSweep, lastEnd, prevEnd} \subseteq 0 .. Quiet
    /\ lastEndBy \in Entries \cup {None}
    /\ pc \in [Suites -> {"none", "phaseA", "sleepA", "acquire", "token", "phaseB",
                          "sleepB", "start", "commit", "done"}]
    /\ \A s \in Suites : (mine[s] = None) <=> (pc[s] = "none")
    /\ IsInjective(queue) /\ \A s \in ToSet(queue) : pc[s] = "token"
    /\ holder # None => \E s \in Suites : mine[s] = holder
    /\ cpc \in [Clients -> {"idle", "waiting", "released", "reading", "sending", "stale"}]
    /\ age \in [Clients -> 0 .. AnchorTimeout] /\ got \in [Clients -> [Suites -> 0 .. Quiet]]

\* What the barrier is for: a flip that commits inside its hold, its quiet not
\* cut short, takes the index files from under no client that holds the old
\* anchor, be it still downloading, done within the quiet period, or blocked
\* since behind another suite's hold.  Only a request served because the hold
\* was full, while the commit ran, may be caught.
NoStraddle ==
    [][\A s \in Suites : Commit(s) /\ holder = mine[s] /\ s \notin cutShort =>
         \A c \in Clients : <<c, s>> \in over \/
           /\ got[c][s] >= Quiet
           /\ ~(cpc[c] = "sending" /\ SuiteOf(at[c]) = s /\ age[c] < AnchorTimeout)]_vars

\* "phase B (b) always holds by the cut, so the expiry below is only the backstop"
\* (runHold): a hold reaches its bound only once its commit has started, whatever
\* slow readers and other suites' holds came before.
ExpiryOnlyDuringCommit ==
    holder # None /\ holdAge >= HoldMax =>
      \E s \in Suites : mine[s] = holder /\ pc[s] \in {"commit", "done"}

\* The token is never lost: while flips wait for it and the gate is open, some
\* flip has it, through timeouts, grants to flips that gave up, and expiries.
TokenNotLost ==
    queue # <<>> /\ ~closed => holder # None

\* No flip oversleeps: one that waits on its timer has not met its condition,
\* since every change that could meet it earlier wakes it.
NoOversleep ==
    \A s \in Suites : alarm[s] > 0 =>
      /\ pc[s] = "sleepA" => ~QuietA(s) /\ since[s] < PhaseAMax
      /\ pc[s] = "sleepB" => ~QuietB(s)

\* Purge and the sweep never drop an entry that a request or a flip still uses:
\* its registration would be invisible to the suite's next flip.
UsedEntryKept ==
    /\ \A c \in Clients : at[c] # None => entry[SuiteOf(at[c])] = at[c]
    /\ \A s \in Suites : mine[s] # None => entry[s] = mine[s]
=============================================================================
