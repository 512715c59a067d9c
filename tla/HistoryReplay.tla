------------------------------ MODULE HistoryReplay ------------------------------
(***************************************************************************)
(* The recurring replay of the position history, for one kind: a           *)
(* generation is created for every anchor and fetches its whole range      *)
(* again, vehicle by vehicle and slice by slice, one window in each        *)
(* quantum of a worker, between other lanes and under the lock all history *)
(* work shares.  What a process has learned of failures it keeps in        *)
(* memory only: fences, which end with time, and smaller windows.          *)
(* Sources: position-history-replay-worker.service.ts, replay planning,    *)
(* position-history-replay-generation and the reconciliation of the policy *)
(* floor by position-history-retention.                                    *)
(*                                                                         *)
(* Time is the number of the current generation.  A lease is valid or      *)
(* expired, as in PopulationRun.  A fence is a minute at least and a poll  *)
(* comes every 30 seconds: a fence does not end in the quantum that sets   *)
(* it, nor before the quantum after the one that found its run exhausted.  *)
(***************************************************************************)
EXTENDS Naturals, Sequences, FiniteSets

CONSTANTS
    Processes,     \* API processes, each with one replay worker
    Nobody,        \* no process
    GenCount,      \* bound: generations, numbered by their anchors
    VehicleCount,  \* vehicles, numbered in the order of their ids
    Step,          \* time between two anchors
    Span,          \* length of a generation's range
    SliceSpan,     \* POSITION_HISTORY_BACKFILL_MAX_TARGET_MS
    PolicySpan,    \* length of the history that is kept
    Windows,       \* the window lengths of the timeout tiers, widest first
    FallbackFloor, \* the least window an oversized response falls back to
    CandidateLimit, \* how many claimable generations a quantum looks at: 8
    MaxFailures,   \* bound: windows that fail
    MaxToggles,    \* bound: vehicles disabled or enabled
    MaxFaults      \* bound: crashes, errors of the database, lost leases and locks

Generations == 1..GenCount
Vehicles == 1..VehicleCount

ASSUME ReplayAssumption ==
    /\ Nobody \notin Processes
    /\ GenCount \in Nat \ {0} /\ VehicleCount \in Nat
    /\ Step \in Nat \ {0} /\ Span \in Nat \ {0} /\ SliceSpan \in Nat \ {0} /\ PolicySpan \in Nat
    /\ Windows \in Seq(Nat \ {0}) /\ Len(Windows) > 0 /\ FallbackFloor \in Nat
    /\ CandidateLimit \in Nat \ {0}
    /\ MaxFailures \in Nat /\ MaxToggles \in Nat /\ MaxFaults \in Nat

VARIABLES
    now,       \* the newest generation whose anchor is final
    disabled,  \* vehicles the provider has disabled
    run,       \* the position_history_replay_runs rows
    next,      \* next_from of the position_history_replay_checkpoints rows
    replayed,  \* history: the instants each generation has stored of each vehicle
    lock,      \* who holds the lock of the history work
    worker,    \* where each process's quantum is and what its locals hold
    memory,    \* what each process has learned of failures
    bounds     \* failures, toggles and faults so far

rows == <<run, next, replayed>>
vars == <<now, disabled, run, next, replayed, lock, worker, memory, bounds>>

RangeFrom(g) == g * Step
RangeTo(g) == RangeFrom(g) + Span

\* positionHistoryPolicyFloor when generation n is the newest.
Floor(n) == IF RangeTo(n) > PolicySpan THEN RangeTo(n) - PolicySpan ELSE 0

\* The slices are cut from the newest end: where the slices of g begin.
SliceStarts(g) ==
    {t \in RangeFrom(g)..(RangeTo(g) - 1) :
        t = RangeFrom(g) \/ \E k \in 1..Span : t + k * SliceSpan = RangeTo(g)}

CheckpointsOf(g, fleet) == {<<g, v, t>> : v \in fleet, t \in SliceStarts(g)}

Checkpoints == UNION {CheckpointsOf(g, Vehicles) : g \in Generations}

\* range_to of a checkpoint.
End(c) ==
    CHOOSE t \in (c[3] + 1)..RangeTo(c[1]) :
        /\ t = RangeTo(c[1]) \/ t \in SliceStarts(c[1])
        /\ \A s \in SliceStarts(c[1]) : s <= c[3] \/ s >= t

NotCreated == 0

Created(c) == next[c] # NotCreated
Done(c) == next[c] = End(c)

Rows(g) == {c \in Checkpoints : c[1] = g /\ Created(c)}
\* Mutant: a checkpoint in progress counts as complete.
NotBegun(g) == {c \in Rows(g) : next[c] = c[3] /\ ~Done(c)}

Incomplete(g) == {c \in Rows(g) : ~Done(c)}

\* The order of listIncompleteCheckpoints.
Before(c, d) == c[3] < d[3] \/ (c[3] = d[3] /\ c[2] < d[2])
First(S) == CHOOSE c \in S : \A d \in S \ {c} : Before(c, d)
Least(S) == CHOOSE t \in S : \A u \in S : t <= u

\* positionHistoryReplayTimeoutRecoveryKey, at the present position.
Position(c) == <<"position", c[2], c[3], End(c), next[c]>>
Fence(c) == <<"checkpoint", c>>
RunFence(g) == <<"run", g>>
Exhausted(g) == <<"exhausted", g>>
KindFence == <<"kind">>

Idle == [pc |-> "idle", gen |-> 0, fleet |-> {}, c |-> <<>>, at |-> 0, to |-> 0, now |-> 0,
         fences |-> {}]

Forgetful == [fences |-> {}, fresh |-> {}, tier |-> <<>>]

Init ==
    /\ now = 1
    /\ disabled = {}
    /\ run = [g \in Generations |-> [status |-> "NONE", owner |-> Nobody, lease |-> FALSE]]
    /\ next = [c \in Checkpoints |-> NotCreated]
    /\ replayed = [g \in Generations |-> [v \in Vehicles |-> {}]]
    /\ lock = Nobody
    /\ worker = [p \in Processes |-> Idle]
    /\ memory = [p \in Processes |-> Forgetful]
    /\ bounds = [failures |-> 0, toggles |-> 0, faults |-> 0]

Fenced(p, f) == f \in memory[p].fences

Claimable(g) ==
    \/ run[g].status = "PENDING"
    \/ run[g].status = "RUNNING" /\ ~run[g].lease

\* The WHERE of every statement of an owner.
Owned(g, p) == run[g].status = "RUNNING" /\ run[g].owner = p /\ run[g].lease

Goto(p, pc) == worker' = [worker EXCEPT ![p].pc = pc]

\* Fences set now are fresh until the next quantum ends.
Remember(p, fences) ==
    memory' = [memory EXCEPT ![p].fences = @ \union fences, ![p].fresh = @ \union fences]
-----------------------------------------------------------------------------
(* A quantum: the run.                                                      *)

\* processKind gets the lock and reads the enabled vehicles.
Start(p) ==
    /\ worker[p].pc = "idle" /\ lock = Nobody /\ ~Fenced(p, KindFence)
    /\ lock' = p
    /\ worker' = [worker EXCEPT ![p] = [Idle EXCEPT !.pc = "ensure", !.now = now,
                                                    !.fleet = Vehicles \ disabled]]
    /\ memory' = [memory EXCEPT ![p].fresh = {}]
    /\ UNCHANGED <<now, disabled, rows, bounds>>

\* ensureRun of the current generation, if there is a fleet.
EnsureRun(p) ==
    LET w == worker[p] IN
    /\ w.pc = "ensure"
    /\ run' = IF w.fleet # {} /\ run[w.now].status = "NONE"
              THEN [run EXCEPT ![w.now].status = "PENDING"] ELSE run
    /\ Goto(p, "find")
    /\ UNCHANGED <<now, disabled, next, replayed, lock, memory, bounds>>

\* findClaimableCandidates: the oldest generations that can be claimed, with a limit.
Listed == {g \in Generations :
              Claimable(g) /\ Cardinality({h \in 1..(g - 1) : Claimable(h)}) < CandidateLimit}

\* Mutant: an exhausted run stays the candidate.
Oldest(p) == Listed

\* The listed runs whose checkpoints are not all fenced.
Candidates(p) == {g \in Listed : ~Fenced(p, Exhausted(g))}

\* The oldest candidate; there is no work when all that are listed are
\* exhausted, whatever is behind them, and a fenced run stops the search.
Find(p) ==
    LET c == Candidates(p)
        stopped == c = {} \/ \E g \in Listed : Fenced(p, RunFence(g)) /\ g <= Least(c) IN
    /\ worker[p].pc = "find"
    /\ worker' = [worker EXCEPT ![p] = IF stopped THEN [@ EXCEPT !.pc = "release"]
                                       ELSE [@ EXCEPT !.pc = "count", !.gen = Least(c)]]
    /\ UNCHANGED <<now, disabled, rows, lock, memory, bounds>>

CountCheckpoints(p) ==
    LET w == worker[p] IN
    /\ w.pc = "count"
    /\ Goto(p, CASE Rows(w.gen) # {} -> "claim"
                 [] Rows(w.gen) = {} /\ w.fleet = {} -> "release"
                 [] OTHER -> "create")
    /\ UNCHANGED <<now, disabled, rows, lock, memory, bounds>>

\* A completed run gets no further checkpoints: the transaction throws.
Refused(g, fleet) ==
    run[g].status = "COMPLETED" /\ \E c \in CheckpointsOf(g, fleet) : ~Created(c)

EnsureCheckpoints(p) ==
    LET w == worker[p] IN
    /\ w.pc = "create"
    /\ IF Refused(w.gen, w.fleet)
       THEN /\ Goto(p, "throw")
            /\ UNCHANGED next
       ELSE /\ next' = [c \in Checkpoints |->
                  IF c \in CheckpointsOf(w.gen, w.fleet) /\ ~Created(c) THEN c[3] ELSE next[c]]
            /\ Goto(p, "claim")
    /\ UNCHANGED <<now, disabled, run, replayed, lock, memory, bounds>>

Claim(p) ==
    LET g == worker[p].gen IN
    /\ worker[p].pc = "claim"
    /\ IF Claimable(g)
       THEN /\ run' = [run EXCEPT ![g] = [status |-> "RUNNING", owner |-> p, lease |-> TRUE]]
            /\ Goto(p, "list")
       ELSE /\ Goto(p, "release")
            /\ UNCHANGED run
    /\ UNCHANGED <<now, disabled, next, replayed, lock, memory, bounds>>
-----------------------------------------------------------------------------
(* A quantum: the window.                                                   *)

Ready(p, g) ==
    {c \in Incomplete(g) : ~Fenced(p, Fence(c)) /\ ~Fenced(p, Position(c))}

\* The first checkpoint no fence holds; without one the run is complete, or is
\* given back until a fence ends.  Then it is retired up to the policy floor,
\* or its vehicle is looked up.
List(p) ==
    LET w == worker[p]
        g == w.gen
        c == First(Ready(p, g)) IN
    /\ w.pc = "list"
    /\ worker' = [worker EXCEPT ![p] =
           CASE Incomplete(g) = {} -> [w EXCEPT !.pc = "complete"]
             [] Incomplete(g) # {} /\ Ready(p, g) = {} ->
                    [w EXCEPT !.pc = "yield", !.fences = {Exhausted(g)}]
             [] OTHER -> [w EXCEPT !.c = c, !.at = next[c],
                              !.pc = IF next[c] < Floor(w.now) THEN "retire" ELSE "vehicle"]]
    /\ memory' = IF Ready(p, g) = {} THEN memory
                 ELSE [memory EXCEPT ![p].fences = @ \ {Exhausted(g)},
                                     ![p].fresh = @ \ {Exhausted(g)}]
    /\ UNCHANGED <<now, disabled, rows, lock, bounds>>

\* The compare-and-set of the checkpoint, with the ownership of the run.
Movable(p) ==
    LET w == worker[p] IN next[w.c] = w.at /\ ~Done(w.c) /\ Owned(w.gen, p)

\* Mutant: the whole checkpoint is retired with its prefix.
RetireWhole(p) ==
    LET w == worker[p] IN
    /\ w.pc = "retire"
    /\ next' = IF Movable(p) THEN [next EXCEPT ![w.c] = End(w.c)] ELSE next
    /\ Goto(p, IF Movable(p) THEN "remain" ELSE "throw")
    /\ UNCHANGED <<now, disabled, run, replayed, lock, memory, bounds>>

\* Outside the try of the window: a stale checkpoint ends the quantum.
Retire(p) ==
    LET w == worker[p] IN
    /\ w.pc = "retire"
    /\ IF Movable(p)
       THEN /\ next' = [next EXCEPT ![w.c] = IF Floor(w.now) < End(w.c) THEN Floor(w.now)
                                             ELSE End(w.c)]
            /\ Goto(p, "remain")
       ELSE /\ Goto(p, "throw")
            /\ UNCHANGED next
    /\ UNCHANGED <<now, disabled, run, replayed, lock, memory, bounds>>

\* findMappedVehicle, now.
FindVehicle(p) ==
    LET w == worker[p] IN
    /\ w.pc = "vehicle"
    /\ worker' = [worker EXCEPT ![p] =
           IF w.c[2] \in disabled THEN [w EXCEPT !.pc = "yield", !.fences = {Fence(w.c)}]
           ELSE [w EXCEPT !.pc = "read"]]
    /\ UNCHANGED <<now, disabled, rows, lock, memory, bounds>>

TierKept(p, key) ==
    IF key \in DOMAIN memory[p].tier THEN memory[p].tier[key] ELSE 1

\* The smaller of the windows learned for the checkpoint and for its position.
Tier(p, c, position) ==
    IF TierKept(p, Fence(c)) > TierKept(p, position) THEN TierKept(p, Fence(c))
    ELSE TierKept(p, position)

PositionOf(w) == <<"position", w.c[2], w.c[3], End(w.c), w.at>>

\* positionHistoryReplayTimeoutWindowEnds: what one quantum may try.
WindowEnds(from, to, tier) ==
    LET widest == Windows[tier]
        ending(length) == IF from + length < to THEN from + length ELSE to IN
    IF widest < FallbackFloor THEN {ending(widest)}
    ELSE {t \in {ending(Windows[i]) : i \in {j \in 1..Len(Windows) : Windows[j] >= FallbackFloor}} :
            t - from <= widest}

\* The provider answers with all positions of one of these windows.
Read(p) ==
    LET w == worker[p] IN
    /\ w.pc = "read"
    /\ \E to \in WindowEnds(w.at, End(w.c), Tier(p, w.c, PositionOf(w))) :
         worker' = [worker EXCEPT ![p].pc = "persist", ![p].to = to]
    /\ UNCHANGED <<now, disabled, rows, lock, memory, bounds>>

\* The request fails for good: a timeout narrows the next window of the
\* position; timeouts, network and server errors fence the checkpoint,
\* everything else, an oversized response of the least window too, the run.
ReadFails(p) ==
    LET w == worker[p]
        position == PositionOf(w)
        tier == Tier(p, w.c, position)
        narrower == IF tier < Len(Windows) THEN tier + 1 ELSE tier IN
    /\ w.pc = "read"
    /\ bounds.failures < MaxFailures
    /\ bounds' = [bounds EXCEPT !.failures = @ + 1]
    /\ \/ /\ worker' = [worker EXCEPT ![p].pc = "yield",
                                      ![p].fences = {Fence(w.c), position}]
          /\ memory' = [memory EXCEPT ![p].tier =
                 [key \in DOMAIN @ \union {Fence(w.c), position} |->
                     IF key \in {Fence(w.c), position} THEN narrower ELSE @[key]]]
       \/ /\ worker' = [worker EXCEPT ![p].pc = "yield", ![p].fences = {Fence(w.c)}]
          /\ UNCHANGED memory
       \/ /\ worker' = [worker EXCEPT ![p].pc = "yield", ![p].fences = {RunFence(w.gen)}]
          /\ UNCHANGED memory
    /\ UNCHANGED <<now, disabled, rows, lock>>

\* One transaction: the positions of the window and the checkpoint.  A success
\* forgets the failures of the checkpoint and its position, but keeps the
\* window learned for the position; a stale checkpoint is a failure of the run.
Persist(p) ==
    LET w == worker[p] IN
    /\ w.pc = "persist"
    /\ IF Movable(p)
       THEN /\ next' = [next EXCEPT ![w.c] = w.to]
            /\ replayed' = [replayed EXCEPT ![w.gen][w.c[2]] = @ \union (w.at..(w.to - 1))]
            /\ memory' = [memory EXCEPT
                   ![p].fences = @ \ {Fence(w.c), PositionOf(w), RunFence(w.gen)},
                   ![p].tier = [key \in DOMAIN @ \ {Fence(w.c)} |-> @[key]]]
            /\ Goto(p, "remain")
       ELSE /\ worker' = [worker EXCEPT ![p].pc = "yield", ![p].fences = {RunFence(w.gen)}]
            /\ UNCHANGED <<next, replayed, memory>>
    /\ UNCHANGED <<now, disabled, run, lock, bounds>>

\* countIncompleteCheckpoints
CountRemaining(p) ==
    /\ worker[p].pc = "remain"
    /\ Goto(p, IF Incomplete(worker[p].gen) = {} THEN "complete" ELSE "yield")
    /\ UNCHANGED <<now, disabled, rows, lock, memory, bounds>>
-----------------------------------------------------------------------------
(* A quantum: its end.                                                      *)

\* The statement checks once more that all checkpoints are complete.
CompleteRun(p) ==
    LET g == worker[p].gen IN
    /\ worker[p].pc = "complete"
    /\ run' = IF Owned(g, p) /\ Rows(g) # {} /\ Incomplete(g) = {}
              THEN [run EXCEPT ![g] = [status |-> "COMPLETED", owner |-> Nobody, lease |-> FALSE]]
              ELSE run
    /\ Goto(p, "release")
    /\ UNCHANGED <<now, disabled, next, replayed, lock, memory, bounds>>

\* Only a worker that still owned the run remembers why.
YieldRun(p) ==
    LET g == worker[p].gen IN
    /\ worker[p].pc = "yield"
    /\ IF Owned(g, p)
       THEN /\ run' = [run EXCEPT ![g] = [status |-> "PENDING", owner |-> Nobody, lease |-> FALSE]]
            /\ Remember(p, worker[p].fences)
       ELSE UNCHANGED <<run, memory>>
    /\ Goto(p, "release")
    /\ UNCHANGED <<now, disabled, next, replayed, lock, bounds>>

Unlocked(p) == IF lock = p THEN Nobody ELSE lock

Release(p) ==
    /\ worker[p].pc \in {"release", "throw"}
    /\ lock' = Unlocked(p)
    /\ IF worker[p].pc = "throw" THEN Remember(p, {KindFence}) ELSE UNCHANGED memory
    /\ worker' = [worker EXCEPT ![p] = Idle]
    /\ UNCHANGED <<now, disabled, rows, bounds>>
-----------------------------------------------------------------------------
(* Time and the environment.                                                *)

\* The next anchor is final.
Tick ==
    /\ now < GenCount
    /\ now' = now + 1
    /\ UNCHANGED <<disabled, rows, lock, worker, memory, bounds>>

Toggle(v) ==
    /\ bounds.toggles < MaxToggles
    /\ bounds' = [bounds EXCEPT !.toggles = @ + 1]
    /\ disabled' = IF v \in disabled THEN disabled \ {v} ELSE disabled \union {v}
    /\ UNCHANGED <<now, rows, lock, worker, memory>>

\* The run of an exhausted checkpoint is retryable when its first fence ends.
ExhaustedBy(f) ==
    CASE f[1] = "checkpoint" -> {Exhausted(f[2][1])}
      [] f[1] = "position" -> {Exhausted(g) : g \in Generations}
      [] OTHER -> {}

FenceEnds(p, f) ==
    /\ worker[p].pc = "idle"
    /\ Fenced(p, f) /\ f[1] # "exhausted"
    /\ f = KindFence \/ ({f} \union ExhaustedBy(f)) \intersect memory[p].fresh = {}
    /\ memory' = [memory EXCEPT ![p].fences = @ \ ({f} \union ExhaustedBy(f)),
                                ![p].fresh = @ \ {f}]
    /\ UNCHANGED <<now, disabled, rows, lock, worker, bounds>>

FailureFenceEnds(p) == \E f \in memory[p].fences : f[1] # "checkpoint" /\ FenceEnds(p, f)

SomeFenceEnds(p) == FailureFenceEnds(p) \/ \E c \in Checkpoints : FenceEnds(p, Fence(c))

\* Mutant: without the greater of the checkpoint and the floor.
ReconciledToFloor(c) ==
    IF ~Created(c) \/ Done(c) THEN next[c]
    ELSE IF Floor(now) < End(c) THEN Floor(now) ELSE End(c)

\* reconcilePolicyFloor of the retention, under the lock.
Reconciled(c) ==
    IF ~Created(c) \/ Done(c) \/ next[c] >= Floor(now) THEN next[c]
    ELSE IF Floor(now) < End(c) THEN Floor(now) ELSE End(c)

Reconcile ==
    /\ lock = Nobody
    /\ next' = [c \in Checkpoints |-> Reconciled(c)]
    /\ next' # next
    /\ UNCHANGED <<now, disabled, run, replayed, lock, worker, memory, bounds>>

Beats(p, g) == worker[p].gen = g /\ worker[p].pc \notin {"idle", "count", "create", "claim"}

LeaseRunsOut(g) ==
    /\ run[g].lease /\ ~Beats(run[g].owner, g)
    /\ run' = [run EXCEPT ![g].lease = FALSE]
    /\ UNCHANGED <<now, disabled, next, replayed, lock, worker, memory, bounds>>

RunOut == \E g \in Generations : LeaseRunsOut(g)

Fault ==
    /\ bounds.faults < MaxFaults
    /\ bounds' = [bounds EXCEPT !.faults = @ + 1]
    /\ UNCHANGED <<now, disabled, next, replayed>>

LoseLease(g) ==
    /\ run[g].lease /\ Beats(run[g].owner, g)
    /\ run' = [run EXCEPT ![g].lease = FALSE]
    /\ Fault
    /\ UNCHANGED <<lock, worker, memory>>

LoseLock ==
    /\ lock # Nobody
    /\ lock' = Nobody
    /\ Fault
    /\ UNCHANGED <<run, worker, memory>>

\* A statement fails: the quantum ends and the run keeps its lease.
Throw(p) ==
    /\ worker[p].pc \notin {"idle", "release", "throw"}
    /\ Goto(p, "throw")
    /\ Fault
    /\ UNCHANGED <<run, lock, memory>>

Crash(p) ==
    /\ worker[p].pc # "idle"
    /\ worker' = [worker EXCEPT ![p] = Idle]
    /\ memory' = [memory EXCEPT ![p] = Forgetful]
    /\ lock' = Unlocked(p)
    /\ Fault
    /\ UNCHANGED run
-----------------------------------------------------------------------------
Quantum(p) ==
    \/ EnsureRun(p) \/ Find(p) \/ CountCheckpoints(p) \/ EnsureCheckpoints(p) \/ Claim(p)
    \/ List(p) \/ Retire(p) \/ FindVehicle(p) \/ Read(p) \/ ReadFails(p) \/ Persist(p)
    \/ CountRemaining(p) \/ CompleteRun(p) \/ YieldRun(p) \/ Release(p)

Misfortune ==
    \/ LoseLock
    \/ \E g \in Generations : LoseLease(g)
    \/ \E p \in Processes : Throw(p) \/ Crash(p)

Next ==
    \/ Tick \/ Reconcile \/ RunOut \/ Misfortune
    \/ \E v \in Vehicles : Toggle(v)
    \/ \E p \in Processes : Start(p) \/ Quantum(p) \/ SomeFenceEnds(p)

Spec == Init /\ [][Next]_vars

\* A quantum is a promise chain nothing suspends, fences and leases end with
\* time, and the polls of a process find the lock free once in a while.
FairSpec ==
    /\ Spec
    /\ WF_vars(RunOut)
    /\ \A p \in Processes : WF_vars(Quantum(p)) /\ SF_vars(Start(p))
    /\ \A p \in Processes : SF_vars(FailureFenceEnds(p))
    /\ \A p \in Processes, c \in Checkpoints : SF_vars(FenceEnds(p, Fence(c)))
-----------------------------------------------------------------------------
(* Properties.                                                              *)

Instants == 0..RangeTo(GenCount)

\* The rows, the locals and the memory have their types.
TypeOK ==
    /\ now \in Generations /\ disabled \subseteq Vehicles
    /\ run \in [Generations -> [status : {"NONE", "PENDING", "RUNNING", "COMPLETED"},
                                owner : Processes \union {Nobody}, lease : BOOLEAN]]
    /\ \A c \in Checkpoints : next[c] = NotCreated \/ next[c] \in c[3]..End(c)
    /\ replayed \in [Generations -> [Vehicles -> SUBSET Instants]]
    /\ lock \in Processes \union {Nobody}
    /\ \A p \in Processes :
         /\ worker[p].gen \in 0..GenCount /\ worker[p].fleet \subseteq Vehicles
         /\ worker[p].pc \in {"read", "persist"} => worker[p].at < End(worker[p].c)
         /\ worker[p].pc = "persist" => worker[p].to \in (worker[p].at + 1)..End(worker[p].c)
         /\ memory[p].fresh \subseteq memory[p].fences
         /\ \A key \in DOMAIN memory[p].tier : memory[p].tier[key] \in 1..Len(Windows)

\* What is behind a checkpoint was stored by its own generation, or the policy
\* has retired it: no window is skipped by a stale worker, a narrower window, a
\* reconciliation or a takeover.
NothingSkipped ==
    \A c \in Checkpoints : Created(c) =>
        \A t \in c[3]..(next[c] - 1) : t \in replayed[c[1]][c[2]] \/ t < Floor(now)

\* A completed generation has replayed the whole range of every vehicle it was
\* created for, but what the policy retired.
CompletedIsWhole ==
    \A g \in Generations : run[g].status = "COMPLETED" =>
        /\ Rows(g) # {}
        /\ \A c \in Rows(g), t \in RangeFrom(g)..(RangeTo(g) - 1) :
             t \in replayed[g][c[2]] \/ t < Floor(now)

\* No checkpoint moves back, and a completed generation is never opened again,
\* whoever works with a stale picture of it.
OnlyForward ==
    [][/\ \A c \in Checkpoints : Created(c) => next'[c] >= next[c]
       /\ \A g \in Generations : run[g].status = "COMPLETED" => run'[g] = run[g]]_vars

\* A generation that waits for a disabled vehicle.
Waits(g) == \E c \in Incomplete(g) : c[2] \in disabled

\* What keeps a generation from its end: there is no enabled vehicle, one of its
\* own is disabled, or as many older ones as a quantum looks at wait for theirs.
HeldUp(g) ==
    \/ disabled = Vehicles
    \/ Waits(g)
    \/ Cardinality({h \in 1..(g - 1) : Waits(h)}) >= CandidateLimit

\* When nothing changes any more, every generation that was created is complete,
\* whatever failed and was fenced on the way, unless disabled vehicles hold it
\* up: fewer waiting generations than a quantum looks at keep no worker from
\* those behind them.
EveryGenerationCompletes ==
    <>[](\A g \in Generations : run[g].status \in {"PENDING", "RUNNING"} => HeldUp(g))
=============================================================================
