----------------------------- MODULE HistoryCoverage -----------------------------
(***************************************************************************)
(* The guarantee of the position history: a cursor claims, for each        *)
(* vehicle, that everything from coverageFrom to confirmedThrough is       *)
(* stored.  The continuous worker extends it to the right, retention moves *)
(* its left end and deletes what is behind it, a backfill writes beside    *)
(* both and keeps what its checkpoints claim from deletion.                *)
(* Sources: position-history-ingestion-cursor, the worker and the planning *)
(* of position-history-continuous-ingestion, position-history-retention,   *)
(* position-history-backfill.                                              *)
(*                                                                         *)
(* An instant stands for the positions the provider has of it.  The clock  *)
(* is safeNow: two minutes behind, so that the provider's answer is final. *)
(* A fence lasts a minute at least and a cycle starts every 30 seconds: it *)
(* outlasts the cycle after the one that set it.                           *)
(***************************************************************************)
EXTENDS Integers, Sequences, FiniteSets, SequencesExt

CONSTANTS
    Processes,        \* API processes, each with a continuous worker
    Retention,        \* the retention, as a holder of the lock
    Nobody,           \* no holder
    VehicleCount,     \* vehicles, numbered in the order of their ids
    Failing,          \* vehicles every request of which fails
    MaxTime,          \* bound: the last instant
    Week,             \* time between two anchors of the policy
    PolicySpan,       \* length of the history that is kept
    Overlap,          \* POSITION_HISTORY_CONTINUOUS_REPLAY_OVERLAP_MS
    Fetches,          \* POSITION_HISTORY_ADAPTIVE_FETCH_DURATIONS_MS
    Preferences,      \* bound: the lanes the slots of a cycle prefer, as allocated
    Backfills,        \* bound: targets of backfills, <<vehicle, from, to>>
    CheckpointBudget, \* POSITION_HISTORY_RETENTION_CHECKPOINT_BUDGET
    ObservationBudget,\* POSITION_HISTORY_RETENTION_OBSERVATION_BUDGET
    MaxRuns,          \* bound: population runs
    MaxPlans,         \* bound: plans an administrator reads
    MaxFailures,      \* bound: other requests that fail
    MaxFaults         \* bound: crashes and lost locks

Vehicles == 1..VehicleCount
Instants == 0..MaxTime
Lanes == {"RECENT_TAIL", "CONTIGUOUS_BACKLOG"}

ASSUME CoverageAssumption ==
    /\ Cardinality({Retention, Nobody} \union Processes) = Cardinality(Processes) + 2
    /\ VehicleCount \in Nat /\ Failing \subseteq Vehicles
    /\ MaxTime \in Nat /\ Week \in Nat \ {0} /\ PolicySpan \in Nat /\ Preferences \subseteq Seq(Lanes)
    /\ Overlap \in Nat
    /\ \A i \in DOMAIN Fetches : Fetches[i] \in Nat /\ Fetches[i] > Overlap
    /\ \A k \in Backfills : k[1] \in Vehicles /\ k[2] \in Nat /\ k[3] \in Nat /\ k[2] < k[3]
    /\ CheckpointBudget \in Nat \ {0} /\ ObservationBudget \in Nat \ {0}
    /\ MaxRuns \in Nat /\ MaxPlans \in Nat /\ MaxFailures \in Nat /\ MaxFaults \in Nat

VARIABLES
    clock,     \* safeNow
    cursor,    \* the vehicle_history_ingestion_cursors rows
    stored,    \* instants whose positions are in vehicle_position_observations
    backfill,  \* next_from of each vehicle_position_backfill_checkpoints row
    active,    \* whether a durable population run is active
    lock,      \* who holds the lock of the history work
    worker,    \* where each process's cycle is and what its locals hold
    fences,    \* lanes and vehicles a process leaves alone for a while
    fresh,     \* the fences of the latest cycle
    pass,      \* the retention pass
    shown,     \* the cutoff of the plan an administrator has been shown
    bounds     \* runs, plans, failures and faults so far

vars == <<clock, cursor, stored, backfill, active, lock, worker, fences, fresh, pass, shown, bounds>>
waiting == <<fences, fresh>>

\* positionHistoryPolicyFloor
Floor(t) == LET anchor == t - (t % Week) IN IF anchor > PolicySpan THEN anchor - PolicySpan ELSE 0

None == -1
NoCursor == [from |-> None, through |-> None]
Absent == None

Idle == [pc |-> "idle", safe |-> 0, plan |-> <<>>, cursor |-> NoCursor,
         from |-> 0, to |-> 0]
NoPass == [pc |-> "idle", cutoff |-> 0, budget |-> 0, announced |-> None]

Init ==
    /\ clock = 0
    /\ cursor = [v \in Vehicles |-> NoCursor]
    /\ stored = [v \in Vehicles |-> {}]
    /\ backfill = [k \in Backfills |-> Absent]
    /\ active = FALSE
    /\ lock = Nobody
    /\ worker = [p \in Processes |-> Idle]
    /\ fences = [p \in Processes |-> {}]
    /\ fresh = [p \in Processes |-> {}]
    /\ pass = NoPass
    /\ shown = None
    /\ bounds = [runs |-> 0, plans |-> 0, failures |-> 0, faults |-> 0]

Larger(a, b) == IF a > b THEN a ELSE b
Smaller(a, b) == IF a < b THEN a ELSE b
-----------------------------------------------------------------------------
(* The continuous worker: a cycle and its plan.                             *)

\* ensureCursor for every vehicle.
Ensured == [v \in Vehicles |->
    IF cursor[v] = NoCursor THEN [from |-> Floor(clock), through |-> Floor(clock)] ELSE cursor[v]]

Due(p, lane, v, cursors) ==
    /\ <<lane, v>> \notin fences[p]
    /\ cursors[v].through < (IF lane = "RECENT_TAIL" THEN clock - Overlap ELSE clock)

\* Backlog goes to the vehicle furthest behind.
Behind(cursors, v, w) ==
    cursors[v].through < cursors[w].through \/ (cursors[v].through = cursors[w].through /\ v < w)

\* A backlog found to be caught up is left alone for a while.
CaughtUp(p, cursors) ==
    {<<"CONTIGUOUS_BACKLOG", v>> : v \in {w \in Vehicles : cursors[w].through >= clock}} \ fences[p]

\* Recent tails go round: in any order here.
Queues(p, cursors) ==
    LET due(lane) == {v \in Vehicles : Due(p, lane, v, cursors)} IN
    {[lane \in Lanes |-> IF lane = "RECENT_TAIL" THEN recents
        ELSE SetToSortSeq(due(lane), LAMBDA v, w : Behind(cursors, v, w))] :
            recents \in SetToSeqs(due("RECENT_TAIL"))}

\* A slot takes the first of its lane; one whose lane has nothing takes the other.
Plan(prefer, queues) ==
    LET filled[i \in 0..Len(prefer)] ==
          IF i = 0 THEN [plan |-> <<>>, left |-> queues]
          ELSE LET before == filled[i - 1]
                   lanes == {lane \in Lanes : before.left[lane] # <<>>}
                   lane == IF prefer[i] \in lanes THEN prefer[i] ELSE CHOOSE other \in lanes : TRUE IN
               IF lanes = {} THEN before
               ELSE [plan |-> Append(before.plan, <<lane, Head(before.left[lane])>>),
                     left |-> [before.left EXCEPT ![lane] = Tail(@)]] IN
    filled[Len(prefer)].plan

\* A cycle whose slots prefer these lanes; with nothing due it is over at once.
StartCycle(p, prefer) ==
    /\ worker[p].pc = "idle"
    /\ cursor' = Ensured
    /\ \E queues \in Queues(p, cursor') :
         LET plan == Plan(prefer, queues) IN
         worker' = [worker EXCEPT ![p] =
             IF plan = <<>> THEN Idle ELSE [Idle EXCEPT !.pc = "work", !.safe = clock, !.plan = plan]]
    /\ fences' = [fences EXCEPT ![p] = @ \union CaughtUp(p, cursor')]
    /\ fresh' = [fresh EXCEPT ![p] = CaughtUp(p, cursor')]
    /\ UNCHANGED <<clock, stored, backfill, active, lock, pass, shown, bounds>>

Lane(p) == Head(worker[p].plan)[1]
Vehicle(p) == Head(worker[p].plan)[2]

\* The work is over, and the cycle with its last one.
Finished(p) ==
    LET w == worker[p] IN
    worker' = [worker EXCEPT ![p] =
        IF Len(w.plan) = 1 THEN Idle
        ELSE [Idle EXCEPT !.pc = "work", !.safe = w.safe, !.plan = Tail(w.plan)]]

Unlocked(p) == IF lock = p THEN Nobody ELSE lock

\* Left alone for a while: one lane of a vehicle, or all of it.
Fence(p, lanes) ==
    LET f == {<<lane, Vehicle(p)>> : lane \in lanes} IN
    /\ fences' = [fences EXCEPT ![p] = @ \union f]
    /\ fresh' = [fresh EXCEPT ![p] = @ \union f]

\* The lock is taken: the work is left to the next cycle.
LockUnavailable(p) ==
    /\ worker[p].pc = "work" /\ lock # Nobody
    /\ Finished(p)
    /\ UNCHANGED <<clock, cursor, stored, backfill, active, lock, waiting, pass, shown, bounds>>

\* What is asked for overlaps what is stored, never what the policy gave up.
FetchFrom(p, c) ==
    IF Lane(p) = "RECENT_TAIL"
    THEN Larger(worker[p].safe - Overlap, Larger(c.from, Floor(clock)))
    ELSE Larger(c.from, c.through - Overlap)

\* Nothing to ask for: a recent tail that is covered, or a backlog that must
\* wait until retention has moved its coverage to the policy floor.
Pointless(p, c) ==
    IF Lane(p) = "RECENT_TAIL"
    THEN FetchFrom(p, c) >= worker[p].safe \/ c.through >= FetchFrom(p, c)
    ELSE c.from < Floor(clock) \/ c.through >= worker[p].safe

\* Under the lock the cursor is read again; a fence set meanwhile counts too.
Inspect(p) ==
    LET c == cursor[Vehicle(p)] IN
    /\ worker[p].pc = "work" /\ lock = Nobody
    /\ IF Head(worker[p].plan) \in fences[p] \/ Pointless(p, c)
       THEN /\ Finished(p)
            /\ IF Lane(p) = "CONTIGUOUS_BACKLOG" /\ c.from < Floor(clock)
               THEN Fence(p, {Lane(p)}) ELSE UNCHANGED waiting
            /\ UNCHANGED lock
       ELSE /\ lock' = p
            /\ worker' = [worker EXCEPT ![p].pc = "read", ![p].cursor = c,
                                       ![p].from = FetchFrom(p, c)]
            /\ UNCHANGED waiting
    /\ UNCHANGED <<clock, cursor, stored, backfill, active, pass, shown, bounds>>
-----------------------------------------------------------------------------
(* The continuous worker: a request and its transaction.                    *)

\* contiguousBacklogRanges: the ends a request may have, by its duration.
BacklogEnds(c, safe) == {Smaller(c.through + Fetches[i] - Overlap, safe) : i \in DOMAIN Fetches}

Ends(p) ==
    IF Lane(p) = "RECENT_TAIL" THEN {worker[p].safe}
    ELSE BacklogEnds(worker[p].cursor, worker[p].safe)

\* The first duration whose answer is not oversized.
Read(p) ==
    /\ worker[p].pc = "read" /\ Vehicle(p) \notin Failing
    /\ \E to \in Ends(p) : worker' = [worker EXCEPT ![p].pc = "persist", ![p].to = to]
    /\ UNCHANGED <<clock, cursor, stored, backfill, active, lock, waiting, pass, shown, bounds>>

\* Mutant: a failure is tried again at once.
FailsUnfenced(p) == UNCHANGED waiting /\ Finished(p) /\ lock' = Unlocked(p)

\* All lanes of the vehicle wait after a failure.
Fails(p) ==
    /\ Fence(p, Lanes)
    /\ Finished(p)
    /\ lock' = Unlocked(p)

ReadFails(p) ==
    /\ worker[p].pc = "read"
    /\ \/ Vehicle(p) \in Failing /\ UNCHANGED bounds
       \/ /\ bounds.failures < MaxFailures
          /\ bounds' = [bounds EXCEPT !.failures = @ + 1]
    /\ Fails(p)
    /\ UNCHANGED <<clock, cursor, stored, backfill, active, pass, shown>>

\* persistReplay: positions only; the cursor is not concerned.
PersistRecent(p) ==
    LET w == worker[p] IN
    /\ w.pc = "persist" /\ Lane(p) = "RECENT_TAIL"
    /\ stored' = [stored EXCEPT ![Vehicle(p)] = @ \union (w.from..w.to)]
    /\ Fence(p, {"RECENT_TAIL"})
    /\ Finished(p)
    /\ lock' = Unlocked(p)
    /\ UNCHANGED <<clock, cursor, backfill, active, pass, shown, bounds>>

\* persistContiguousResult compares both ends of the cursor.
Unmoved(p) == cursor[Vehicle(p)] = worker[p].cursor

PersistBacklog(p) ==
    LET w == worker[p]
        v == Vehicle(p) IN
    /\ w.pc = "persist" /\ Lane(p) = "CONTIGUOUS_BACKLOG"
    /\ IF Unmoved(p)
       THEN /\ stored' = [stored EXCEPT ![v] = @ \union (w.from..w.to)]
            /\ cursor' = [cursor EXCEPT ![v].through = w.to]
            /\ IF w.to >= w.safe THEN Fence(p, {Lane(p)}) ELSE UNCHANGED waiting
            /\ Finished(p)
            /\ lock' = Unlocked(p)
       ELSE /\ Fails(p)
            /\ UNCHANGED <<stored, cursor>>
    /\ UNCHANGED <<clock, backfill, active, pass, shown, bounds>>

FenceEnds(p, f) ==
    /\ worker[p].pc = "idle"
    /\ f \in fences[p] \ fresh[p]
    /\ fences' = [fences EXCEPT ![p] = @ \ {f}]
    /\ UNCHANGED <<clock, cursor, stored, backfill, active, lock, worker, fresh, pass, shown, bounds>>
-----------------------------------------------------------------------------
(* Retention.                                                               *)

\* An administrator reads the plan.
ShowPlan ==
    /\ bounds.plans < MaxPlans
    /\ shown' = Floor(clock)
    /\ bounds' = [bounds EXCEPT !.plans = @ + 1]
    /\ UNCHANGED <<clock, cursor, stored, backfill, active, lock, worker, waiting, pass>>

Obsolete(cutoff) == {k \in Backfills : backfill[k] # Absent /\ k[3] < cutoff}

\* Mutant: a range that ends at the cutoff protects nothing.
ProtectedPast(v, t, cutoff) ==
    \E k \in Backfills :
        backfill[k] # Absent /\ k[1] = v /\ k[3] > cutoff /\ k[2] <= t /\ t <= k[3]

\* A checkpoint that survives the cutoff keeps the observations of its range.
Protected(v, t, cutoff) ==
    \E k \in Backfills :
        backfill[k] # Absent /\ k[1] = v /\ k[3] >= cutoff /\ k[2] <= t /\ t <= k[3]

\* Mutant: the policy floor is computed again for every batch.
ExecutableNow(v, cutoff) == {t \in stored[v] : t < Larger(cutoff, Floor(clock)) /\ ~Protected(v, t, cutoff)}

\* Mutant: the last instant before the cutoff is kept.
ExecutableBefore(v, cutoff) == {t \in stored[v] : t < cutoff - 1 /\ ~Protected(v, t, cutoff)}

Executable(v, cutoff) == {t \in stored[v] : t < cutoff /\ ~Protected(v, t, cutoff)}

\* A pass with nothing to do changes no row, and is left out.
SomethingToDo(cutoff) ==
    \/ Obsolete(cutoff) # {}
    \/ \E v \in Vehicles : cursor[v].from \in 0..(cutoff - 1) \/ Executable(v, cutoff) # {}

\* Under the lock: no active run, and the plan is the one that was shown.
Begin(announced) ==
    /\ pass.pc = "idle" /\ lock = Nobody
    /\ ~active
    /\ announced \in {None, Floor(clock)} /\ SomethingToDo(Floor(clock))
    /\ lock' = Retention
    /\ pass' = [pc |-> "reconcile", cutoff |-> Floor(clock), budget |-> CheckpointBudget,
                announced |-> announced]
    /\ UNCHANGED <<clock, cursor, stored, backfill, active, worker, waiting, shown, bounds>>

BeginAutomatic == Begin(None)
BeginConfirmed == shown # None /\ Begin(shown)

\* Mutant: only what is wholly behind the cutoff is raised.
RaisedBehind(c) ==
    IF c # NoCursor /\ c.through < pass.cutoff THEN [from |-> pass.cutoff, through |-> pass.cutoff] ELSE c

\* reconcilePolicyFloor
Raised(c) ==
    IF c # NoCursor /\ c.from < pass.cutoff
    THEN [from |-> pass.cutoff, through |-> Larger(c.through, pass.cutoff)] ELSE c

Reconcile ==
    /\ pass.pc = "reconcile"
    /\ cursor' = [v \in Vehicles |-> Raised(cursor[v])]
    /\ pass' = [pass EXCEPT !.pc = "checkpoints"]
    /\ UNCHANGED <<clock, stored, backfill, active, lock, worker, waiting, shown, bounds>>

\* A batch, of one row here.
DeleteCheckpoint ==
    /\ pass.pc = "checkpoints" /\ pass.budget > 0
    /\ \E k \in Obsolete(pass.cutoff) : backfill' = [backfill EXCEPT ![k] = Absent]
    /\ pass' = [pass EXCEPT !.budget = @ - 1]
    /\ UNCHANGED <<clock, cursor, stored, active, lock, worker, waiting, shown, bounds>>

\* A short batch ends the phase.
CheckpointsDone ==
    /\ pass.pc = "checkpoints" /\ pass.budget > 0
    /\ Obsolete(pass.cutoff) = {}
    /\ pass' = [pass EXCEPT !.pc = "observations", !.budget = ObservationBudget]
    /\ UNCHANGED <<clock, cursor, stored, backfill, active, lock, worker, waiting, shown, bounds>>

DeleteObservation ==
    /\ pass.pc = "observations" /\ pass.budget > 0
    /\ \E v \in Vehicles : \E t \in Executable(v, pass.cutoff) :
         /\ \A w \in Vehicles : \A u \in Executable(w, pass.cutoff) : t <= u
         /\ stored' = [stored EXCEPT ![v] = @ \ {t}]
    /\ pass' = [pass EXCEPT !.budget = @ - 1]
    /\ UNCHANGED <<clock, cursor, backfill, active, lock, worker, waiting, shown, bounds>>

\* The budget is spent, or a short batch has ended the last phase.
EndPass ==
    /\ \/ pass.pc \in {"checkpoints", "observations"} /\ pass.budget = 0
       \/ pass.pc = "observations" /\ \A v \in Vehicles : Executable(v, pass.cutoff) = {}
    /\ pass' = NoPass
    /\ lock' = Unlocked(Retention)
    /\ UNCHANGED <<clock, cursor, stored, backfill, active, worker, waiting, shown, bounds>>
-----------------------------------------------------------------------------
(* Backfills, time and faults.                                              *)

\* prepare: by a population under the lock, or by the operator without it.
Prepare(k) ==
    /\ backfill[k] = Absent /\ k[3] <= clock
    /\ backfill' = [backfill EXCEPT ![k] = k[2]]
    /\ UNCHANGED <<clock, cursor, stored, active, lock, worker, waiting, pass, shown, bounds>>

BackfillWindow(k) ==
    /\ backfill[k] # Absent /\ backfill[k] < k[3]
    /\ backfill' = [backfill EXCEPT ![k] = @ + 1]
    /\ stored' = [stored EXCEPT ![k[1]] = @ \union (backfill[k]..(backfill[k] + 1))]
    /\ UNCHANGED <<clock, cursor, active, lock, worker, waiting, pass, shown, bounds>>

\* A durable population run is created; it ends.
CreateRun ==
    /\ ~active /\ bounds.runs < MaxRuns
    /\ active' = TRUE
    /\ bounds' = [bounds EXCEPT !.runs = @ + 1]
    /\ UNCHANGED <<clock, cursor, stored, backfill, lock, worker, waiting, pass, shown>>

EndRun ==
    /\ active
    /\ active' = FALSE
    /\ UNCHANGED <<clock, cursor, stored, backfill, lock, worker, waiting, pass, shown, bounds>>

Tick ==
    /\ clock < MaxTime
    /\ clock' = clock + 1
    /\ UNCHANGED <<cursor, stored, backfill, active, lock, worker, waiting, pass, shown, bounds>>

Fault ==
    /\ bounds.faults < MaxFaults
    /\ bounds' = [bounds EXCEPT !.faults = @ + 1]
    /\ UNCHANGED <<clock, cursor, stored, backfill, active, shown>>

LoseLock ==
    /\ lock # Nobody
    /\ lock' = Nobody
    /\ Fault
    /\ UNCHANGED <<worker, waiting, pass>>

Crash(p) ==
    /\ worker[p].pc # "idle"
    /\ worker' = [worker EXCEPT ![p] = Idle]
    /\ fences' = [fences EXCEPT ![p] = {}]
    /\ fresh' = [fresh EXCEPT ![p] = {}]
    /\ lock' = Unlocked(p)
    /\ Fault
    /\ UNCHANGED pass

\* A batch fails: the pass ends where it is.
PassFails ==
    /\ pass.pc # "idle"
    /\ pass' = NoPass
    /\ lock' = Unlocked(Retention)
    /\ Fault
    /\ UNCHANGED <<worker, waiting>>
-----------------------------------------------------------------------------
SomeCycle(p) == \E prefer \in Preferences : StartCycle(p, prefer)

BacklogCycle(p) ==
    \E prefer \in Preferences :
        (\E i \in DOMAIN prefer : prefer[i] = "CONTIGUOUS_BACKLOG") /\ StartCycle(p, prefer)

Work(p) ==
    \/ LockUnavailable(p) \/ Inspect(p) \/ Read(p) \/ ReadFails(p)
    \/ PersistRecent(p) \/ PersistBacklog(p)

SomeFenceEnds(p) == \E f \in fences[p] : FenceEnds(p, f)

Pass == Reconcile \/ DeleteCheckpoint \/ CheckpointsDone \/ DeleteObservation \/ EndPass

Misfortune == LoseLock \/ PassFails \/ \E p \in Processes : Crash(p)

Next ==
    \/ Tick \/ CreateRun \/ EndRun \/ ShowPlan \/ BeginAutomatic \/ BeginConfirmed \/ Pass \/ Misfortune
    \/ \E k \in Backfills : Prepare(k) \/ BackfillWindow(k)
    \/ \E p \in Processes : SomeCycle(p) \/ Work(p) \/ SomeFenceEnds(p)

Spec == Init /\ [][Next]_vars

\* Cycles come for ever and leave a slot to the backlog: the default prefers it
\* in every other, the allocation has what the rates leave.  Its works find
\* the lock free once in a while, fences end, and the daily retention finds the
\* lock free and no active run once in a while: population runs end.
FairSpec ==
    /\ Spec
    /\ WF_vars(Tick) /\ WF_vars(EndRun) /\ WF_vars(Pass) /\ SF_vars(BeginAutomatic)
    /\ \A p \in Processes : SF_vars(BacklogCycle(p)) /\ WF_vars(Work(p)) /\ SF_vars(Inspect(p))
    /\ \A p \in Processes, lane \in Lanes, v \in Vehicles : SF_vars(FenceEnds(p, <<lane, v>>))
-----------------------------------------------------------------------------
(* Properties.                                                              *)

\* The rows and the locals have their types; a cursor's ends are in order.
TypeOK ==
    /\ clock \in Instants /\ active \in BOOLEAN
    /\ \A v \in Vehicles : cursor[v] = NoCursor \/
         (cursor[v].from \in Instants /\ cursor[v].through \in cursor[v].from..clock)
    /\ stored \in [Vehicles -> SUBSET Instants]
    /\ \A k \in Backfills : backfill[k] = Absent \/ backfill[k] \in k[2]..k[3]
    /\ lock \in Processes \union {Retention, Nobody}
    /\ \A p \in Processes : worker[p].safe \in Instants /\ fresh[p] \subseteq fences[p]
    /\ pass.cutoff \in Instants /\ shown \in Instants \union {None}

\* What a cursor claims is stored, while windows are read, retention moves the
\* cursor and deletes, backfills write, and locks are lost.
CoverageIsTrue ==
    \A v \in Vehicles : cursor[v].through > cursor[v].from =>
        cursor[v].from..cursor[v].through \subseteq stored[v]

\* What the checkpoint of a backfill claims is stored, as long as its range
\* reaches into the history that is kept: deletion respects it.
SurvivorsAreWhole ==
    \A k \in Backfills : backfill[k] > k[2] /\ k[3] >= Floor(clock) =>
        k[2]..backfill[k] \subseteq stored[k[1]]

\* No end of a cursor moves back.
CoverageAdvances ==
    [][\A v \in Vehicles : cursor[v] # NoCursor =>
         cursor'[v].from >= cursor[v].from /\ cursor'[v].through >= cursor[v].through]_vars

\* A pass an administrator confirmed deletes nothing the plan did not announce,
\* although the policy floor moves while it runs.
DeletesAsAnnounced ==
    [][\A v \in Vehicles : \A t \in stored[v] \ stored'[v] :
         t < Floor(clock) /\ (pass.announced # None => t < pass.announced)]_vars

\* Every vehicle whose requests succeed is covered up to the last instant, also
\* when others fail for ever.
EveryVehicleCatchesUp ==
    \A v \in Vehicles \ Failing : <>[](cursor[v].through = MaxTime)

\* What the policy has given up, and no checkpoint protects, is deleted.
ObsoleteGoes ==
    \A v \in Vehicles, t \in Instants :
        t \in stored[v] /\ t < Floor(clock) ~> t \notin stored[v] \/ Protected(v, t, Floor(clock))
=============================================================================
