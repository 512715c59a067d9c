------------------------------ MODULE PopulationRun ------------------------------
(***************************************************************************)
(* The population of the position history: durable runs with a budget and  *)
(* a lease, the checkpoints of every vehicle and slice they advance, the   *)
(* advisory lock their workers share with short executions, and the        *)
(* operator's command that backfills one vehicle without that lock.        *)
(* Sources: position-history-population-runs, position-history-horizon-    *)
(* population, position-history-horizon-execution and position-history-    *)
(* backfill in modules/, scripts/position-history-backfill.cjs.            *)
(*                                                                         *)
(* A lease is valid or expired: the heartbeat renews it while its worker   *)
(* runs, so the lease of a running worker expires only by a fault, and the *)
(* lease of a worker that is gone expires with time.  A worker's token is  *)
(* its process: a process has one worker, and it claims again only what    *)
(* its earlier incarnation has lost.                                       *)
(***************************************************************************)
EXTENDS Naturals

CONSTANTS
    Processes,      \* API processes, each with one worker
    Nobody,         \* no process
    Runs,           \* population runs
    NoRun,          \* what a short execution is done for
    VehicleCount,   \* vehicles, numbered in the order of their ids
    Disabled,       \* vehicles the provider has disabled
    SliceCount,     \* slices of the horizon, newest first, as they are executed
    SliceWindows,   \* windows of a slice
    ChunkWindows,   \* POSITION_HISTORY_POPULATION_RUN_CHUNK_WINDOWS
    Budgets,        \* bound: the budgets runs are created with
    ShortWindows,   \* bound: the windows short executions are asked for
    Commanded,      \* bound: the slices the operator backfills by hand
    MaxFaults       \* bound: crashes, lost leases and lost locks

Vehicles == 1..VehicleCount

Slices == 1..SliceCount

ASSUME PopulationAssumption ==
    /\ Nobody \notin Processes /\ NoRun \notin Runs
    /\ VehicleCount \in Nat /\ SliceCount \in Nat \ {0}
    /\ Disabled \subseteq Vehicles
    /\ SliceWindows \in Nat \ {0} /\ ChunkWindows \in Nat \ {0}
    /\ Budgets \subseteq Nat \ {0} /\ ShortWindows \subseteq Nat \ {0}
    /\ Commanded \subseteq Slices /\ MaxFaults \in Nat

VARIABLES
    run,       \* the position_history_population_runs rows
    reached,   \* windows stored of each slice and vehicle: next_from of its checkpoint
    lock,      \* who holds POSITION_HISTORY_HORIZON_EXECUTION_LOCK_KEY
    worker,    \* where each process's worker is and what its locals hold
    manual,    \* the operator's command
    faults     \* faults so far

vars == <<run, reached, lock, worker, manual, faults>>

Active == {"PENDING", "RUNNING"}

NotCreated == [status |-> "NONE", budget |-> 0, committed |-> 0, owner |-> Nobody,
               lease |-> FALSE, exclude |-> FALSE]

\* chunk is what remains of maxWindows, before the committed windows at the start.
Idle == [pc |-> "idle", run |-> NoRun, exclude |-> FALSE, chunk |-> 0, before |-> 0,
         slice |-> 1, vehicle |-> 1, todo |-> {}, at |-> 0, whole |-> FALSE]

NoCommand == [pc |-> "idle", slice |-> 1, vehicle |-> 1, at |-> 0]

Init ==
    /\ run = [r \in Runs |-> NotCreated]
    /\ reached = [s \in Slices |-> [v \in Vehicles |-> 0]]
    /\ lock = Nobody
    /\ worker = [p \in Processes |-> Idle]
    /\ manual = NoCommand
    /\ faults = 0

Complete(s, v) == reached[s][v] = SliceWindows

\* The fleet a run is for; every vehicle has a device of the provider.
Eligible(exclude) == IF exclude THEN Vehicles \ Disabled ELSE Vehicles

\* findFirst and updateMany of the run state name the row its owner holds.
Owned(r, p) == run[r].status = "RUNNING" /\ run[r].owner = p /\ run[r].lease

Goto(p, pc) == worker' = [worker EXCEPT ![p].pc = pc]

\* The execution returns and its locals with it.
Returned(w, pc) == [w EXCEPT !.pc = pc, !.vehicle = 1, !.at = 0, !.todo = {}]

\* Only the run is of interest then.
Conclude(p, pc) == worker' = [worker EXCEPT ![p] = [Idle EXCEPT !.pc = pc, !.run = worker[p].run]]
-----------------------------------------------------------------------------
(* Creation: by an administrator, or by the maintenance cron for the part   *)
(* of the horizon that is left.  The unique index allows one active run.    *)

Create(r, budget, exclude) ==
    /\ run[r].status = "NONE"
    /\ \A o \in Runs : run[o].status \notin Active
    /\ run' = [run EXCEPT ![r] = [NotCreated EXCEPT !.status = "PENDING", !.budget = budget,
                                                    !.exclude = exclude]]
    /\ UNCHANGED <<reached, lock, worker, manual, faults>>

CreateByUser == \E r \in Runs, b \in Budgets, x \in BOOLEAN : Create(r, b, x)

Maintain ==
    /\ \E s \in Slices, v \in Vehicles \ Disabled : ~Complete(s, v)
    /\ \E r \in Runs, b \in Budgets : Create(r, b, TRUE)
-----------------------------------------------------------------------------
(* The worker, under the lock.                                              *)

\* Mutant: an expired lease is not claimable.
ClaimablePending(r) == run[r].status = "PENDING"

\* findEligible and claim look for this.
Claimable(r) ==
    \/ run[r].status = "PENDING"
    \/ run[r].status = "RUNNING" /\ ~run[r].lease

\* A poll that finds an eligible run and gets the lock.
Poll(p, r) ==
    /\ worker[p].pc = "idle" /\ lock = Nobody
    /\ Claimable(r)
    /\ lock' = p
    /\ worker' = [worker EXCEPT ![p] = [Idle EXCEPT !.pc = "claim", !.run = r]]
    /\ UNCHANGED <<run, reached, manual, faults>>

\* A short execution from the browser or the command line: the same population
\* under the same lock, without a run.
StartShort(p, windows, exclude) ==
    /\ worker[p].pc = "idle" /\ lock = Nobody
    /\ lock' = p
    /\ worker' = [worker EXCEPT ![p] = [Idle EXCEPT !.pc = "slice", !.chunk = windows,
                                                    !.exclude = exclude]]
    /\ UNCHANGED <<run, reached, manual, faults>>

Claim(p) ==
    LET r == worker[p].run IN
    /\ worker[p].pc = "claim"
    /\ \/ /\ Claimable(r)
          /\ run' = [run EXCEPT ![r].status = "RUNNING", ![r].owner = p, ![r].lease = TRUE]
          /\ Goto(p, "begin")
       \/ /\ ~Claimable(r)
          /\ Goto(p, "release")
          /\ UNCHANGED run
    /\ UNCHANGED <<reached, lock, manual, faults>>

\* getOwned, and the chunk this poll may store.
Begin(p) ==
    LET r == worker[p].run
        left == run[r].budget - run[r].committed IN
    /\ worker[p].pc = "begin"
    /\ worker' = [worker EXCEPT ![p] =
           CASE ~Owned(r, p) -> [@ EXCEPT !.pc = "release"]
             [] Owned(r, p) /\ left <= 0 -> [@ EXCEPT !.pc = "succeed"]
             [] OTHER -> [@ EXCEPT !.pc = "slice", !.before = run[r].committed,
                                   !.chunk = IF left < ChunkWindows THEN left ELSE ChunkWindows,
                                   !.exclude = run[r].exclude]]
    /\ UNCHANGED <<run, reached, lock, manual, faults>>

\* The fleet and its checkpoints as they are when a slice begins.
InspectSlice(p) ==
    LET w == worker[p] IN
    /\ w.pc = "slice"
    /\ worker' = [worker EXCEPT ![p] =
           IF w.chunk = 0 THEN Returned(w, "after")
           ELSE [w EXCEPT !.pc = "vehicle",
                          !.todo = {v \in Eligible(w.exclude) : ~Complete(w.slice, v)}]]
    /\ UNCHANGED <<run, reached, lock, manual, faults>>

\* The next vehicle of the slice, or the next slice: prepare reads the
\* checkpoint as it is now, which may be complete meanwhile.
PrepareVehicle(p) ==
    LET w == worker[p] IN
    /\ w.pc = "vehicle"
    /\ w.todo # {} /\ w.chunk > 0
    /\ \E v \in w.todo :
         /\ \A o \in w.todo : v <= o
         /\ worker' = [worker EXCEPT ![p] =
                [w EXCEPT !.todo = @ \ {v}, !.vehicle = v, !.at = reached[w.slice][v],
                          !.pc = IF Complete(w.slice, v) THEN "vehicle" ELSE "window"]]
    /\ UNCHANGED <<run, reached, lock, manual, faults>>

\* Mutant: the slice before the oldest is taken for the last.
FinishSliceEarly(p) ==
    LET w == worker[p] IN
    /\ w.pc = "vehicle"
    /\ w.todo = {} \/ w.chunk = 0
    /\ worker' = [worker EXCEPT ![p] =
           CASE w.todo = {} /\ w.slice + 2 \in Slices ->
                  [Returned(w, "slice") EXCEPT !.slice = @ + 1]
             [] w.todo = {} /\ w.slice + 2 \notin Slices ->
                  [Returned(w, "after") EXCEPT !.whole = TRUE]
             [] OTHER -> Returned(w, "after")]
    /\ UNCHANGED <<run, reached, lock, manual, faults>>

\* Only a slice that is complete for the whole fleet is left for the next one.
FinishSlice(p) ==
    LET w == worker[p] IN
    /\ w.pc = "vehicle"
    /\ w.todo = {} \/ w.chunk = 0
    /\ worker' = [worker EXCEPT ![p] =
           CASE w.todo = {} /\ w.slice + 1 \in Slices ->
                  [Returned(w, "slice") EXCEPT !.slice = @ + 1]
             [] w.todo = {} /\ w.slice + 1 \notin Slices ->
                  [Returned(w, "after") EXCEPT !.whole = TRUE]
             [] OTHER -> Returned(w, "after")]
    /\ UNCHANGED <<run, reached, lock, manual, faults>>
-----------------------------------------------------------------------------
(* One window: a request to the provider, then one transaction.             *)

\* Mutant: the checkpoint is not compared.
UnmovedRegardless(s, v, at) == at < SliceWindows

\* The compare-and-set of the checkpoint.
Unmoved(s, v, at) == reached[s][v] = at /\ ~Complete(s, v)

\* The run still is this worker's and has budget.
Accountable(r, p) == Owned(r, p) /\ run[r].committed < run[r].budget

Persistable(p) ==
    LET w == worker[p] IN
    /\ Unmoved(w.slice, w.vehicle, w.at)
    /\ w.run # NoRun => Accountable(w.run, p)

\* The transaction: observations, checkpoint and the account of the run.
PersistWindow(p) ==
    LET w == worker[p] IN
    /\ w.pc = "window" /\ Persistable(p)
    /\ reached' = [reached EXCEPT ![w.slice][w.vehicle] = w.at + 1]
    /\ run' = IF w.run = NoRun THEN run ELSE [run EXCEPT ![w.run].committed = @ + 1]
    /\ worker' = [worker EXCEPT ![p] =
           LET next == [w EXCEPT !.at = @ + 1, !.chunk = @ - 1] IN
           CASE next.at = SliceWindows -> [next EXCEPT !.pc = "vehicle"]
             [] next.at # SliceWindows /\ next.chunk = 0 -> Returned(next, "after")
             [] OTHER -> next]
    /\ UNCHANGED <<lock, manual, faults>>

\* The transaction rolls back, or the provider failed before it.
LoseWindow(p) ==
    /\ worker[p].pc = "window"
    /\ Conclude(p, IF worker[p].run = NoRun THEN "release" ELSE "fail")
    /\ UNCHANGED <<run, reached, lock, manual, faults>>
-----------------------------------------------------------------------------
(* The end of a chunk.                                                      *)

\* getOwned again: succeed, yield, or leave a run that is no longer owned.
After(p) ==
    LET w == worker[p]
        r == w.run IN
    /\ w.pc = "after"
    /\ Conclude(p, CASE r = NoRun -> "release"
                     [] r # NoRun /\ ~Owned(r, p) -> "release"
                     [] r # NoRun /\ Owned(r, p)
                          /\ (w.whole \/ run[r].committed >= run[r].budget
                                \/ run[r].committed = w.before) -> "succeed"
                     [] OTHER -> "yield")
    /\ UNCHANGED <<run, reached, lock, manual, faults>>

\* updateMany with the ownership in its WHERE: a stale worker changes nothing.
Settle(p, pc, status) ==
    LET r == worker[p].run IN
    /\ worker[p].pc = pc
    /\ run' = IF Owned(r, p)
              THEN [run EXCEPT ![r].status = status, ![r].owner = Nobody, ![r].lease = FALSE]
              ELSE run
    /\ Goto(p, "release")
    /\ UNCHANGED <<reached, lock, manual, faults>>

Succeed(p) == Settle(p, "succeed", "SUCCEEDED")
Yield(p) == Settle(p, "yield", "PENDING")
Fail(p) == Settle(p, "fail", "FAILED")

\* The heartbeat stops and the session lock is released, if it is still held.
Unlocked(p) == IF lock = p THEN Nobody ELSE lock

Release(p) ==
    /\ worker[p].pc = "release"
    /\ lock' = Unlocked(p)
    /\ worker' = [worker EXCEPT ![p] = Idle]
    /\ UNCHANGED <<run, reached, manual, faults>>
-----------------------------------------------------------------------------
(* The operator's command: one vehicle and slice, without lock or run.      *)

StartCommand(s, v) ==
    /\ manual.pc = "idle" /\ ~Complete(s, v)
    /\ manual' = [pc |-> "window", slice |-> s, vehicle |-> v, at |-> reached[s][v]]
    /\ UNCHANGED <<run, reached, lock, worker, faults>>

CommandWindow ==
    /\ manual.pc = "window"
    /\ \/ /\ Unmoved(manual.slice, manual.vehicle, manual.at)
          /\ reached' = [reached EXCEPT ![manual.slice][manual.vehicle] = manual.at + 1]
          /\ manual' = IF manual.at + 1 = SliceWindows THEN NoCommand
                       ELSE [manual EXCEPT !.at = @ + 1]
       \/ /\ manual' = NoCommand
          /\ UNCHANGED reached
    /\ UNCHANGED <<run, lock, worker, faults>>
-----------------------------------------------------------------------------
(* Faults and time.                                                         *)

\* A worker with a claimed run sends its heartbeat until it releases the lock.
Beats(p, r) == worker[p].run = r /\ worker[p].pc \notin {"idle", "claim"}

\* The lease of a worker that is gone.
LeaseRunsOut(r) ==
    /\ run[r].status = "RUNNING" /\ run[r].lease
    /\ ~Beats(run[r].owner, r)
    /\ run' = [run EXCEPT ![r].lease = FALSE]
    /\ UNCHANGED <<reached, lock, worker, manual, faults>>

Fault ==
    /\ faults < MaxFaults
    /\ faults' = faults + 1
    /\ UNCHANGED <<reached, manual>>

\* Heartbeats fail until the lease is over, while the worker goes on.
LoseLease(r) ==
    /\ run[r].status = "RUNNING" /\ run[r].lease
    /\ Beats(run[r].owner, r)
    /\ run' = [run EXCEPT ![r].lease = FALSE]
    /\ Fault
    /\ UNCHANGED <<lock, worker>>

\* The session that holds the advisory lock ends, while its worker goes on.
LoseLock ==
    /\ lock # Nobody
    /\ lock' = Nobody
    /\ Fault
    /\ UNCHANGED <<run, worker>>

\* The process restarts; its session ends with it.
Crash(p) ==
    /\ worker[p].pc # "idle"
    /\ worker' = [worker EXCEPT ![p] = Idle]
    /\ lock' = Unlocked(p)
    /\ Fault
    /\ UNCHANGED run
-----------------------------------------------------------------------------
\* What a worker does by itself once it has the lock.
Work(p) ==
    \/ Claim(p) \/ Begin(p) \/ InspectSlice(p) \/ PrepareVehicle(p) \/ FinishSlice(p)
    \/ PersistWindow(p) \/ LoseWindow(p) \/ After(p)
    \/ Succeed(p) \/ Yield(p) \/ Fail(p) \/ Release(p)

PollSome(p) == \E r \in Runs : Poll(p, r)

ShortExecution == \E p \in Processes, n \in ShortWindows, x \in BOOLEAN : StartShort(p, n, x)

Command == (\E s \in Commanded, v \in Vehicles : StartCommand(s, v)) \/ CommandWindow

RunOut == \E r \in Runs : LeaseRunsOut(r)

Misfortune == LoseLock \/ (\E r \in Runs : LoseLease(r)) \/ (\E p \in Processes : Crash(p))

Next ==
    \/ CreateByUser \/ Maintain \/ ShortExecution \/ Command \/ RunOut \/ Misfortune
    \/ \E p \in Processes : PollSome(p) \/ Work(p)

Spec == Init /\ [][Next]_vars

\* A worker is a promise chain nothing suspends; leases of the dead run out; and
\* a poll, which comes every 30 seconds for ever, finds the lock free once in a
\* while, although short executions take it too.
FairSpec ==
    /\ Spec
    /\ WF_vars(RunOut)
    /\ \A p \in Processes : WF_vars(Work(p))
    /\ SF_vars(\E p \in Processes : PollSome(p))
-----------------------------------------------------------------------------
(* Properties.                                                              *)

WorkerStates ==
    [pc : {"idle", "claim", "begin", "slice", "vehicle", "window", "after",
           "succeed", "yield", "fail", "release"},
     run : Runs \union {NoRun}, exclude : BOOLEAN, chunk : Nat, before : Nat,
     slice : Slices, vehicle : Nat, todo : SUBSET Vehicles, at : 0..SliceWindows,
     whole : BOOLEAN]

\* The rows and the locals have their types.
TypeOK ==
    /\ run \in [Runs -> [status : {"NONE", "PENDING", "RUNNING", "SUCCEEDED", "FAILED"},
                         budget : Nat, committed : Nat,
                         owner : Processes \union {Nobody}, lease : BOOLEAN, exclude : BOOLEAN]]
    /\ reached \in [Slices -> [Vehicles -> 0..SliceWindows]]
    /\ lock \in Processes \union {Nobody}
    /\ worker \in [Processes -> WorkerStates]
    /\ manual \in [pc : {"idle", "window"}, slice : Nat, vehicle : Nat, at : Nat]
    /\ faults \in 0..MaxFaults

Exhausted(r) == run[r].committed = run[r].budget

Populated(exclude) == \A s \in Slices, v \in Eligible(exclude) : Complete(s, v)

\* A run reported as succeeded has spent its budget or completed every slice of
\* its fleet, even when leases, locks and processes were lost on the way and
\* rivals stored windows of the same vehicles.
SuccessIsEarned ==
    \A r \in Runs : run[r].status = "SUCCEEDED" => Exhausted(r) \/ Populated(run[r].exclude)

\* A finished run is never taken up, charged or finished again by a worker that
\* lost its lease or the lock.
FinishedIsFinal ==
    [][\A r \in Runs : run[r].status \in {"SUCCEEDED", "FAILED"} => run'[r] = run[r]]_vars

\* Every run ends, whatever happens to its workers.
EveryRunEnds ==
    \A r \in Runs : run[r].status \in Active ~> run[r].status \in {"SUCCEEDED", "FAILED"}

\* The rows are an implementation of the ledger.
Ledger == INSTANCE WindowLedger WITH
    Windows <- Slices \X Vehicles \X (1..SliceWindows),
    stored <- {x \in Slices \X Vehicles \X (1..SliceWindows) : x[3] <= reached[x[1]][x[2]]},
    phase <- [r \in Runs |-> CASE run[r].status = "NONE" -> "NONE"
                               [] run[r].status \in Active -> "OPEN"
                               [] OTHER -> "CLOSED"],
    quota <- [r \in Runs |-> run[r].budget],
    charged <- [r \in Runs |-> run[r].committed]

\* No window is stored twice or charged to a run that is closed, exhausted or
\* another's, whoever works on the same checkpoint at the same time.
KeepsLedger == Ledger!Spec
=============================================================================
