--------------------------- MODULE PopulationRun_proof ---------------------------
(***************************************************************************)
(* Proofs about PopulationRun for any fleet, horizon, processes, runs,     *)
(* budgets and chunk size, and any number of faults.                       *)
(***************************************************************************)
EXTENDS PopulationRun, TLAPS

-----------------------------------------------------------------------------
(* The inductive invariant.                                                 *)

Rows == [status : {"NONE", "PENDING", "RUNNING", "SUCCEEDED", "FAILED"},
         budget : Nat, committed : Nat,
         owner : Processes \union {Nobody}, lease : BOOLEAN, exclude : BOOLEAN]
Commands == [pc : {"idle", "window"}, slice : Slices, vehicle : Nat, at : 0..SliceWindows]

\* The type invariant, and where the operator's command is.
Types ==
    /\ run \in [Runs -> Rows]
    /\ reached \in [Slices -> [Vehicles -> 0..SliceWindows]]
    /\ lock \in Processes \union {Nobody}
    /\ worker \in [Processes -> WorkerStates]
    /\ manual \in Commands
    /\ manual.pc = "window" => manual.vehicle \in Vehicles
    /\ faults \in 0..MaxFaults

\* A run spends no more than its budget, nothing before it exists, and at most
\* one run is active.
Accounts ==
    /\ \A r \in Runs : run[r].committed <= run[r].budget
    /\ \A r \in Runs : run[r].status = "NONE" => run[r].committed = 0
    /\ \A r, o \in Runs : run[r].status \in Active /\ run[o].status \in Active => r = o

\* Where a worker settles or claims a run, and where it populates.
Settling == {"claim", "begin", "succeed", "yield", "fail"}
Populating == {"slice", "vehicle", "window", "after"}

\* A worker's run exists, is populated for its own fleet, and a window is
\* stored for a vehicle, within the chunk.
Named(p) ==
    LET w == worker[p] IN
    /\ w.pc \in Settling => w.run \in Runs
    /\ w.run \in Runs => run[w.run].status # "NONE"
    /\ w.run \in Runs /\ w.pc \in Populating => w.exclude = run[w.run].exclude
    /\ w.pc = "window" => w.vehicle \in Vehicles /\ w.chunk > 0

\* The run is this worker's by its token, whether its lease holds or not.
Mine(r, p) == run[r].status = "RUNNING" /\ run[r].owner = p

\* What a worker has passed is complete: earlier slices, the vehicles of this
\* slice it no longer has to do, and everything once it says so.  It returns
\* with its chunk spent or the horizon whole.
Passed(p) ==
    LET w == worker[p] IN
    /\ w.pc \in {"slice", "vehicle", "window"} =>
         /\ \A s \in Slices : s < w.slice => \A v \in Eligible(w.exclude) : Complete(s, v)
    /\ w.pc \in {"vehicle", "window"} =>
         \A v \in Eligible(w.exclude) :
             v \in w.todo \/ Complete(w.slice, v) \/ (w.pc = "window" /\ v = w.vehicle)
    /\ w.pc = "after" => w.chunk = 0 \/ Populated(w.exclude)
    /\ w.whole => w.pc = "after" /\ Populated(w.exclude)
    /\ w.pc \in {"claim", "begin"} => w.slice = 1

\* A chunk that is spent was charged to the run, and a worker that is about to
\* report success has earned it.
Earned(p) ==
    LET w == worker[p]
        r == w.run IN
    r \in Runs /\ Mine(r, p) =>
        /\ w.pc \in Populating => run[r].committed >= w.before
        /\ w.pc \in Populating /\ run[r].committed = w.before => w.chunk > 0
        /\ w.pc = "succeed" => Exhausted(r) \/ Populated(run[r].exclude)

Local(p) == Named(p) /\ Passed(p) /\ Earned(p)

IInv == Types /\ Accounts /\ (\A p \in Processes : Local(p)) /\ SuccessIsEarned

LEMMA TypesSuffice == Types => TypeOK
  BY PopulationAssumption DEF Types, TypeOK, Rows, Commands, Slices, Vehicles

LEMMA RestingType == Idle \in WorkerStates /\ NoCommand \in Commands /\ NotCreated \in Rows
  BY PopulationAssumption DEF Idle, NoCommand, NotCreated, WorkerStates, Commands, Rows, Slices

LEMMA InitInv == Init => IInv
<1> SUFFICES ASSUME Init PROVE IInv
  OBVIOUS
<1>1. Types
  BY RestingType, PopulationAssumption DEF Init, Types, NoCommand
<1>2. Accounts
  BY DEF Init, Accounts, NotCreated, Active
<1>3. ASSUME NEW p \in Processes PROVE Local(p)
  BY <1>3, PopulationAssumption DEF Init, Local, Named, Passed, Earned, Idle, Settling, Populating
<1>4. SuccessIsEarned
  BY DEF Init, SuccessIsEarned, NotCreated
<1> QED
  BY <1>1, <1>2, <1>3, <1>4 DEF IInv
-----------------------------------------------------------------------------
(* Types.                                                                   *)

LEMMA GotoType ==
    ASSUME Types, NEW p \in Processes, NEW pc \in Settling \union Populating \union {"release"},
           Goto(p, pc)
    PROVE  worker' \in [Processes -> WorkerStates]
<1>1. worker[p] \in WorkerStates
  BY DEF Types
<1>2. [worker[p] EXCEPT !.pc = pc] \in WorkerStates
  BY <1>1 DEF WorkerStates, Settling, Populating
<1> QED
  BY <1>2 DEF Types, Goto

LEMMA ConcludeType ==
    ASSUME Types, NEW p \in Processes, NEW pc \in Settling \union Populating \union {"release"},
           Conclude(p, pc)
    PROVE  worker' \in [Processes -> WorkerStates]
<1>1. worker[p].run \in Runs \union {NoRun}
  BY DEF Types, WorkerStates
<1>2. [Idle EXCEPT !.pc = pc, !.run = worker[p].run] \in WorkerStates
  BY <1>1, RestingType DEF WorkerStates, Settling, Populating
<1> QED
  BY <1>2 DEF Types, Conclude

\* A worker that returns keeps its type.
LEMMA ReturnedType ==
    ASSUME NEW w \in WorkerStates, NEW pc \in Settling \union Populating \union {"release"}
    PROVE  Returned(w, pc) \in WorkerStates
<1>1. 0 \in 0..SliceWindows /\ 1 \in Nat /\ {} \in SUBSET Vehicles
  BY PopulationAssumption
<1>2. [w EXCEPT !.pc = pc, !.vehicle = 1] \in WorkerStates
  BY <1>1 DEF WorkerStates, Settling, Populating
<1>3. \A u \in WorkerStates : [u EXCEPT !.at = 0, !.todo = {}] \in WorkerStates
  BY <1>1 DEF WorkerStates
<1>4. Returned(w, pc) = [[w EXCEPT !.pc = pc, !.vehicle = 1] EXCEPT !.at = 0, !.todo = {}]
  BY DEF Returned, WorkerStates
<1> QED
  BY <1>2, <1>3, <1>4

LEMMA SettleType ==
    ASSUME IInv, NEW p \in Processes, NEW pc \in Settling,
           NEW status \in {"SUCCEEDED", "PENDING", "FAILED"}, Settle(p, pc, status)
    PROVE  Types'
<1>1. worker[p].run \in Runs
  BY DEF Settle, IInv, Local, Named
<1>2. run[worker[p].run] \in Rows
  BY <1>1 DEF IInv, Types
<1>3. [run[worker[p].run] EXCEPT !.status = status, !.owner = Nobody, !.lease = FALSE] \in Rows
  BY <1>2 DEF Rows
<1>4. run' \in [Runs -> Rows]
  BY <1>1, <1>3 DEF Settle, IInv, Types
<1>5. worker' \in [Processes -> WorkerStates]
  BY GotoType DEF Settle, IInv
<1> QED
  BY <1>4, <1>5 DEF Settle, IInv, Types

\* A window stored for a vehicle keeps the checkpoints within the slice.
LEMMA StoreType ==
    ASSUME Types, NEW s \in Slices, NEW v \in Vehicles, NEW at \in 0..SliceWindows, Unmoved(s, v, at)
    PROVE  /\ at + 1 \in 0..SliceWindows
           /\ [reached EXCEPT ![s][v] = at + 1] \in [Slices -> [Vehicles -> 0..SliceWindows]]
<1>1. at + 1 \in 0..SliceWindows
  BY PopulationAssumption DEF Types, Unmoved, Complete
<1>2. [reached[s] EXCEPT ![v] = at + 1] \in [Vehicles -> 0..SliceWindows]
  BY <1>1 DEF Types
<1> QED
  BY <1>1, <1>2 DEF Types

LEMMA PersistType == ASSUME IInv, NEW p \in Processes, PersistWindow(p) PROVE Types'
<1> DEFINE w == worker[p]
           next == [w EXCEPT !.at = @ + 1, !.chunk = @ - 1]
<1>1. w \in WorkerStates /\ w.pc = "window" /\ w.vehicle \in Vehicles /\ w.chunk > 0
  BY DEF PersistWindow, IInv, Types, Local, Named
<1>2. w.slice \in Slices /\ w.at \in 0..SliceWindows /\ w.chunk \in Nat
      /\ w.run \in Runs \union {NoRun}
  BY <1>1 DEF WorkerStates
<1>3. w.at + 1 \in 0..SliceWindows /\ reached' \in [Slices -> [Vehicles -> 0..SliceWindows]]
  BY <1>1, <1>2, StoreType DEF PersistWindow, Persistable, IInv
<1>4. w.chunk - 1 \in Nat
  BY <1>1, <1>2
<1>5. next \in WorkerStates
  BY <1>1, <1>3, <1>4 DEF WorkerStates
<1>6. Returned(next, "after") \in WorkerStates
  BY <1>5, ReturnedType DEF Populating
<1>7. [next EXCEPT !.pc = "vehicle"] \in WorkerStates
  BY <1>5 DEF WorkerStates
<1>8. worker'[p] \in WorkerStates /\ worker' = [worker EXCEPT ![p] = worker'[p]]
  <2> HIDE DEF next
  <2>1. worker' = [worker EXCEPT ![p] =
           CASE next.at = SliceWindows -> [next EXCEPT !.pc = "vehicle"]
             [] next.at # SliceWindows /\ next.chunk = 0 -> Returned(next, "after")
             [] OTHER -> next]
    BY DEF PersistWindow, next
  <2> QED
    BY <1>5, <1>6, <1>7, <2>1 DEF IInv, Types
<1>9. run' \in [Runs -> Rows]
  <2>1. CASE w.run = NoRun
    BY <2>1 DEF PersistWindow, IInv, Types
  <2>2. CASE w.run # NoRun
    <3>1. w.run \in Runs /\ run[w.run] \in Rows
      BY <1>2, <2>2 DEF IInv, Types
    <3>2. [run[w.run] EXCEPT !.committed = @ + 1] \in Rows
      BY <3>1 DEF Rows
    <3> QED
      BY <2>2, <3>1, <3>2 DEF PersistWindow, IInv, Types
  <2> QED
    BY <2>1, <2>2
<1> QED
  BY <1>3, <1>8, <1>9 DEF PersistWindow, IInv, Types

\* What a worker does before and after its windows.
LEMMA BeginType == ASSUME IInv, NEW p \in Processes, Begin(p) PROVE Types'
<1> DEFINE w == worker[p]
           r == worker[p].run
           left == run[r].budget - run[r].committed
           chunk == IF left < ChunkWindows THEN left ELSE ChunkWindows
<1>1. w \in WorkerStates /\ r \in Runs /\ run[r] \in Rows
  BY DEF Begin, IInv, Types, Local, Named, Settling
<1>2. run[r].committed \in Nat /\ run[r].budget \in Nat /\ run[r].exclude \in BOOLEAN
  BY <1>1 DEF Rows
<1>3. ~(left <= 0) => chunk \in Nat
  BY <1>2, PopulationAssumption
<1>4. \A c, b \in Nat, x \in BOOLEAN :
        [w EXCEPT !.pc = "slice", !.before = b, !.chunk = c, !.exclude = x] \in WorkerStates
  BY <1>1 DEF WorkerStates
<1>5. [w EXCEPT !.pc = "release"] \in WorkerStates /\ [w EXCEPT !.pc = "succeed"] \in WorkerStates
  BY <1>1 DEF WorkerStates
<1>6. worker' = [worker EXCEPT ![p] =
         CASE ~Owned(r, p) -> [w EXCEPT !.pc = "release"]
           [] Owned(r, p) /\ left <= 0 -> [w EXCEPT !.pc = "succeed"]
           [] OTHER -> [w EXCEPT !.pc = "slice", !.before = run[r].committed,
                                 !.chunk = chunk, !.exclude = run[r].exclude]]
  BY DEF Begin, IInv, Types
<1> HIDE DEF w, r, left, chunk
<1>7. worker' \in [Processes -> WorkerStates]
  BY <1>2, <1>3, <1>4, <1>5, <1>6 DEF IInv, Types
<1> QED
  BY <1>7 DEF Begin, IInv, Types

LEMMA SliceType ==
    ASSUME IInv, NEW p \in Processes, InspectSlice(p) \/ PrepareVehicle(p) \/ FinishSlice(p)
    PROVE  Types'
<1> DEFINE w == worker[p]
<1>1. w \in WorkerStates
  BY DEF IInv, Types
<1>a. w.slice \in Slices /\ w.todo \in SUBSET Vehicles
  BY <1>1 DEF WorkerStates
<1>2. \A u \in WorkerStates : Returned(u, "slice") \in WorkerStates /\ Returned(u, "after") \in WorkerStates
  BY ReturnedType DEF Populating
<1>3. CASE InspectSlice(p)
  <2>1. {v \in Eligible(w.exclude) : ~Complete(w.slice, v)} \in SUBSET Vehicles
    BY DEF Eligible
  <2>2. [w EXCEPT !.pc = "vehicle", !.todo = {v \in Eligible(w.exclude) : ~Complete(w.slice, v)}]
          \in WorkerStates
    BY <1>1, <2>1 DEF WorkerStates
  <2>3. worker' \in [Processes -> WorkerStates]
    BY <1>1, <1>2, <1>3, <2>2 DEF InspectSlice, IInv, Types
  <2> QED
    BY <1>3, <2>3 DEF InspectSlice, IInv, Types
<1>4. CASE PrepareVehicle(p)
  <2>1. PICK v \in w.todo : worker' = [worker EXCEPT ![p] =
           [w EXCEPT !.todo = @ \ {v}, !.vehicle = v, !.at = reached[w.slice][v],
                     !.pc = IF Complete(w.slice, v) THEN "vehicle" ELSE "window"]]
    BY <1>4 DEF PrepareVehicle
  <2>2. v \in Vehicles /\ v \in Nat /\ w.todo \ {v} \in SUBSET Vehicles
    BY <1>a DEF Vehicles
  <2>3. reached[w.slice][v] \in 0..SliceWindows
    BY <1>a, <2>2 DEF IInv, Types
  <2>4. \A t \in SUBSET Vehicles, n \in Nat, a \in 0..SliceWindows, pc \in {"vehicle", "window"} :
          [w EXCEPT !.todo = t, !.vehicle = n, !.at = a, !.pc = pc] \in WorkerStates
    BY <1>1 DEF WorkerStates
  <2>5. worker'[p] \in WorkerStates
    BY <2>1, <2>2, <2>3, <2>4 DEF IInv, Types
  <2>6. worker' \in [Processes -> WorkerStates]
    BY <2>1, <2>5 DEF IInv, Types
  <2> QED
    BY <1>4, <2>6 DEF PrepareVehicle, IInv, Types
<1>5. CASE FinishSlice(p)
  <2>1. w.slice + 1 \in Slices => [Returned(w, "slice") EXCEPT !.slice = w.slice + 1] \in WorkerStates
    BY <1>1, <1>2 DEF WorkerStates
  <2>2. Returned(w, "slice").slice = w.slice
    BY <1>1 DEF Returned, WorkerStates
  <2>3. [Returned(w, "after") EXCEPT !.whole = TRUE] \in WorkerStates
    BY <1>1, <1>2 DEF WorkerStates
  <2>4. worker' = [worker EXCEPT ![p] =
           CASE w.todo = {} /\ w.slice + 1 \in Slices ->
                  [Returned(w, "slice") EXCEPT !.slice = w.slice + 1]
             [] w.todo = {} /\ w.slice + 1 \notin Slices ->
                  [Returned(w, "after") EXCEPT !.whole = TRUE]
             [] OTHER -> Returned(w, "after")]
    BY <1>5, <2>2 DEF FinishSlice
  <2> HIDE DEF w
  <2>5. worker' \in [Processes -> WorkerStates]
    BY <1>1, <1>2, <2>1, <2>3, <2>4 DEF IInv, Types
  <2> QED
    BY <1>5, <2>5 DEF FinishSlice, IInv, Types
<1> QED
  BY <1>3, <1>4, <1>5

LEMMA CreateType ==
    ASSUME IInv, NEW r \in Runs, NEW b \in Budgets, NEW x \in BOOLEAN, Create(r, b, x)
    PROVE  Types'
<1>1. [NotCreated EXCEPT !.status = "PENDING", !.budget = b, !.exclude = x] \in Rows
  BY RestingType, PopulationAssumption DEF Rows
<1> QED
  BY <1>1 DEF Create, IInv, Types

\* The steps of the operator, of time and of misfortune.
LEMMA OutsideType == ASSUME IInv, Command \/ RunOut \/ Misfortune PROVE Types'
<1>1. \A r \in Runs : [run[r] EXCEPT !.lease = FALSE] \in Rows
  BY DEF IInv, Types, Rows
<1>2. ASSUME NEW r \in Runs, run' = [run EXCEPT ![r].lease = FALSE] PROVE run' \in [Runs -> Rows]
  BY <1>1, <1>2 DEF IInv, Types
<1>3. Fault => faults' \in 0..MaxFaults
  BY PopulationAssumption DEF Fault, IInv, Types
<1>4. CASE RunOut
  BY <1>2, <1>4 DEF RunOut, LeaseRunsOut, IInv, Types
<1>5. ASSUME NEW r \in Runs, LoseLease(r) PROVE Types'
  BY <1>2, <1>3, <1>5 DEF LoseLease, Fault, IInv, Types
<1>6. CASE LoseLock
  BY <1>3, <1>6 DEF LoseLock, Fault, IInv, Types
<1>7. ASSUME NEW p \in Processes, Crash(p) PROVE Types'
  BY <1>3, <1>7, RestingType DEF Crash, Unlocked, Fault, IInv, Types
<1>8. ASSUME NEW s \in Commanded, NEW v \in Vehicles, StartCommand(s, v) PROVE Types'
  <2>1. s \in Slices /\ v \in Nat /\ reached[s][v] \in 0..SliceWindows
    BY PopulationAssumption DEF IInv, Types, Vehicles
  <2> QED
    BY <1>8, <2>1 DEF StartCommand, IInv, Types, Commands
<1>9. CASE CommandWindow
  <2>1. manual.slice \in Slices /\ manual.vehicle \in Vehicles /\ manual.at \in 0..SliceWindows
    BY <1>9 DEF CommandWindow, IInv, Types, Commands
  <2>2. CASE manual' = NoCommand /\ UNCHANGED reached
    BY <1>9, <2>2, RestingType DEF CommandWindow, IInv, Types, NoCommand
  <2>3. CASE ~(manual' = NoCommand /\ UNCHANGED reached)
    <3>1. manual.at + 1 \in 0..SliceWindows /\ reached' \in [Slices -> [Vehicles -> 0..SliceWindows]]
      BY <1>9, <2>1, <2>3, StoreType DEF CommandWindow, IInv
    <3>2. manual' \in Commands /\ (manual'.pc = "window" => manual'.vehicle \in Vehicles)
      BY <1>9, <2>1, <2>3, <3>1, RestingType DEF CommandWindow, IInv, Types, Commands, NoCommand
    <3> QED
      BY <1>9, <3>1, <3>2 DEF CommandWindow, IInv, Types
  <2> QED
    BY <2>2, <2>3
<1> QED
  BY <1>4, <1>5, <1>6, <1>7, <1>8, <1>9 DEF Command, Misfortune

LEMMA TypesStep == ASSUME IInv, [Next]_vars PROVE Types'
<1>1. CASE UNCHANGED vars
  BY <1>1 DEF vars, IInv, Types
<1>2. CASE CreateByUser \/ Maintain
  BY <1>2, CreateType DEF CreateByUser, Maintain
<1>3. ASSUME NEW p \in Processes, NEW n \in ShortWindows, NEW x \in BOOLEAN, StartShort(p, n, x)
      PROVE  Types'
  <2>1. [Idle EXCEPT !.pc = "slice", !.chunk = n, !.exclude = x] \in WorkerStates
    BY RestingType, PopulationAssumption DEF WorkerStates
  <2> QED
    BY <1>3, <2>1 DEF StartShort, IInv, Types
<1>4. CASE Command \/ RunOut \/ Misfortune
  BY <1>4, OutsideType
<1>5. ASSUME NEW p \in Processes, NEW r \in Runs, Poll(p, r) PROVE Types'
  <2>1. [Idle EXCEPT !.pc = "claim", !.run = r] \in WorkerStates
    BY RestingType DEF WorkerStates
  <2> QED
    BY <1>5, <2>1 DEF Poll, IInv, Types
<1>6. ASSUME NEW p \in Processes, Claim(p) PROVE Types'
  <2>1. worker' \in [Processes -> WorkerStates]
    BY <1>6, GotoType DEF Claim, IInv, Settling
  <2>2. worker[p].run \in Runs /\ run[worker[p].run] \in Rows
    BY <1>6 DEF Claim, IInv, Types, Local, Named, Settling
  <2>3. [run[worker[p].run] EXCEPT !.status = "RUNNING", !.owner = p, !.lease = TRUE] \in Rows
    BY <2>2 DEF Rows
  <2>4. run' \in [Runs -> Rows]
    BY <1>6, <2>2, <2>3 DEF Claim, IInv, Types
  <2> QED
    BY <1>6, <2>1, <2>4 DEF Claim, IInv, Types
<1>7. ASSUME NEW p \in Processes, LoseWindow(p) PROVE Types'
  <2>1. worker' \in [Processes -> WorkerStates]
    BY <1>7, ConcludeType DEF LoseWindow, IInv, Settling
  <2> QED
    BY <1>7, <2>1 DEF LoseWindow, IInv, Types
<1>8. ASSUME NEW p \in Processes, After(p) PROVE Types'
  <2>1. PICK pc \in {"release", "succeed", "yield"} : Conclude(p, pc)
    BY <1>8 DEF After
  <2>2. worker' \in [Processes -> WorkerStates]
    BY <2>1, ConcludeType DEF IInv, Settling
  <2> QED
    BY <1>8, <2>2 DEF After, IInv, Types
<1>9. ASSUME NEW p \in Processes, Succeed(p) \/ Yield(p) \/ Fail(p) PROVE Types'
  BY <1>9, SettleType DEF Succeed, Yield, Fail, Settling
<1>10. ASSUME NEW p \in Processes, Release(p) PROVE Types'
  BY <1>10, RestingType DEF Release, Unlocked, IInv, Types
<1> QED
  BY <1>1, <1>2, <1>3, <1>4, <1>5, <1>6, <1>7, <1>8, <1>9, <1>10, BeginType, SliceType, PersistType
     DEF Next, Work, PollSome, ShortExecution
-----------------------------------------------------------------------------
(* What a step does to a run, to the checkpoints and to the other workers.  *)

Created(r) ==
    /\ run[r].status = "NONE" /\ \A o \in Runs : run[o].status \notin Active
    /\ run'[r].status = "PENDING" /\ run'[r].committed = 0
    /\ \A o \in Runs : o # r => run'[o] = run[o]

ClaimedBy(r, p) ==
    /\ worker[p].pc = "claim" /\ worker[p].run = r /\ worker'[p].pc = "begin"
    /\ run[r].status \in Active
    /\ run'[r] = [run[r] EXCEPT !.status = "RUNNING", !.owner = p, !.lease = TRUE]

ChargedBy(r, p) ==
    /\ worker[p].pc = "window" /\ worker[p].run = r /\ Accountable(r, p)
    /\ worker'[p].chunk = worker[p].chunk - 1
    /\ run'[r] = [run[r] EXCEPT !.committed = @ + 1]

SettledBy(r, p) ==
    /\ worker[p].pc \in {"succeed", "yield", "fail"} /\ worker[p].run = r /\ Owned(r, p)
    /\ worker'[p].pc = "release"
    /\ \E status \in {"SUCCEEDED", "PENDING", "FAILED"} :
         /\ run'[r] = [run[r] EXCEPT !.status = status, !.owner = Nobody, !.lease = FALSE]
         /\ status = "SUCCEEDED" => worker[p].pc = "succeed"

Expired(r) == run[r].status = "RUNNING" /\ run'[r] = [run[r] EXCEPT !.lease = FALSE]

\* Every change of a run is one of these.
Change(r) ==
    \/ run'[r] = run[r] \/ Created(r) \/ Expired(r)
    \/ \E p \in Processes : ClaimedBy(r, p) \/ ChargedBy(r, p) \/ SettledBy(r, p)

LEMMA SettleChange ==
    ASSUME IInv, NEW p \in Processes, NEW pc \in {"succeed", "yield", "fail"},
           NEW status \in {"SUCCEEDED", "PENDING", "FAILED"}, Settle(p, pc, status),
           status = "SUCCEEDED" => pc = "succeed"
    PROVE  \A o \in Runs : run'[o] = run[o] \/ SettledBy(o, p)
<1> DEFINE r == worker[p].run
<1>1. r \in Runs /\ worker[p].pc = pc /\ worker'[p].pc = "release"
  BY DEF Settle, Goto, IInv, Types, Local, Named, Settling, WorkerStates
<1>2. CASE ~Owned(r, p)
  BY <1>2 DEF Settle
<1>3. CASE Owned(r, p)
  <2>1. /\ run'[r] = [run[r] EXCEPT !.status = status, !.owner = Nobody, !.lease = FALSE]
        /\ \A o \in Runs : o # r => run'[o] = run[o]
    BY <1>1, <1>3 DEF Settle, IInv, Types
  <2>2. SettledBy(r, p)
    BY <1>1, <1>3, <2>1 DEF SettledBy
  <2> QED
    BY <2>1, <2>2
<1> QED
  BY <1>2, <1>3

\* A window stored takes one of the chunk, and the worker goes on with it, with
\* the next vehicle, or returns.
LEMMA PersistLocals ==
    ASSUME IInv, NEW p \in Processes, PersistWindow(p)
    PROVE  /\ worker'[p].chunk = worker[p].chunk - 1
           /\ worker'[p].run = worker[p].run /\ worker'[p].exclude = worker[p].exclude
           /\ worker'[p].before = worker[p].before /\ worker'[p].slice = worker[p].slice
           /\ worker'[p].whole = worker[p].whole
           /\ \/ /\ worker'[p].pc = "after" /\ worker'[p].chunk = 0
                 /\ worker'[p].whole = worker[p].whole
              \/ /\ worker'[p].pc = "vehicle" /\ worker[p].at + 1 = SliceWindows
                 /\ worker'[p].todo = worker[p].todo
              \/ /\ worker'[p].pc = "window" /\ worker'[p].chunk # 0
                 /\ worker'[p].todo = worker[p].todo /\ worker'[p].vehicle = worker[p].vehicle
<1> DEFINE w == worker[p]
           next == [w EXCEPT !.at = @ + 1, !.chunk = @ - 1]
<1>1. w \in WorkerStates /\ w.pc = "window"
  BY DEF PersistWindow, IInv, Types
<1>2. worker'[p] = CASE next.at = SliceWindows -> [next EXCEPT !.pc = "vehicle"]
                     [] next.at # SliceWindows /\ next.chunk = 0 -> Returned(next, "after")
                     [] OTHER -> next
  BY DEF PersistWindow, IInv, Types
<1>3. CASE next.at = SliceWindows
  BY <1>1, <1>2, <1>3 DEF WorkerStates
<1>4. CASE next.at # SliceWindows /\ next.chunk = 0
  BY <1>1, <1>2, <1>4 DEF WorkerStates, Returned
<1>5. CASE next.at # SliceWindows /\ next.chunk # 0
  <2>1. worker'[p] = next
    BY <1>2, <1>5
  <2> QED
    BY <1>1, <1>5, <2>1 DEF WorkerStates
<1> QED
  BY <1>3, <1>4, <1>5

LEMMA ChangeStep == ASSUME IInv, [Next]_vars PROVE \A r \in Runs : Change(r)
<1>1. CASE UNCHANGED run
  BY <1>1 DEF Change
<1>2. ASSUME NEW r \in Runs, NEW b \in Budgets, NEW x \in BOOLEAN, Create(r, b, x)
      PROVE  \A o \in Runs : Change(o)
  <2>1. run'[r] = [NotCreated EXCEPT !.status = "PENDING", !.budget = b, !.exclude = x]
        /\ \A o \in Runs : o # r => run'[o] = run[o]
    BY <1>2 DEF Create, IInv, Types
  <2>2. run'[r].status = "PENDING" /\ run'[r].committed = 0
    BY <2>1 DEF NotCreated
  <2>3. Created(r)
    BY <1>2, <2>1, <2>2 DEF Create, Created
  <2> QED
    BY <2>1, <2>3 DEF Change
<1>3. ASSUME NEW r \in Runs, LeaseRunsOut(r) \/ LoseLease(r) PROVE \A o \in Runs : Change(o)
  BY <1>3 DEF LeaseRunsOut, LoseLease, Change, Expired, IInv, Types
<1>4. ASSUME NEW p \in Processes, Claim(p) PROVE \A o \in Runs : Change(o)
  <2> DEFINE r == worker[p].run
  <2>1. r \in Runs
    BY <1>4 DEF Claim, IInv, Local, Named, Settling
  <2>2. CASE ~UNCHANGED run
    <3>1. /\ run'[r] = [run[r] EXCEPT !.status = "RUNNING", !.owner = p, !.lease = TRUE]
          /\ \A o \in Runs : o # r => run'[o] = run[o]
      BY <1>4, <2>1, <2>2 DEF Claim, IInv, Types
    <3>2. ClaimedBy(r, p)
      BY <1>4, <2>2, <3>1 DEF Claim, ClaimedBy, Claimable, Active, Goto, IInv, Types, WorkerStates
    <3> QED
      BY <3>1, <3>2 DEF Change
  <2> QED
    BY <1>1, <2>2
<1>5. ASSUME NEW p \in Processes, PersistWindow(p) PROVE \A o \in Runs : Change(o)
  <2> DEFINE r == worker[p].run
  <2>1. CASE r # NoRun
    <3>1. r \in Runs
      BY <2>1 DEF IInv, Types, WorkerStates
    <3>2. /\ run'[r] = [run[r] EXCEPT !.committed = @ + 1]
          /\ \A o \in Runs : o # r => run'[o] = run[o]
      BY <1>5, <2>1, <3>1 DEF PersistWindow, IInv, Types
    <3>3. ChargedBy(r, p)
      BY <1>5, <2>1, <3>2, PersistLocals DEF PersistWindow, Persistable, ChargedBy
    <3> QED
      BY <3>2, <3>3 DEF Change
  <2> QED
    BY <1>1, <1>5, <2>1 DEF PersistWindow
<1>6. ASSUME NEW p \in Processes, Succeed(p) \/ Yield(p) \/ Fail(p) PROVE \A o \in Runs : Change(o)
  BY <1>6, SettleChange DEF Succeed, Yield, Fail, Change
<1>7. ASSUME NEW p \in Processes,
             \/ Begin(p) \/ InspectSlice(p) \/ PrepareVehicle(p) \/ FinishSlice(p) \/ LoseWindow(p)
             \/ After(p) \/ Release(p) \/ Crash(p)
      PROVE  UNCHANGED run
  BY <1>7 DEF Begin, InspectSlice, PrepareVehicle, FinishSlice, LoseWindow, After, Release, Crash
<1>8. CASE UNCHANGED vars \/ LoseLock \/ ShortExecution \/ Command \/ \E p \in Processes : PollSome(p)
  BY <1>1, <1>8 DEF vars, LoseLock, ShortExecution, StartShort, Command, StartCommand,
     CommandWindow, PollSome, Poll
<1> QED
  BY <1>1, <1>2, <1>3, <1>4, <1>5, <1>6, <1>7, <1>8
     DEF Next, CreateByUser, Maintain, RunOut, Misfortune, Work

\* The row of a run that exists stays, is for the same fleet, and its worker
\* changes only by a claim.
LEMMA RunStays ==
    ASSUME IInv, [Next]_vars, NEW r \in Runs, run[r].status # "NONE"
    PROVE  /\ run'[r].status # "NONE" /\ run'[r].exclude = run[r].exclude
           /\ run'[r].budget = run[r].budget
           /\ \A p \in Processes : Mine(r, p)' => Mine(r, p) \/ ClaimedBy(r, p)
           /\ \A p \in Processes : Mine(r, p)' /\ ~ClaimedBy(r, p) =>
                run'[r].committed = run[r].committed \/ ChargedBy(r, p)
<1>0. run[r] \in Rows /\ Nobody \notin Processes
  BY PopulationAssumption DEF IInv, Types
<1>1. Change(r)
  BY ChangeStep
<1>2. CASE run'[r] = run[r] \/ Expired(r)
  BY <1>0, <1>2 DEF Expired, Mine, Rows
<1>3. ASSUME NEW q \in Processes, ClaimedBy(r, q)
      PROVE  /\ run'[r].status = "RUNNING" /\ run'[r].owner = q /\ run'[r].exclude = run[r].exclude
             /\ run'[r].budget = run[r].budget /\ run'[r].committed = run[r].committed
  BY <1>0, <1>3 DEF ClaimedBy, Rows
<1>4. ASSUME NEW q \in Processes, ChargedBy(r, q)
      PROVE  /\ run'[r].status = "RUNNING" /\ run'[r].owner = q /\ run'[r].exclude = run[r].exclude
             /\ run'[r].budget = run[r].budget /\ Mine(r, q)
  BY <1>0, <1>4 DEF ChargedBy, Accountable, Owned, Mine, Rows
<1>5. ASSUME NEW q \in Processes, SettledBy(r, q)
      PROVE  /\ run'[r].status # "NONE" /\ run'[r].owner = Nobody /\ run'[r].exclude = run[r].exclude
             /\ run'[r].budget = run[r].budget
  BY <1>0, <1>5 DEF SettledBy, Rows
<1>6. CASE \E q \in Processes : ClaimedBy(r, q)
  BY <1>3, <1>6 DEF Mine
<1>7. CASE \E q \in Processes : ChargedBy(r, q)
  BY <1>4, <1>7 DEF Mine
<1>8. CASE \E q \in Processes : SettledBy(r, q)
  BY <1>0, <1>5, <1>8 DEF Mine
<1> QED
  BY <1>1, <1>2, <1>6, <1>7, <1>8 DEF Change, Created

LEMMA AccountsStep == ASSUME IInv, [Next]_vars PROVE Accounts'
<1>0. \A r \in Runs : run[r] \in Rows /\ run'[r] \in Rows /\ Change(r)
  BY ChangeStep, TypesStep DEF IInv, Types
<1>1. ASSUME NEW r \in Runs
      PROVE  /\ run'[r].committed <= run'[r].budget
             /\ run'[r].status = "NONE" => run'[r].committed = 0
             /\ run'[r].status \in Active => run[r].status \in Active \/ Created(r)
  <2>0. run[r] \in Rows /\ run'[r] \in Rows
    BY <1>0
  <2>a. run[r].committed <= run[r].budget /\ (run[r].status = "NONE" => run[r].committed = 0)
    BY DEF IInv, Accounts
  <2>1. CASE run'[r] = run[r] \/ Expired(r)
    BY <2>0, <2>a, <2>1 DEF Expired, Active, Rows
  <2>2. CASE Created(r)
    <3>1. run'[r].budget \in Nat
      BY <2>0 DEF Rows
    <3> QED
      BY <2>2, <3>1 DEF Created
  <2>3. ASSUME NEW q \in Processes, ClaimedBy(r, q)
        PROVE  /\ run'[r].committed = run[r].committed /\ run'[r].budget = run[r].budget
               /\ run'[r].status = "RUNNING" /\ run[r].status \in Active
    BY <2>0, <2>3 DEF ClaimedBy, Rows
  <2>4. ASSUME NEW q \in Processes, ChargedBy(r, q)
        PROVE  /\ run'[r].committed <= run'[r].budget
               /\ run'[r].status = "RUNNING" /\ run[r].status \in Active
    BY <2>0, <2>4 DEF ChargedBy, Accountable, Owned, Active, Rows
  <2>5. ASSUME NEW q \in Processes, SettledBy(r, q)
        PROVE  /\ run'[r].committed = run[r].committed /\ run'[r].budget = run[r].budget
               /\ run'[r].status # "NONE" /\ run[r].status \in Active
    BY <2>0, <2>5 DEF SettledBy, Owned, Active, Rows
  <2> QED
    BY <1>0, <2>a, <2>1, <2>2, <2>3, <2>4, <2>5 DEF Change
<1>2. ASSUME NEW r \in Runs, NEW o \in Runs, Created(r), o # r PROVE run'[o].status \notin Active
  BY <1>2 DEF Created
<1>3. ASSUME NEW r \in Runs, NEW o \in Runs, run'[r].status \in Active, run'[o].status \in Active
      PROVE  r = o
  BY <1>1, <1>2, <1>3 DEF IInv, Accounts
<1> QED
  BY <1>1, <1>3 DEF Accounts
-----------------------------------------------------------------------------
(* The checkpoints.                                                         *)

\* One window more of a slice and vehicle that is not complete.
Stored(s, v) ==
    /\ ~Complete(s, v)
    /\ reached' = [reached EXCEPT ![s][v] = reached[s][v] + 1]

LEMMA PersistStores ==
    ASSUME IInv, NEW p \in Processes, PersistWindow(p)
    PROVE  /\ worker[p].slice \in Slices /\ worker[p].vehicle \in Vehicles
           /\ worker[p].at = reached[worker[p].slice][worker[p].vehicle]
           /\ Stored(worker[p].slice, worker[p].vehicle)
  BY DEF PersistWindow, Persistable, Unmoved, Stored, IInv, Types, Local, Named, WorkerStates

LEMMA CommandStores ==
    ASSUME IInv, CommandWindow, reached' # reached
    PROVE  \E s \in Slices, v \in Vehicles : Stored(s, v)
<1>1. /\ manual.slice \in Slices /\ manual.vehicle \in Vehicles
      /\ Unmoved(manual.slice, manual.vehicle, manual.at)
      /\ reached' = [reached EXCEPT ![manual.slice][manual.vehicle] = manual.at + 1]
  BY DEF CommandWindow, IInv, Types, Commands
<1> QED
  BY <1>1 DEF Unmoved, Stored

LEMMA ReachedStep ==
    ASSUME IInv, [Next]_vars
    PROVE  reached' = reached \/ \E s \in Slices, v \in Vehicles : Stored(s, v)
<1>1. ASSUME NEW p \in Processes, Work(p), ~PersistWindow(p) PROVE reached' = reached
  BY <1>1 DEF Work, Claim, Begin, InspectSlice, PrepareVehicle, FinishSlice, LoseWindow, After,
     Succeed, Yield, Fail, Settle, Release
<1>2. CASE UNCHANGED vars \/ CreateByUser \/ Maintain \/ ShortExecution \/ RunOut
  BY <1>2 DEF vars, CreateByUser, Maintain, Create, ShortExecution, StartShort, RunOut, LeaseRunsOut
<1>3. CASE Misfortune \/ \E p \in Processes : PollSome(p)
  BY <1>3 DEF Misfortune, LoseLock, LoseLease, Crash, Fault, PollSome, Poll
<1>4. CASE Command
  BY <1>4, CommandStores DEF Command, StartCommand
<1> QED
  BY <1>1, <1>2, <1>3, <1>4, PersistStores DEF Next

\* What is complete stays complete.
LEMMA CompleteStays ==
    ASSUME IInv, [Next]_vars, NEW s \in Slices, NEW v \in Vehicles, Complete(s, v)
    PROVE  Complete(s, v)'
<1>1. CASE reached' = reached
  BY <1>1 DEF Complete
<1>2. ASSUME NEW t \in Slices, NEW u \in Vehicles, Stored(t, u) PROVE Complete(s, v)'
  <2>1. t # s \/ u # v
    BY <1>2 DEF Stored
  <2>2. reached'[s][v] = reached[s][v]
    BY <1>2, <2>1 DEF Stored, IInv, Types
  <2> QED
    BY <2>2 DEF Complete
<1> QED
  BY <1>1, <1>2, ReachedStep

LEMMA PopulatedStays ==
    ASSUME IInv, [Next]_vars, NEW x, Populated(x)
    PROVE  Populated(x)'
<1>1. Eligible(x) \subseteq Vehicles
  BY DEF Eligible
<1>2. \A s \in Slices, v \in Eligible(x) : Complete(s, v)'
  BY <1>1, CompleteStays DEF Populated
<1> QED
  BY <1>2 DEF Populated, Eligible
-----------------------------------------------------------------------------
(* The workers.                                                             *)

\* Who does nothing finds its run, its fleet and what it has passed as they were.
LEMMA SteadyLocal ==
    ASSUME IInv, [Next]_vars, NEW p \in Processes, worker'[p] = worker[p]
    PROVE  Local(p)'
<1> DEFINE w == worker[p]
           r == worker[p].run
<1>1. w \in WorkerStates /\ Local(p)
  BY DEF IInv, Types
<1>a. w.slice \in Slices /\ w.chunk \in Nat
  BY <1>1 DEF WorkerStates
<1>2. Named(p)'
  BY <1>1, RunStays DEF Local, Named
<1>3. Passed(p)'
  <2>1. \A s \in Slices : s < w.slice =>
          \A v \in Eligible(w.exclude) : Complete(s, v) => Complete(s, v)'
    BY CompleteStays DEF Eligible
  <2>2. \A v \in Eligible(w.exclude) : Complete(w.slice, v) => Complete(w.slice, v)'
    BY <1>a, CompleteStays DEF Eligible
  <2>3. Populated(w.exclude) => Populated(w.exclude)'
    BY PopulatedStays
  <2> QED
    BY <1>1, <2>1, <2>2, <2>3 DEF Local, Passed, Eligible, Complete, Populated
<1>4. Earned(p)'
  <2> SUFFICES ASSUME r \in Runs, Mine(r, p)'
               PROVE  /\ w.pc \in Populating => run'[r].committed >= w.before
                      /\ w.pc \in Populating /\ run'[r].committed = w.before => w.chunk > 0
                      /\ w.pc = "succeed" => Exhausted(r)' \/ Populated(run[r].exclude)'
    BY DEF Earned
  <2>1. ~ClaimedBy(r, p) /\ ~ChargedBy(r, p)
    BY <1>a DEF ClaimedBy, ChargedBy
  <2>2. run[r].status # "NONE"
    BY <1>1 DEF Local, Named
  <2>3. /\ Mine(r, p) /\ run'[r].committed = run[r].committed
        /\ run'[r].exclude = run[r].exclude /\ run'[r].budget = run[r].budget
    BY <2>1, <2>2, RunStays
  <2>4. Populated(run[r].exclude) => Populated(run[r].exclude)'
    BY <2>3, PopulatedStays DEF Populated
  <2> QED
    BY <1>1, <2>3, <2>4 DEF Local, Earned, Exhausted
<1> QED
  BY <1>2, <1>3, <1>4 DEF Local

\* Who populates nothing has nothing to answer for but its run.
LEMMA QuietLocal ==
    ASSUME IInv, [Next]_vars, NEW p \in Processes, Types',
           worker'[p].pc \in {"idle", "claim", "begin", "yield", "fail", "release"},
           worker'[p].pc \in Settling => worker'[p].run \in Runs,
           \/ worker'[p].run = worker[p].run
           \/ worker'[p].run = NoRun
           \/ worker'[p].run \in Runs /\ run[worker'[p].run].status # "NONE",
           ~worker'[p].whole,
           worker'[p].pc \in {"claim", "begin"} => worker'[p].slice = 1
    PROVE  Local(p)'
<1>1. Named(p)'
  <2> DEFINE r == worker'[p].run
  <2>1. ASSUME r \in Runs PROVE run[r].status # "NONE"
    BY <2>1, PopulationAssumption DEF IInv, Local, Named
  <2> HIDE DEF r
  <2>2. ASSUME r \in Runs PROVE run'[r].status # "NONE"
    BY <2>1, <2>2, RunStays
  <2> QED
    BY <2>2 DEF Named, Populating, r
<1>2. Passed(p)' /\ Earned(p)'
  BY DEF Passed, Earned, Populating
<1> QED
  BY <1>1, <1>2 DEF Local

LEMMA BeginLocal == ASSUME IInv, [Next]_vars, NEW p \in Processes, Begin(p), Types' PROVE Local(p)'
<1> DEFINE w == worker[p]
           r == worker[p].run
           left == run[r].budget - run[r].committed
           chunk == IF left < ChunkWindows THEN left ELSE ChunkWindows
<1>1. w \in WorkerStates /\ r \in Runs /\ run[r] \in Rows /\ Local(p) /\ w.pc = "begin"
  BY DEF Begin, IInv, Types, Local, Named, Settling
<1>2. run[r].committed \in Nat /\ run[r].budget \in Nat /\ run[r].committed <= run[r].budget
  BY <1>1 DEF Rows, IInv, Accounts
<1>3. ~w.whole /\ w.slice = 1 /\ run[r].status # "NONE"
  BY <1>1 DEF Local, Passed, Named
<1>u. UNCHANGED <<run, reached>>
  BY DEF Begin
<1>4. CASE ~Owned(r, p)
  <2>1. worker'[p].pc = "release" /\ worker'[p].run = r /\ ~worker'[p].whole
    BY <1>1, <1>3, <1>4 DEF Begin, IInv, Types, WorkerStates
  <2> QED
    BY <1>1, <2>1, QuietLocal DEF Settling
<1>5. CASE Owned(r, p) /\ left <= 0
  <2>1. worker'[p].pc = "succeed" /\ worker'[p].run = r /\ ~worker'[p].whole
    BY <1>1, <1>3, <1>5 DEF Begin, IInv, Types, WorkerStates
  <2>2. run[r].committed = run[r].budget
    BY <1>2, <1>5
  <2> QED
    BY <1>1, <1>3, <1>u, <2>1, <2>2 DEF Local, Named, Passed, Earned, Exhausted, Settling, Populating
<1>6. CASE Owned(r, p) /\ ~(left <= 0)
  <2>1. worker'[p] = [w EXCEPT !.pc = "slice", !.before = run[r].committed, !.chunk = chunk,
                               !.exclude = run[r].exclude]
    BY <1>1, <1>6 DEF Begin, IInv, Types
  <2>2. chunk > 0
    BY <1>2, <1>6, PopulationAssumption
  <2> HIDE DEF chunk
  <2>3. /\ worker'[p].pc = "slice" /\ worker'[p].run = r /\ ~worker'[p].whole /\ worker'[p].slice = 1
        /\ worker'[p].before = run[r].committed /\ worker'[p].chunk > 0
        /\ worker'[p].exclude = run[r].exclude
    BY <1>1, <1>3, <2>1, <2>2 DEF WorkerStates
  <2>4. Passed(p)'
    BY <1>3, <2>3 DEF Passed, Slices
  <2>5. Named(p)' /\ Earned(p)'
    BY <1>1, <1>2, <1>3, <1>u, <2>3 DEF Named, Earned, Settling, Populating
  <2> QED
    BY <2>4, <2>5 DEF Local
<1> QED
  BY <1>4, <1>5, <1>6

LEMMA AfterLocal == ASSUME IInv, [Next]_vars, NEW p \in Processes, After(p), Types' PROVE Local(p)'
<1> DEFINE w == worker[p]
           r == worker[p].run
<1>1. w \in WorkerStates /\ Local(p) /\ w.pc = "after" /\ w.chunk \in Nat
  BY DEF After, IInv, Types, WorkerStates
<1>2. UNCHANGED <<run, reached>>
  BY DEF After
<1>3. PICK pc \in {"release", "succeed", "yield"} :
        /\ Conclude(p, pc)
        /\ pc = "yield" => r # NoRun
        /\ pc = "succeed" => /\ r # NoRun /\ Owned(r, p)
                             /\ \/ w.whole \/ run[r].committed >= run[r].budget
                                \/ run[r].committed = w.before
  BY DEF After
<1>4. worker'[p].pc = pc /\ worker'[p].run = r /\ ~worker'[p].whole
  BY <1>3 DEF Conclude, IInv, Types, Idle
<1>5. CASE pc # "succeed"
  BY <1>1, <1>3, <1>4, <1>5, QuietLocal DEF Settling, WorkerStates
<1>6. CASE pc = "succeed"
  <2>1. r \in Runs /\ Mine(r, p) /\ run[r] \in Rows
    BY <1>1, <1>3, <1>6 DEF WorkerStates, Owned, Mine, IInv, Types
  <2>2. /\ run[r].committed = w.before => w.chunk > 0
        /\ w.chunk = 0 \/ Populated(w.exclude)
        /\ w.whole => Populated(w.exclude)
        /\ w.exclude = run[r].exclude /\ run[r].status # "NONE"
    BY <1>1, <2>1 DEF Local, Earned, Passed, Named, Populating
  <2>3. run[r].committed >= run[r].budget => Exhausted(r)
    BY <2>1 DEF IInv, Accounts, Exhausted, Rows
  <2>4. Exhausted(r) \/ Populated(run[r].exclude)
    BY <1>1, <1>3, <1>6, <2>2, <2>3
  <2>a. run'[r] = run[r] /\ reached' = reached
    BY <1>2
  <2>b. Populated(run[r].exclude) => Populated(run[r].exclude)'
    BY <1>4, <2>a, PopulatedStays DEF Populated
  <2>5. Exhausted(r)' \/ Populated(run[r].exclude)'
    BY <1>4, <2>4, <2>a, <2>b DEF Exhausted
  <2> QED
    BY <1>2, <1>4, <1>6, <2>1, <2>2, <2>5 DEF Local, Named, Passed, Earned, Settling, Populating
<1> QED
  BY <1>5, <1>6

\* A slice is passed vehicle by vehicle.
LEMMA SliceLocal ==
    ASSUME IInv, [Next]_vars, NEW p \in Processes, Types',
           InspectSlice(p) \/ PrepareVehicle(p) \/ FinishSlice(p)
    PROVE  Local(p)'
<1> DEFINE w == worker[p]
           r == worker[p].run
<1>1. w \in WorkerStates /\ Local(p)
  BY DEF IInv, Types
<1>2. /\ w.slice \in Slices /\ w.todo \in SUBSET Vehicles /\ w.chunk \in Nat
      /\ w.run \in Runs \union {NoRun}
  BY <1>1 DEF WorkerStates
<1>3. UNCHANGED <<run, reached>> /\ w.pc \in {"slice", "vehicle"}
  BY DEF InspectSlice, PrepareVehicle, FinishSlice
<1>4. ~w.whole
  BY <1>1, <1>3 DEF Local, Passed
\* What does not depend on the vehicles.
<1>5. ASSUME worker'[p].run = w.run, worker'[p].exclude = w.exclude, worker'[p].before = w.before,
             worker'[p].chunk = w.chunk, worker'[p].pc \in Populating,
             worker'[p].pc = "window" => worker'[p].vehicle \in Vehicles /\ w.chunk > 0
      PROVE  Named(p)' /\ Earned(p)'
  BY <1>1, <1>3, <1>5 DEF Local, Named, Earned, Mine, Settling, Populating
<1>6. CASE InspectSlice(p) /\ w.chunk = 0
  <2>1. worker'[p] = Returned(w, "after")
    BY <1>6 DEF InspectSlice, IInv, Types
  <2>2. /\ worker'[p].pc = "after" /\ worker'[p].run = w.run /\ worker'[p].exclude = w.exclude
        /\ worker'[p].before = w.before /\ worker'[p].chunk = w.chunk /\ ~worker'[p].whole
    BY <1>1, <1>4, <2>1 DEF Returned, WorkerStates
  <2> QED
    BY <1>5, <1>6, <2>2 DEF Local, Passed, Populating
<1>7. CASE InspectSlice(p) /\ w.chunk # 0
  <2>1. worker'[p] = [w EXCEPT !.pc = "vehicle",
                               !.todo = {v \in Eligible(w.exclude) : ~Complete(w.slice, v)}]
    BY <1>7 DEF InspectSlice, IInv, Types
  <2>2. /\ worker'[p].pc = "vehicle" /\ worker'[p].run = w.run /\ worker'[p].exclude = w.exclude
        /\ worker'[p].before = w.before /\ worker'[p].chunk = w.chunk /\ ~worker'[p].whole
        /\ worker'[p].slice = w.slice
        /\ worker'[p].todo = {v \in Eligible(w.exclude) : ~Complete(w.slice, v)}
    BY <1>1, <1>4, <2>1 DEF WorkerStates
  <2>3. Passed(p)'
    BY <1>1, <1>3, <1>7, <2>2 DEF InspectSlice, Local, Passed, Complete, Eligible
  <2> QED
    BY <1>5, <2>2, <2>3 DEF Local, Populating
<1>8. CASE PrepareVehicle(p)
  <2>1. PICK v \in w.todo :
          worker'[p] = [w EXCEPT !.todo = @ \ {v}, !.vehicle = v, !.at = reached[w.slice][v],
                                 !.pc = IF Complete(w.slice, v) THEN "vehicle" ELSE "window"]
    BY <1>8 DEF PrepareVehicle, IInv, Types
  <2>2. /\ worker'[p].pc = (IF Complete(w.slice, v) THEN "vehicle" ELSE "window")
        /\ worker'[p].run = w.run /\ worker'[p].exclude = w.exclude
        /\ worker'[p].before = w.before /\ worker'[p].chunk = w.chunk /\ ~worker'[p].whole
        /\ worker'[p].slice = w.slice /\ worker'[p].todo = w.todo \ {v} /\ worker'[p].vehicle = v
    BY <1>1, <1>4, <2>1 DEF WorkerStates
  <2>3. w.pc = "vehicle" /\ w.chunk > 0 /\ v \in Vehicles
    BY <1>2, <1>8 DEF PrepareVehicle
  <2>4. Passed(p)'
    BY <1>1, <1>3, <2>2, <2>3 DEF Local, Passed, Complete, Eligible
  <2> QED
    BY <1>5, <2>2, <2>3, <2>4 DEF Local, Populating
<1>9. CASE FinishSlice(p)
  <2>1. /\ w.pc = "vehicle"
        /\ \A s \in Slices : s < w.slice => \A v \in Eligible(w.exclude) : Complete(s, v)
        /\ \A v \in Eligible(w.exclude) : v \in w.todo \/ Complete(w.slice, v)
    BY <1>1, <1>9 DEF FinishSlice, Local, Passed
  <2>2. CASE w.todo = {} /\ w.slice + 1 \in Slices
    <3>0. worker'[p] = [Returned(w, "slice") EXCEPT !.slice = @ + 1]
      BY <1>9, <2>2 DEF FinishSlice, IInv, Types
    <3>1. /\ worker'[p].pc = "slice" /\ worker'[p].run = w.run /\ worker'[p].exclude = w.exclude
          /\ worker'[p].before = w.before /\ worker'[p].chunk = w.chunk /\ ~worker'[p].whole
          /\ worker'[p].slice = w.slice + 1
      BY <1>1, <1>4, <3>0 DEF Returned, WorkerStates
    <3>2. \A s \in Slices : s < w.slice + 1 => s < w.slice \/ s = w.slice
      BY <1>2 DEF Slices
    <3>3. Passed(p)'
      BY <1>3, <2>1, <2>2, <3>1, <3>2 DEF Passed, Complete, Eligible
    <3> QED
      BY <1>5, <3>1, <3>3 DEF Local, Populating
  <2>3. CASE w.todo = {} /\ w.slice + 1 \notin Slices
    <3>0. worker'[p] = [Returned(w, "after") EXCEPT !.whole = TRUE]
      BY <1>9, <2>3 DEF FinishSlice, IInv, Types
    <3>1. /\ worker'[p].pc = "after" /\ worker'[p].run = w.run /\ worker'[p].exclude = w.exclude
          /\ worker'[p].before = w.before /\ worker'[p].chunk = w.chunk
      BY <1>1, <3>0 DEF Returned, WorkerStates
    <3>2. \A s \in Slices : s < w.slice \/ s = w.slice
      BY <1>2, <2>3, PopulationAssumption DEF Slices
    <3>3. Populated(w.exclude)
      BY <2>1, <2>3, <3>2 DEF Populated
    <3>4. Passed(p)'
      BY <1>3, <3>1, <3>3 DEF Passed, Populated, Complete, Eligible
    <3> QED
      BY <1>5, <3>1, <3>4 DEF Local, Populating
  <2>4. CASE w.todo # {}
    <3>0. worker'[p] = Returned(w, "after") /\ w.chunk = 0
      BY <1>9, <2>4 DEF FinishSlice, IInv, Types
    <3>1. /\ worker'[p].pc = "after" /\ worker'[p].run = w.run /\ worker'[p].exclude = w.exclude
          /\ worker'[p].before = w.before /\ worker'[p].chunk = w.chunk /\ ~worker'[p].whole
      BY <1>1, <1>4, <3>0 DEF Returned, WorkerStates
    <3> QED
      BY <1>5, <3>0, <3>1 DEF Local, Passed, Populating
  <2> QED
    BY <2>2, <2>3, <2>4
<1> QED
  BY <1>6, <1>7, <1>8, <1>9

LEMMA PersistLocal ==
    ASSUME IInv, [Next]_vars, NEW p \in Processes, Types', PersistWindow(p)
    PROVE  Local(p)'
<1> DEFINE w == worker[p]
           r == worker[p].run
           u == worker'[p]
<1>1. w \in WorkerStates /\ Local(p) /\ w.pc = "window"
  BY DEF PersistWindow, IInv, Types
<1>2. /\ w.slice \in Slices /\ w.chunk \in Nat /\ w.at \in 0..SliceWindows
      /\ w.run \in Runs \union {NoRun} /\ ~w.whole /\ w.vehicle \in Vehicles
  BY <1>1 DEF WorkerStates, Local, Passed, Named
<1>3. /\ u.chunk = w.chunk - 1 /\ u.run = r /\ u.exclude = w.exclude
      /\ u.before = w.before /\ u.slice = w.slice /\ u.pc \in Populating
      /\ u.pc = "window" => u.vehicle = w.vehicle /\ u.chunk # 0
      /\ u.pc = "after" => u.chunk = 0 /\ ~u.whole
      /\ u.pc \in {"vehicle", "window", "after"}
      /\ u.pc \in {"vehicle", "window"} => u.todo = w.todo
  BY <1>2, PersistLocals DEF Populating
<1>a. u.whole = FALSE /\ u.chunk \in Nat
  BY <1>2, PersistLocals DEF Types, WorkerStates
<1>4. u.pc = "vehicle" => reached'[w.slice][w.vehicle] = SliceWindows
  <2>1. u.pc = "vehicle" => w.at + 1 = SliceWindows
    BY PersistLocals
  <2>a. /\ reached \in [Slices -> [Vehicles -> 0..SliceWindows]]
        /\ reached' = [reached EXCEPT ![w.slice][w.vehicle] = w.at + 1]
    BY PersistStores DEF Stored, IInv, Types
  <2>2. reached'[w.slice][w.vehicle] = w.at + 1
    BY <1>2, <2>a
  <2> QED
    BY <2>1, <2>2
<1>5. Named(p)'
  <2>1. ASSUME r \in Runs PROVE run'[r].status # "NONE" /\ run'[r].exclude = w.exclude
    BY <1>1, <2>1, RunStays DEF Local, Named, Populating
  <2> HIDE DEF u, w, r
  <2> QED
    BY <1>2, <1>3, <1>a, <2>1 DEF Named, Settling, Populating, u, w, r
<1>6. Passed(p)'
  <2>1. \A s \in Slices : s < w.slice => \A v \in Eligible(w.exclude) : Complete(s, v)'
    BY <1>1, CompleteStays DEF Local, Passed, Eligible
  <2>2. ASSUME NEW v \in Eligible(w.exclude), v \notin w.todo, v # w.vehicle
        PROVE  reached'[w.slice][v] = SliceWindows
    <3>1. Complete(w.slice, v) /\ v \in Vehicles
      BY <1>1, <2>2 DEF Local, Passed, Eligible
    <3> QED
      BY <1>2, <3>1, CompleteStays DEF Complete
  <2> QED
    BY <1>3, <1>4, <1>a, <2>1, <2>2 DEF Passed, Eligible, Complete
<1>7. Earned(p)'
  <2> SUFFICES ASSUME r \in Runs, Mine(r, p)'
               PROVE  run'[r].committed >= w.before /\ run'[r].committed # w.before
    BY <1>3 DEF Earned, Populating
  <2>1. run[r] \in Rows /\ Mine(r, p) /\ run'[r] = [run[r] EXCEPT !.committed = @ + 1]
    BY PopulationAssumption DEF PersistWindow, Persistable, Accountable, Owned, Mine, IInv, Types
  <2>2. run[r].committed >= w.before /\ run[r].committed \in Nat /\ w.before \in Nat
    BY <1>1, <2>1 DEF Local, Earned, Populating, Rows, WorkerStates
  <2>3. run'[r].committed = run[r].committed + 1
    BY <2>1 DEF Rows
  <2> QED
    BY <2>2, <2>3
<1> QED
  BY <1>5, <1>6, <1>7 DEF Local

LEMMA ShortLocal ==
    ASSUME NEW p \in Processes, NEW n \in ShortWindows, NEW x \in BOOLEAN,
           StartShort(p, n, x), IInv
    PROVE  Local(p)'
<1>1. worker'[p] = [Idle EXCEPT !.pc = "slice", !.chunk = n, !.exclude = x]
  BY DEF StartShort, IInv, Types
<1>2. /\ worker'[p].pc = "slice" /\ worker'[p].run = NoRun /\ worker'[p].slice = 1
      /\ worker'[p].whole = FALSE
  BY <1>1 DEF Idle
<1> QED
  BY <1>2, PopulationAssumption DEF Local, Named, Passed, Earned, Settling, Populating, Slices

\* Between claiming and populating, and after a run is settled.
LEMMA BetweenLocal ==
    ASSUME IInv, [Next]_vars, NEW p \in Processes, Types',
           \/ \E r \in Runs : Poll(p, r)
           \/ Claim(p) \/ LoseWindow(p) \/ Succeed(p) \/ Yield(p) \/ Fail(p) \/ Release(p) \/ Crash(p)
    PROVE  Local(p)'
<1>0. worker[p] \in WorkerStates /\ Local(p)
  BY DEF IInv, Types
<1>1. ASSUME NEW r \in Runs, Poll(p, r) PROVE Local(p)'
  <2>1. /\ worker'[p].pc = "claim" /\ worker'[p].run = r /\ worker'[p].slice = 1 /\ ~worker'[p].whole
        /\ run[r].status # "NONE"
    BY <1>1 DEF Poll, Claimable, IInv, Types, Idle
  <2> QED
    BY <2>1, QuietLocal
<1>2. CASE Claim(p)
  <2>1. /\ worker'[p].pc \in {"begin", "release"} /\ worker'[p].run = worker[p].run
        /\ worker'[p].slice = worker[p].slice /\ worker'[p].whole = worker[p].whole
        /\ worker[p].pc = "claim"
    BY <1>0, <1>2 DEF Claim, Goto, IInv, Types, WorkerStates
  <2>2. worker[p].slice = 1 /\ ~worker[p].whole /\ worker[p].run \in Runs
    BY <1>0, <2>1 DEF Local, Passed, Named, Settling
  <2> QED
    BY <2>1, <2>2, QuietLocal
<1>3. CASE LoseWindow(p)
  <2>1. PICK pc \in {"release", "fail"} : Conclude(p, pc) /\ (pc = "fail" => worker[p].run # NoRun)
    BY <1>3 DEF LoseWindow
  <2>2. worker'[p].pc = pc /\ worker'[p].run = worker[p].run /\ ~worker'[p].whole
    BY <2>1 DEF Conclude, IInv, Types, Idle
  <2> QED
    BY <1>0, <2>1, <2>2, QuietLocal DEF WorkerStates, Settling
<1>4. ASSUME NEW pc \in {"succeed", "yield", "fail"}, NEW status, Settle(p, pc, status)
      PROVE  Local(p)'
  <2>1. /\ worker'[p].pc = "release" /\ worker'[p].run = worker[p].run
        /\ worker'[p].whole = worker[p].whole /\ worker[p].pc # "after"
    BY <1>0, <1>4 DEF Settle, Goto, IInv, Types, WorkerStates
  <2>2. ~worker'[p].whole
    BY <1>0, <2>1 DEF Local, Passed
  <2> QED
    BY <2>1, <2>2, QuietLocal DEF Settling
<1>5. CASE Succeed(p) \/ Yield(p) \/ Fail(p)
  BY <1>4, <1>5 DEF Succeed, Yield, Fail
<1>6. CASE Release(p) \/ Crash(p)
  <2>1. worker'[p] = Idle
    BY <1>6 DEF Release, Crash, IInv, Types
  <2> QED
    BY <2>1, QuietLocal DEF Idle, Settling
<1> QED
  BY <1>1, <1>2, <1>3, <1>5, <1>6

LEMMA LocalStep == ASSUME IInv, [Next]_vars, Types', NEW p \in Processes PROVE Local(p)'
<1>1. CASE worker' = worker
  BY <1>1, SteadyLocal
<1>2. ASSUME NEW q \in Processes,
             Work(q) \/ Crash(q) \/ PollSome(q) \/ \E n \in ShortWindows, x \in BOOLEAN : StartShort(q, n, x)
      PROVE  q # p => worker'[p] = worker[p]
  <2>1. CASE Claim(q) \/ LoseWindow(q) \/ After(q) \/ Succeed(q) \/ Yield(q) \/ Fail(q)
    BY <2>1 DEF Claim, Goto, LoseWindow, Conclude, After, Succeed, Yield, Fail, Settle, IInv, Types
  <2>2. CASE Begin(q) \/ InspectSlice(q) \/ PrepareVehicle(q) \/ FinishSlice(q) \/ PersistWindow(q)
    BY <2>2 DEF Begin, InspectSlice, PrepareVehicle, FinishSlice, PersistWindow, IInv, Types
  <2>3. CASE Release(q) \/ Crash(q) \/ PollSome(q)
              \/ \E n \in ShortWindows, x \in BOOLEAN : StartShort(q, n, x)
    BY <2>3 DEF Release, Crash, PollSome, Poll, StartShort, IInv, Types
  <2> QED
    BY <1>2, <2>1, <2>2, <2>3 DEF Work
<1>3. ASSUME Work(p) PROVE Local(p)'
  BY <1>3, BeginLocal, SliceLocal, PersistLocal, AfterLocal, BetweenLocal DEF Work
<1>4. ASSUME NEW q \in Processes, Work(q) \/ Crash(q) \/ PollSome(q) PROVE Local(p)'
  BY <1>2, <1>3, <1>4, BetweenLocal, SteadyLocal DEF PollSome
<1>5. CASE ShortExecution
  BY <1>2, <1>5, ShortLocal, SteadyLocal DEF ShortExecution
<1>6. CASE CreateByUser \/ Maintain \/ Command \/ RunOut \/ LoseLock \/ \E r \in Runs : LoseLease(r)
  BY <1>1, <1>6 DEF CreateByUser, Maintain, Create, Command, StartCommand, CommandWindow,
     RunOut, LeaseRunsOut, LoseLock, LoseLease
<1> QED
  BY <1>1, <1>4, <1>5, <1>6 DEF Next, Misfortune, vars

LEMMA SuccessStep == ASSUME IInv, [Next]_vars PROVE SuccessIsEarned'
<1> SUFFICES ASSUME NEW r \in Runs, run'[r].status = "SUCCEEDED"
             PROVE  run'[r].committed = run'[r].budget \/ Populated(run[r].exclude)'
  BY DEF SuccessIsEarned, Exhausted
<1>0. run[r] \in Rows
  BY DEF IInv, Types
<1>1. ASSUME run[r].status # "NONE", Exhausted(r) \/ Populated(run[r].exclude),
             run'[r].committed = run[r].committed
      PROVE  run'[r].committed = run'[r].budget \/ Populated(run[r].exclude)'
  <2>1. run'[r].exclude = run[r].exclude /\ run'[r].budget = run[r].budget
    BY <1>1, RunStays
  <2>2. Populated(run[r].exclude) => Populated(run[r].exclude)'
    BY <2>1, PopulatedStays DEF Populated
  <2> QED
    BY <1>1, <2>1, <2>2 DEF Exhausted
<1>2. CASE run'[r] = run[r]
  BY <1>1, <1>2 DEF IInv, SuccessIsEarned
<1>3. ASSUME NEW p \in Processes, SettledBy(r, p)
      PROVE  run'[r].committed = run'[r].budget \/ Populated(run[r].exclude)'
  <2>1. worker[p].pc = "succeed" /\ worker[p].run = r /\ Mine(r, p) /\ run'[r].committed = run[r].committed
    BY <1>0, <1>3 DEF SettledBy, Owned, Mine, Rows
  <2> QED
    BY <1>1, <2>1 DEF IInv, Local, Earned, Mine
<1>4. ~Created(r) /\ ~Expired(r) /\ \A p \in Processes : ~ClaimedBy(r, p) /\ ~ChargedBy(r, p)
  BY <1>0 DEF Created, Expired, ClaimedBy, ChargedBy, Accountable, Owned, Rows
<1> QED
  BY <1>2, <1>3, <1>4, ChangeStep DEF Change

LEMMA Invariance == Spec => []IInv
<1>1. IInv /\ [Next]_vars => IInv'
  <2> SUFFICES ASSUME IInv, [Next]_vars PROVE IInv'
    OBVIOUS
  <2>1. Types'
    BY TypesStep
  <2>2. \A p \in Processes : Local(p)'
    BY <2>1, LocalStep
  <2> QED
    BY <2>1, <2>2, AccountsStep, SuccessStep DEF IInv
<1> QED
  BY <1>1, InitInv, PTL DEF Spec

\* Runs, checkpoints, workers and the command keep their types.
THEOREM TypeCorrect == Spec => []TypeOK
<1>1. IInv => TypeOK
  BY TypesSuffice DEF IInv
<1> QED
  BY <1>1, Invariance, PTL

\* A run reported as succeeded has spent its budget or completed every slice for
\* the vehicles it is to store, whatever leases, locks and processes
\* were lost on the way.
THEOREM SuccessEarned == Spec => []SuccessIsEarned
<1>1. IInv => SuccessIsEarned
  BY DEF IInv
<1> QED
  BY <1>1, Invariance, PTL

\* No step of a worker, however stale, changes a run that has ended.
THEOREM FinishedStays == Spec => FinishedIsFinal
<1>1. IInv /\ [Next]_vars =>
        [\A r \in Runs : run[r].status \in {"SUCCEEDED", "FAILED"} => run'[r] = run[r]]_vars
  BY ChangeStep DEF Change, Created, Expired, ClaimedBy, ChargedBy, Accountable, SettledBy, Owned, Active
<1> QED
  BY <1>1, Invariance, PTL DEF Spec, FinishedIsFinal
-----------------------------------------------------------------------------
(* The ledger.                                                              *)

\* What the rows and checkpoints say of the ledger.
AllWindows == Slices \X Vehicles \X (1..SliceWindows)
StoredWindows == {x \in AllWindows : x[3] <= reached[x[1]][x[2]]}
PhaseOf(r) == CASE run[r].status = "NONE" -> "NONE"
                [] run[r].status \in Active -> "OPEN"
                [] OTHER -> "CLOSED"
Phases == [r \in Runs |-> PhaseOf(r)]
Quotas == [r \in Runs |-> run[r].budget]
Charges == [r \in Runs |-> run[r].committed]

\* A window more of a vehicle and slice is one window more in the ledger.
LEMMA StoredOnce ==
    ASSUME IInv, NEW s \in Slices, NEW v \in Vehicles, Stored(s, v)
    PROVE  \E x \in AllWindows : x \notin StoredWindows /\ StoredWindows' = StoredWindows \union {x}
<1> DEFINE n == reached[s][v] + 1
<1>1. reached \in [Slices -> [Vehicles -> 0..SliceWindows]]
  BY DEF IInv, Types
<1>2. n \in 1..SliceWindows
  <2>1. reached[s][v] \in 0..SliceWindows /\ reached[s][v] # SliceWindows
    BY <1>1 DEF Stored, Complete
  <2> QED
    BY <2>1, PopulationAssumption
<1>3. <<s, v, n>> \in AllWindows
  BY <1>2 DEF AllWindows
<1>4. <<s, v, n>> \notin StoredWindows
  BY <1>1 DEF StoredWindows
<1>5. ASSUME NEW x \in AllWindows
      PROVE  x[3] <= reached'[x[1]][x[2]] <=> x[3] <= reached[x[1]][x[2]] \/ x = <<s, v, n>>
  <2>1. PICK t \in Slices, u \in Vehicles, m \in 1..SliceWindows : x = <<t, u, m>>
    BY DEF AllWindows
  <2>2. CASE t = s /\ u = v
    <3>1. reached'[t][u] = n /\ reached[t][u] \in 0..SliceWindows /\ n = reached[t][u] + 1
      BY <1>1, <2>2 DEF Stored
    <3>2. m <= n <=> m <= reached[t][u] \/ m = n
      BY <3>1
    <3> QED
      BY <2>1, <2>2, <3>1, <3>2
  <2>3. CASE ~(t = s /\ u = v)
    <3>1. reached'[t][u] = reached[t][u]
      BY <1>1, <2>3 DEF Stored
    <3> QED
      BY <2>1, <2>3, <3>1
  <2> QED
    BY <2>2, <2>3
<1>6. StoredWindows' = StoredWindows \union {<<s, v, n>>}
  BY <1>3, <1>5 DEF StoredWindows
<1> QED
  BY <1>3, <1>4, <1>6

\* The ledger of the module, by these names.
LEMMA LedgerNames ==
    /\ Ledger!ledger = <<StoredWindows, Phases, Quotas, Charges>>
    /\ \A r \in Runs : Ledger!Open(r) <=>
         /\ Phases[r] = "NONE" /\ \A o \in Runs : Phases[o] # "OPEN"
         /\ Phases' = [Phases EXCEPT ![r] = "OPEN"]
         /\ Quotas'[r] \in Nat \ {0} /\ Quotas' = [Quotas EXCEPT ![r] = Quotas'[r]]
         /\ StoredWindows' = StoredWindows /\ Charges' = Charges
    /\ \A r \in Runs, x \in AllWindows : Ledger!StoreFor(r, x) <=>
         /\ Phases[r] = "OPEN" /\ Charges[r] < Quotas[r] /\ x \notin StoredWindows
         /\ StoredWindows' = StoredWindows \union {x}
         /\ Charges' = [Charges EXCEPT ![r] = @ + 1]
         /\ Phases' = Phases /\ Quotas' = Quotas
    /\ \A x \in AllWindows : Ledger!StoreByHand(x) <=>
         /\ x \notin StoredWindows /\ StoredWindows' = StoredWindows \union {x}
         /\ Phases' = Phases /\ Quotas' = Quotas /\ Charges' = Charges
    /\ \A r \in Runs : Ledger!Close(r) <=>
         /\ Phases[r] = "OPEN" /\ Phases' = [Phases EXCEPT ![r] = "CLOSED"]
         /\ StoredWindows' = StoredWindows /\ Quotas' = Quotas /\ Charges' = Charges
  BY DEF Ledger!ledger, Ledger!Open, Ledger!StoreFor, Ledger!StoreByHand, Ledger!Close,
     StoredWindows, AllWindows, Phases, PhaseOf, Quotas, Charges

\* The ledger sees nothing of a claim, an expired lease or a yield.
Unseen(r) ==
    PhaseOf(r)' = PhaseOf(r) /\ run'[r].budget = run[r].budget /\ run'[r].committed = run[r].committed

LEMMA StepKeepsLedger == ASSUME IInv, [Next]_vars PROVE [Ledger!Next]_(Ledger!ledger)
<1>0. \A r \in Runs : run[r] \in Rows
  BY DEF IInv, Types
<1>1. ASSUME \A r \in Runs : Unseen(r)
      PROVE  Phases' = Phases /\ Quotas' = Quotas /\ Charges' = Charges
  BY <1>1 DEF Unseen, Phases, Quotas, Charges
<1>2. CASE reached' = reached /\ \A r \in Runs : Unseen(r)
  <2>1. StoredWindows' = StoredWindows
    BY <1>2 DEF StoredWindows
  <2>2. Phases' = Phases /\ Quotas' = Quotas /\ Charges' = Charges
    BY <1>1, <1>2
  <2>3. UNCHANGED Ledger!ledger
    BY <2>1, <2>2
       DEF Ledger!ledger, StoredWindows, AllWindows, Phases, PhaseOf, Quotas, Charges
  <2> QED
    BY <2>3
<1>3. CASE UNCHANGED <<run, reached>>
  BY <1>2, <1>3 DEF Unseen, PhaseOf
<1>4. ASSUME NEW r \in Runs, NEW b \in Budgets, NEW x \in BOOLEAN, Create(r, b, x)
      PROVE  [Ledger!Next]_(Ledger!ledger)
  <2>0. /\ run'[r] = [NotCreated EXCEPT !.status = "PENDING", !.budget = b, !.exclude = x]
        /\ \A o \in Runs : o # r => run'[o] = run[o]
        /\ run[r].status = "NONE" /\ run[r].committed = 0
        /\ \A o \in Runs : run[o].status \notin Active
    BY <1>4 DEF Create, IInv, Types, Accounts
  <2>a. run'[r].status = "PENDING" /\ run'[r].budget = b /\ run'[r].committed = 0
    BY <2>0 DEF NotCreated
  <2>1. Phases[r] = "NONE" /\ \A o \in Runs : Phases[o] # "OPEN"
    BY <2>0 DEF Phases, PhaseOf
  <2>2. Phases' = [Phases EXCEPT ![r] = "OPEN"]
    BY <2>0, <2>a DEF Phases, PhaseOf, Active
  <2>3. Quotas'[r] \in Nat \ {0} /\ Quotas' = [Quotas EXCEPT ![r] = Quotas'[r]]
    BY <2>0, <2>a, PopulationAssumption DEF Quotas
  <2>4. StoredWindows' = StoredWindows /\ Charges' = Charges
    BY <1>4, <2>0, <2>a DEF Create, StoredWindows, Charges
  <2>5. Ledger!Open(r)
    BY <2>1, <2>2, <2>3, <2>4, LedgerNames
  <2> QED
    BY <2>5 DEF Ledger!Next, Ledger!OpenSome
<1>5. ASSUME NEW p \in Processes, PersistWindow(p) PROVE [Ledger!Next]_(Ledger!ledger)
  <2> DEFINE r == worker[p].run
  <2>1. PICK x \in AllWindows :
          x \notin StoredWindows /\ StoredWindows' = StoredWindows \union {x}
    BY <1>5, PersistStores, StoredOnce
  <2>2. CASE r = NoRun
    <3>1. run' = run
      BY <1>5, <2>2 DEF PersistWindow
    <3>2. Phases' = Phases /\ Quotas' = Quotas /\ Charges' = Charges
      BY <1>1, <3>1 DEF Unseen, PhaseOf
    <3> QED
      BY <2>1, <3>2, LedgerNames DEF Ledger!Next, Ledger!StoreSomeByHand, AllWindows
  <2>3. CASE r # NoRun
    <3>1. r \in Runs /\ Accountable(r, p) /\ run' = [run EXCEPT ![r].committed = @ + 1]
      BY <1>5, <2>3 DEF PersistWindow, Persistable, IInv, Types, WorkerStates
    <3> HIDE DEF r
    <3>a. run \in [Runs -> Rows]
      BY DEF IInv, Types
    <3>2. \A o \in Runs : run'[o].status = run[o].status /\ run'[o].budget = run[o].budget
            /\ run'[o].committed = IF o = r THEN run[o].committed + 1 ELSE run[o].committed
      BY <3>1, <3>a DEF Rows
    <3>3. Phases[r] = "OPEN" /\ Charges[r] < Quotas[r]
      BY <3>1 DEF Accountable, Owned, Phases, PhaseOf, Charges, Quotas, Active
    <3>b. Phases' = Phases
      BY <3>2 DEF Phases, PhaseOf
    <3>c. Quotas' = Quotas /\ Charges' = [Charges EXCEPT ![r] = @ + 1]
      BY <3>1, <3>2 DEF Quotas, Charges
    <3>4. Phases' = Phases /\ Quotas' = Quotas /\ Charges' = [Charges EXCEPT ![r] = @ + 1]
      BY <3>b, <3>c
    <3> QED
      BY <2>1, <3>1, <3>3, <3>4, LedgerNames DEF Ledger!Next, Ledger!StoreForSome, AllWindows
  <2> QED
    BY <2>2, <2>3
<1>6. ASSUME CommandWindow PROVE [Ledger!Next]_(Ledger!ledger)
  <2>1. run' = run
    BY <1>6 DEF CommandWindow
  <2>2. CASE reached' # reached
    <3>1. PICK x \in AllWindows :
            x \notin StoredWindows /\ StoredWindows' = StoredWindows \union {x}
      BY <1>6, <2>2, CommandStores, StoredOnce
    <3>2. Phases' = Phases /\ Quotas' = Quotas /\ Charges' = Charges
      BY <1>1, <2>1 DEF Unseen, PhaseOf
    <3> QED
      BY <3>1, <3>2, LedgerNames DEF Ledger!Next, Ledger!StoreSomeByHand, AllWindows
  <2> QED
    BY <1>3, <2>1, <2>2
<1>7. ASSUME NEW r \in Runs, LeaseRunsOut(r) \/ LoseLease(r) PROVE [Ledger!Next]_(Ledger!ledger)
  <2>1. run' = [run EXCEPT ![r].lease = FALSE] /\ reached' = reached
    BY <1>7 DEF LeaseRunsOut, LoseLease, Fault
  <2>2. \A o \in Runs : Unseen(o)
    BY <1>0, <2>1 DEF Unseen, PhaseOf, Rows, IInv, Types
  <2> QED
    BY <1>2, <2>1, <2>2
<1>8. ASSUME NEW p \in Processes, Claim(p) PROVE [Ledger!Next]_(Ledger!ledger)
  <2> DEFINE r == worker[p].run
  <2>1. reached' = reached
    BY <1>8 DEF Claim
  <2>2. CASE run' # run
    <3>1. /\ run' = [run EXCEPT ![r].status = "RUNNING", ![r].owner = p, ![r].lease = TRUE]
          /\ run[r].status \in Active
      BY <1>8, <2>2 DEF Claim, Claimable, Active
    <3>2. \A o \in Runs : Unseen(o)
      BY <1>0, <3>1 DEF Unseen, PhaseOf, Rows, Active, IInv, Types
    <3> QED
      BY <1>2, <2>1, <3>2
  <2> QED
    BY <1>3, <2>1, <2>2
<1>9. ASSUME NEW p \in Processes, NEW pc \in {"succeed", "yield", "fail"},
             NEW status \in {"SUCCEEDED", "PENDING", "FAILED"}, Settle(p, pc, status)
      PROVE  [Ledger!Next]_(Ledger!ledger)
  <2>0. PICK r \in Runs : r = worker[p].run
    BY <1>9 DEF Settle, IInv, Local, Named, Settling
  <2>1. reached' = reached
    BY <1>9 DEF Settle
  <2>2. CASE ~Owned(r, p)
    BY <1>3, <1>9, <2>0, <2>2 DEF Settle
  <2>3. CASE Owned(r, p)
    <3>a. run' = [run EXCEPT ![r].status = status, ![r].owner = Nobody, ![r].lease = FALSE]
      BY <1>9, <2>0, <2>3 DEF Settle
    <3>1. \A o \in Runs : run'[o].status = (IF o = r THEN status ELSE run[o].status)
            /\ run'[o].budget = run[o].budget /\ run'[o].committed = run[o].committed
      BY <1>0, <3>a DEF Rows, IInv, Types
    <3>2. CASE status = "PENDING"
      <4>1. \A o \in Runs : Unseen(o)
        BY <2>3, <3>1, <3>2 DEF Unseen, PhaseOf, Owned, Active
      <4> QED
        BY <1>2, <2>1, <4>1
    <3>3. CASE status # "PENDING"
      <4>1. Phases[r] = "OPEN" /\ Phases' = [Phases EXCEPT ![r] = "CLOSED"]
        BY <2>3, <3>1, <3>3 DEF Phases, PhaseOf, Owned, Active
      <4>2. StoredWindows' = StoredWindows /\ Quotas' = Quotas /\ Charges' = Charges
        BY <2>1, <3>1 DEF StoredWindows, Quotas, Charges
      <4> QED
        BY <4>1, <4>2, LedgerNames DEF Ledger!Next, Ledger!CloseSome
    <3> QED
      BY <3>2, <3>3
  <2> QED
    BY <2>2, <2>3
<1>10. ASSUME NEW p \in Processes, Work(p) PROVE [Ledger!Next]_(Ledger!ledger)
  <2>1. CASE Succeed(p) \/ Yield(p) \/ Fail(p)
    BY <1>9, <2>1 DEF Succeed, Yield, Fail
  <2>2. CASE \/ Begin(p) \/ InspectSlice(p) \/ PrepareVehicle(p) \/ FinishSlice(p)
             \/ LoseWindow(p) \/ After(p) \/ Release(p)
    BY <1>3, <2>2 DEF Begin, InspectSlice, PrepareVehicle, FinishSlice, LoseWindow, After, Release
  <2> QED
    BY <1>5, <1>8, <1>10, <2>1, <2>2 DEF Work
<1>11. CASE \/ UNCHANGED vars \/ LoseLock \/ ShortExecution
            \/ \E p \in Processes : Crash(p) \/ PollSome(p)
            \/ \E s \in Commanded, v \in Vehicles : StartCommand(s, v)
  BY <1>3, <1>11 DEF vars, LoseLock, ShortExecution, StartShort, Crash, Fault, PollSome, Poll,
     StartCommand
<1> QED
  BY <1>4, <1>6, <1>7, <1>10, <1>11
     DEF Next, CreateByUser, Maintain, Command, RunOut, Misfortune

\* Runs, checkpoints and workers implement the ledger: no window is stored
\* twice or charged to a run that is closed or exhausted.
THEOREM LedgerKept == Spec => KeepsLedger
<1>1. Init => Ledger!Init
  <2> SUFFICES ASSUME Init PROVE Ledger!Init
    OBVIOUS
  <2>1. StoredWindows = {}
    BY PopulationAssumption DEF Init, StoredWindows, AllWindows
  <2>2. \A r \in Runs : run[r].status = "NONE" /\ run[r].budget = 0 /\ run[r].committed = 0
    BY DEF Init, NotCreated
  <2>3. Phases = [r \in Runs |-> "NONE"]
    <3>1. \A r \in Runs : PhaseOf(r) = "NONE"
      BY <2>2 DEF PhaseOf, Active
    <3> QED
      BY <3>1 DEF Phases
  <2>4. Quotas = [r \in Runs |-> 0] /\ Charges = [r \in Runs |-> 0]
    BY <2>2 DEF Quotas, Charges
  <2> QED
    BY <2>1, <2>3, <2>4
       DEF Ledger!Init, StoredWindows, AllWindows, Phases, PhaseOf, Quotas, Charges
<1>2. IInv /\ [Next]_vars => [Ledger!Next]_(Ledger!ledger)
  BY StepKeepsLedger
<1> QED
  BY <1>1, <1>2, Invariance, PTL DEF Spec, KeepsLedger, Ledger!Spec
=============================================================================
