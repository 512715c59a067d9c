-------------------------- MODULE HistoryCoverage_proof --------------------------
(***************************************************************************)
(* Proofs about HistoryCoverage for any vehicles, policy, overlap, fetch   *)
(* durations, budgets and backfills, and any number of faults.             *)
(***************************************************************************)
EXTENDS HistoryCoverage, TLAPS

-----------------------------------------------------------------------------
(* The policy floor.                                                        *)

LEMMA WeekRemainder ==
    ASSUME NEW t \in Nat
    PROVE  /\ t % Week \in 0..(Week - 1) /\ t \div Week \in Int
           /\ t = Week * (t \div Week) + (t % Week)
<1>1. t % Week \in 0..(Week - 1)
  BY CoverageAssumption
<1>2. t = Week * (t \div Week) + (t % Week) /\ t \div Week \in Int
  BY CoverageAssumption
<1> QED
  BY <1>1, <1>2

LEMMA AtLeastAWeek ==
    ASSUME NEW q \in Int, NEW r \in Int, NEW w \in Nat, q >= r + 1
    PROVE  w * q >= w * r + w
  OBVIOUS

\* The floor moves with the clock, never back.
LEMMA FloorMonotone ==
    ASSUME NEW t \in Nat, NEW u \in Nat, t <= u
    PROVE  Floor(t) \in 0..t /\ Floor(t) <= Floor(u)
<1> DEFINE q == t \div Week
           r == u \div Week
           x == t % Week
           y == u % Week
<1>1. /\ t = Week * q + x /\ u = Week * r + y
      /\ x \in 0..(Week - 1) /\ y \in 0..(Week - 1) /\ q \in Int /\ r \in Int
  BY WeekRemainder
<1> HIDE DEF q, r, x, y
<1>2. t - x <= u - y
  <2>1. CASE q <= r
    <3>1. Week * q <= Week * r
      BY <1>1, <2>1, CoverageAssumption
    <3> QED
      BY <1>1, <3>1, CoverageAssumption
  <2>2. CASE q > r
    <3>1. Week * q >= Week * r + Week
      BY <1>1, <2>2, CoverageAssumption, AtLeastAWeek
    <3>2. Week * q \in Int /\ Week * r \in Int
      BY <1>1, CoverageAssumption
    <3> QED
      BY <1>1, <3>1, <3>2, CoverageAssumption
  <2> QED
    BY <1>1, <2>1, <2>2
<1> QED
  BY <1>1, <1>2, CoverageAssumption DEF Floor, x, y
-----------------------------------------------------------------------------
(* The inductive invariant.                                                 *)

Cursors == [from : Int, through : Int]
Passes == [pc : {"idle", "reconcile", "checkpoints", "observations"}, cutoff : Instants,
           budget : Nat, announced : Instants \union {None}]

\* The plan of a cycle is sorted, and what a sort returns is not proved: the
\* plan, and what is read for the vehicle it names, may be anything here, and
\* what is said of them below is said of vehicles.
Locals(any) ==
    [pc : {"idle", "work", "read", "persist"}, safe : Instants,
     plan : any, cursor : any, from : any, to : any]

Types ==
    /\ clock \in Instants /\ active \in BOOLEAN
    /\ cursor \in [Vehicles -> Cursors]
    /\ stored \in [Vehicles -> SUBSET Instants]
    /\ backfill \in [Backfills -> Int]
    /\ lock \in Processes \union {Retention, Nobody}
    /\ pass \in Passes /\ shown \in Instants \union {None}

\* No cursor and no checkpoint is ahead of the clock.
Timely ==
    /\ \A v \in Vehicles : cursor[v] = NoCursor \/
         (0 <= cursor[v].from /\ cursor[v].from <= cursor[v].through /\ cursor[v].through <= clock)
    /\ \A k \in Backfills : backfill[k] = Absent \/
         (k[2] <= backfill[k] /\ backfill[k] <= k[3] /\ k[3] <= clock)

\* A pass works with the floor it began with, and after it has reconciled no
\* cursor claims anything before that.
PassKeeps ==
    pass.pc # "idle" =>
        /\ pass.cutoff <= Floor(clock) /\ pass.announced \in {None, pass.cutoff}
        /\ pass.pc # "reconcile" =>
             \A v \in Vehicles : cursor[v] = NoCursor \/ cursor[v].from >= pass.cutoff

Data == Types /\ Timely /\ PassKeeps /\ CoverageIsTrue /\ SurvivorsAreWhole

\* A request begins within what its cursor claimed, and a backlog request ends
\* beyond it.
Reading(p) ==
    LET w == worker[p] IN
    w.pc \in {"read", "persist"} /\ Vehicle(p) \in Vehicles =>
        /\ w.from \in Instants
        /\ w.pc = "persist" => w.to \in Instants /\ w.to <= w.safe
        /\ Lane(p) # "RECENT_TAIL" =>
             /\ w.cursor \in Cursors /\ 0 <= w.cursor.from /\ w.cursor.through < w.safe
             /\ w.cursor.from <= w.from /\ w.from <= w.cursor.through
             /\ w.pc = "persist" => w.to > w.cursor.through

WorkersTyped == \E any : worker \in [Processes -> Locals(any)]

WorkersKeep == WorkersTyped /\ \A p \in Processes : worker[p].safe <= clock /\ Reading(p)

FencesNest ==
    /\ fences = [p \in Processes |-> fences[p]] /\ fresh = [p \in Processes |-> fresh[p]]
    /\ \A p \in Processes : fresh[p] \subseteq fences[p]

IInv == Data /\ WorkersKeep /\ FencesNest

LEMMA InvSuffices == IInv => TypeOK
<1> SUFFICES ASSUME IInv PROVE TypeOK
  OBVIOUS
<1> USE DEF IInv, Data
<1>1. \A v \in Vehicles : cursor[v] = NoCursor \/
        (cursor[v].from \in Instants /\ cursor[v].through \in cursor[v].from..clock)
  BY CoverageAssumption DEF Types, Timely, Cursors, Instants
<1>2. \A k \in Backfills : backfill[k] = Absent \/ backfill[k] \in k[2]..k[3]
  BY CoverageAssumption DEF Types, Timely
<1>3. \A p \in Processes : worker[p].safe \in Instants /\ fresh[p] \subseteq fences[p]
  BY DEF WorkersKeep, WorkersTyped, FencesNest, Locals
<1>4. pass.cutoff \in Instants
  BY DEF Types, Passes
<1> QED
  BY <1>1, <1>2, <1>3, <1>4 DEF Types, TypeOK

LEMMA InitInv == Init => IInv
<1> SUFFICES ASSUME Init PROVE IInv
  OBVIOUS
<1>0. 0 \in Instants /\ NoCursor \in Cursors /\ NoPass \in Passes
      /\ Idle \in Locals({<<>>, NoCursor, 0})
  BY CoverageAssumption DEF Instants, NoCursor, Cursors, NoPass, Passes, Idle, Locals, None
<1>1. Types
  <2>1. cursor \in [Vehicles -> Cursors] /\ stored \in [Vehicles -> SUBSET Instants]
        /\ backfill \in [Backfills -> Int]
    BY <1>0 DEF Init, Absent, None
  <2> QED
    BY <1>0, <2>1 DEF Init, Types
<1>2. Timely /\ PassKeeps
  BY <1>0 DEF Init, Timely, PassKeeps, NoPass
<1>3. CoverageIsTrue /\ SurvivorsAreWhole
  BY CoverageAssumption DEF Init, CoverageIsTrue, SurvivorsAreWhole, NoCursor, Absent, None
<1>4. WorkersTyped
  BY <1>0 DEF Init, WorkersTyped
<1>5. \A p \in Processes : worker[p].safe <= clock /\ Reading(p)
  BY DEF Init, Reading, Idle
<1>6. FencesNest
  BY DEF Init, FencesNest
<1> QED
  BY <1>1, <1>2, <1>3, <1>4, <1>5, <1>6 DEF IInv, Data, WorkersKeep
-----------------------------------------------------------------------------
(* The workers.                                                             *)

\* Workers keep their types when one of them has new locals.
LEMMA LocalsGrow ==
    ASSUME WorkersTyped, NEW p \in Processes, NEW any, NEW w \in Locals(any),
           worker' = [worker EXCEPT ![p] = w]
    PROVE  WorkersTyped'
<1>1. PICK all : worker \in [Processes -> Locals(all)]
  BY DEF WorkersTyped
<1>2. Locals(all) \subseteq Locals(all \union any) /\ Locals(any) \subseteq Locals(all \union any)
  BY DEF Locals
<1>3. worker' \in [Processes -> Locals(all \union any)]
  BY <1>1, <1>2
<1> QED
  BY <1>3 DEF WorkersTyped

\* The locals of one worker, with what they hold as their own set.
LEMMA OwnLocals ==
    ASSUME WorkersTyped, NEW p \in Processes
    PROVE  \E any : worker[p] \in Locals(any)
  BY DEF WorkersTyped

\* Who reads nothing answers for nothing.
LEMMA QuietWorkers ==
    ASSUME IInv, WorkersTyped', NEW p \in Processes, clock' = clock,
           worker'[p].pc \in {"idle", "work"}, worker'[p].safe <= clock,
           \A q \in Processes : q # p => worker'[q] = worker[q]
    PROVE  WorkersKeep'
<1>1. ASSUME NEW q \in Processes, worker'[q] = worker[q] PROVE worker'[q].safe <= clock' /\ Reading(q)'
  BY <1>1 DEF IInv, WorkersKeep, Reading, Vehicle, Lane
<1>2. Reading(p)'
  BY DEF Reading
<1> QED
  BY <1>1, <1>2 DEF WorkersKeep

LEMMA SteadyWorkers ==
    ASSUME IInv, worker' = worker, clock' \in Instants, clock <= clock'
    PROVE  WorkersKeep'
<1>1. \A q \in Processes : worker[q].safe \in Int /\ clock \in Int
  BY DEF IInv, WorkersKeep, WorkersTyped, Locals, Data, Types, Instants
<1>2. \A q \in Processes : worker'[q].safe <= clock'
  BY <1>1, CoverageAssumption DEF IInv, WorkersKeep, Instants
<1> QED
  BY <1>2 DEF IInv, WorkersKeep, WorkersTyped, Reading, Vehicle, Lane

LEMMA FinishedWorkers ==
    ASSUME IInv, NEW p \in Processes, Finished(p), clock' = clock
    PROVE  WorkersKeep'
<1>1. PICK any : worker[p] \in Locals(any)
  BY OwnLocals DEF IInv, WorkersKeep
<1> DEFINE all == any \union {<<>>, NoCursor, 0, Tail(worker[p].plan)}
           next == [Idle EXCEPT !.pc = "work", !.safe = worker[p].safe, !.plan = Tail(worker[p].plan)]
<1>2. worker[p].safe \in Instants /\ 0 \in Instants /\ worker[p].safe <= clock /\ 0 <= clock
  BY <1>1, CoverageAssumption DEF Locals, Instants, IInv, WorkersKeep, Data, Types
<1>3. Idle \in Locals(all) /\ next \in Locals(all)
  BY <1>2 DEF Idle, Locals
<1>4. worker'[p] \in {Idle, next} /\ worker' = [worker EXCEPT ![p] = worker'[p]]
  <2>1. PICK some : worker \in [Processes -> Locals(some)]
    BY DEF IInv, WorkersKeep, WorkersTyped
  <2>2. worker' = [worker EXCEPT ![p] = IF Len(worker[p].plan) = 1 THEN Idle ELSE next]
    BY DEF Finished
  <2> HIDE DEF next
  <2> QED
    BY <2>1, <2>2
<1>5. WorkersTyped'
  BY <1>3, <1>4, LocalsGrow DEF IInv, WorkersKeep
<1>6. worker'[p].pc \in {"idle", "work"} /\ worker'[p].safe <= clock
  <2>1. /\ Idle.pc = "idle" /\ Idle.safe = 0
        /\ next.pc = "work" /\ next.safe = worker[p].safe
    BY DEF Idle
  <2> HIDE DEF next
  <2> QED
    BY <1>2, <1>4, <2>1
<1>7. \A q \in Processes : q # p => worker'[q] = worker[q]
  BY <1>4 DEF IInv, WorkersKeep, WorkersTyped
<1> QED
  BY <1>5, <1>6, <1>7, QuietWorkers

\* One worker has new locals that keep what they must.
LEMMA MovedWorkers ==
    ASSUME IInv, NEW p \in Processes, NEW any, NEW w \in Locals(any), clock' = clock,
           worker' = [worker EXCEPT ![p] = w], w.safe <= clock, Reading(p)'
    PROVE  WorkersKeep'
<1>1. WorkersTyped'
  BY LocalsGrow DEF IInv, WorkersKeep
<1>2. worker'[p] = w /\ \A q \in Processes : q # p => worker'[q] = worker[q]
  BY DEF IInv, WorkersKeep, WorkersTyped
<1>3. ASSUME NEW q \in Processes, worker'[q] = worker[q] PROVE worker'[q].safe <= clock' /\ Reading(q)'
  BY <1>3 DEF IInv, WorkersKeep, Reading, Vehicle, Lane
<1> QED
  BY <1>1, <1>2, <1>3 DEF WorkersKeep

LEMMA StartCycleWorkers ==
    ASSUME IInv, NEW p \in Processes, NEW prefer, StartCycle(p, prefer)
    PROVE  WorkersKeep'
<1>1. PICK plan : worker' = [worker EXCEPT ![p] =
             IF plan = <<>> THEN Idle ELSE [Idle EXCEPT !.pc = "work", !.safe = clock, !.plan = plan]]
  BY DEF StartCycle
<1> DEFINE next == [Idle EXCEPT !.pc = "work", !.safe = clock, !.plan = plan]
           w == IF plan = <<>> THEN Idle ELSE next
<1>2. 0 \in Instants /\ clock \in Instants /\ 0 <= clock
  BY CoverageAssumption DEF IInv, Data, Types, Instants
<1>3. /\ Idle.pc = "idle" /\ Idle.safe = 0 /\ next.pc = "work" /\ next.safe = clock
      /\ Idle \in Locals({<<>>, NoCursor, 0, plan}) /\ next \in Locals({<<>>, NoCursor, 0, plan})
  BY <1>2 DEF Idle, Locals
<1> HIDE DEF next
<1>4. /\ w \in Locals({<<>>, NoCursor, 0, plan}) /\ w.safe <= clock /\ w.pc \in {"idle", "work"}
      /\ worker' = [worker EXCEPT ![p] = w]
  BY <1>1, <1>2, <1>3, CoverageAssumption DEF next, Instants
<1> HIDE DEF w
<1>5. Reading(p)'
  BY <1>4 DEF Reading, IInv, WorkersKeep, WorkersTyped
<1> QED
  BY <1>4, <1>5, MovedWorkers DEF StartCycle

\* What is asked for begins within what the cursor claims.
LEMMA FetchBegins ==
    ASSUME IInv, NEW p \in Processes, Vehicle(p) \in Vehicles, NEW c, c = cursor[Vehicle(p)],
           ~Pointless(p, c)
    PROVE  /\ FetchFrom(p, c) \in Instants
           /\ Lane(p) # "RECENT_TAIL" =>
                /\ c \in Cursors /\ 0 <= c.from /\ c.through < worker[p].safe
                /\ c.from <= FetchFrom(p, c) /\ FetchFrom(p, c) <= c.through
<1>1. c \in Cursors /\ c.from \in Int /\ c.through \in Int
  BY DEF IInv, Data, Types, Cursors
<1>2. c = NoCursor \/ (0 <= c.from /\ c.from <= c.through /\ c.through <= clock)
  BY DEF IInv, Data, Timely
<1>3. clock \in Instants /\ clock \in Nat /\ Floor(clock) \in Int /\ 0 <= Floor(clock) /\ Floor(clock) <= clock
  BY FloorMonotone, CoverageAssumption DEF IInv, Data, Types, Instants
<1>4. PICK any : worker[p] \in Locals(any)
  BY OwnLocals DEF IInv, WorkersKeep
<1>5. worker[p].safe \in Int /\ 0 <= worker[p].safe /\ worker[p].safe <= clock /\ clock <= MaxTime
  BY <1>3, <1>4, CoverageAssumption DEF Locals, Instants, IInv, WorkersKeep
<1>6. NoCursor.from = -1 /\ NoCursor.through = -1
  BY DEF NoCursor, None
<1>7. CASE Lane(p) = "RECENT_TAIL"
  <2>1. FetchFrom(p, c) < worker[p].safe /\ FetchFrom(p, c) \in Int /\ 0 <= FetchFrom(p, c)
    BY <1>1, <1>3, <1>5, <1>7, CoverageAssumption DEF Pointless, FetchFrom, Larger
  <2>2. MaxTime \in Int /\ FetchFrom(p, c) <= MaxTime
    BY <1>3, <1>5, <2>1, CoverageAssumption
  <2>3. FetchFrom(p, c) \in Instants
    BY <2>1, <2>2 DEF Instants
  <2> QED
    BY <1>7, <2>3
<1>8. CASE Lane(p) # "RECENT_TAIL"
  <2>1. c.from >= Floor(clock) /\ c.through < worker[p].safe
    BY <1>1, <1>3, <1>5, <1>8 DEF Pointless
  <2>2. c # NoCursor /\ 0 <= c.from /\ c.from <= c.through
    BY <1>1, <1>2, <1>3, <1>6, <2>1
  <2>3. FetchFrom(p, c) \in Int /\ c.from <= FetchFrom(p, c) /\ FetchFrom(p, c) <= c.through
    BY <1>1, <1>8, <2>2, CoverageAssumption DEF FetchFrom, Larger
  <2>4. MaxTime \in Int /\ FetchFrom(p, c) <= MaxTime /\ 0 <= FetchFrom(p, c)
    BY <1>1, <1>3, <1>5, <2>1, <2>2, <2>3, CoverageAssumption
  <2>5. FetchFrom(p, c) \in Instants
    BY <2>3, <2>4 DEF Instants
  <2> QED
    BY <1>1, <1>8, <2>1, <2>2, <2>3, <2>5
<1> QED
  BY <1>7, <1>8

LEMMA InspectWorkers ==
    ASSUME IInv, NEW p \in Processes, Inspect(p)
    PROVE  WorkersKeep'
<1> DEFINE c == cursor[Vehicle(p)]
           w == [worker[p] EXCEPT !.pc = "read", !.cursor = c, !.from = FetchFrom(p, c)]
<1>1. clock' = clock
  BY DEF Inspect
<1>2. CASE Finished(p)
  BY <1>1, <1>2, FinishedWorkers
<1>3. CASE /\ ~Pointless(p, c)
           /\ worker' = [worker EXCEPT ![p].pc = "read", ![p].cursor = c, ![p].from = FetchFrom(p, c)]
  <2>1. PICK all : worker \in [Processes -> Locals(all)]
    BY DEF IInv, WorkersKeep, WorkersTyped
  <2> DEFINE more == all \union {c, FetchFrom(p, c)}
  <2>2. w \in Locals(more) /\ worker' = [worker EXCEPT ![p] = w]
    <3>1. worker[p] \in Locals(all)
      BY <2>1
    <3>2. w \in Locals(more)
      BY <3>1 DEF Locals
    <3>3. worker' = [worker EXCEPT ![p] = w]
      BY <1>3, <2>1
    <3> QED
      BY <3>2, <3>3
  <2>3. /\ w.pc = "read" /\ w.safe = worker[p].safe /\ w.cursor = c /\ w.from = FetchFrom(p, c)
        /\ w.plan = worker[p].plan
    BY <2>1 DEF Locals
  <2> HIDE DEF w
  <2>4. worker'[p] = w /\ Vehicle(p)' = Vehicle(p) /\ Lane(p)' = Lane(p)
    BY <2>1, <2>2, <2>3 DEF Vehicle, Lane
  <2>5. Reading(p)'
    <3>1. CASE Vehicle(p) \in Vehicles
      BY <1>3, <2>3, <2>4, <3>1, FetchBegins DEF Reading
    <3>2. CASE Vehicle(p) \notin Vehicles
      BY <2>4, <3>2 DEF Reading
    <3> QED
      BY <3>1, <3>2
  <2>6. w.safe <= clock
    BY <2>3 DEF IInv, WorkersKeep
  <2> HIDE DEF more
  <2> QED
    BY <1>1, <2>2, <2>5, <2>6, MovedWorkers
<1> QED
  BY <1>2, <1>3 DEF Inspect

LEMMA ReadWorkers ==
    ASSUME IInv, NEW p \in Processes, Read(p)
    PROVE  WorkersKeep'
<1>1. PICK to \in Ends(p) : worker' = [worker EXCEPT ![p].pc = "persist", ![p].to = to]
  BY DEF Read
<1>2. PICK all : worker \in [Processes -> Locals(all)]
  BY DEF IInv, WorkersKeep, WorkersTyped
<1> DEFINE w == [worker[p] EXCEPT !.pc = "persist", !.to = to]
           more == all \union {to}
<1>3. worker[p] \in Locals(all)
  BY <1>2
<1>4. w \in Locals(more) /\ worker' = [worker EXCEPT ![p] = w]
  <2>1. w \in Locals(more)
    BY <1>3 DEF Locals
  <2>2. worker' = [worker EXCEPT ![p] = w]
    BY <1>1, <1>2
  <2> QED
    BY <2>1, <2>2
<1>5. /\ w.pc = "persist" /\ w.safe = worker[p].safe /\ w.cursor = worker[p].cursor
      /\ w.from = worker[p].from /\ w.to = to /\ w.plan = worker[p].plan
  BY <1>3 DEF Locals
<1> HIDE DEF w, more
<1>6. worker'[p] = w /\ Vehicle(p)' = Vehicle(p) /\ Lane(p)' = Lane(p) /\ worker[p].pc = "read"
  BY <1>2, <1>4, <1>5 DEF Vehicle, Lane, Read
<1>7. worker[p].safe \in Instants /\ worker[p].safe <= clock
  BY <1>3 DEF Locals, IInv, WorkersKeep
<1>8. Reading(p)'
  <2>1. SUFFICES ASSUME Vehicle(p) \in Vehicles
                 PROVE  /\ to \in Instants /\ to <= worker[p].safe
                        /\ Lane(p) # "RECENT_TAIL" => to > worker[p].cursor.through
    <3>1. Reading(p)
      BY DEF IInv, WorkersKeep
    <3>2. CASE Vehicle(p) \in Vehicles
      <4>1. /\ w.from \in Instants
            /\ Lane(p) # "RECENT_TAIL" =>
                 /\ w.cursor \in Cursors /\ 0 <= w.cursor.from /\ w.cursor.through < w.safe
                 /\ w.cursor.from <= w.from /\ w.from <= w.cursor.through
        BY <1>5, <1>6, <3>1, <3>2 DEF Reading
      <4>2. /\ to \in Instants /\ to <= worker[p].safe
            /\ Lane(p) # "RECENT_TAIL" => to > worker[p].cursor.through
        BY <3>2
      <4>3. w.to \in Instants /\ w.to <= w.safe /\ (Lane(p) # "RECENT_TAIL" => w.to > w.cursor.through)
        BY <1>5, <4>2
      <4> QED
        BY <1>6, <4>1, <4>3 DEF Reading
    <3>3. CASE Vehicle(p) \notin Vehicles
      BY <1>6, <3>3 DEF Reading
    <3> QED
      BY <3>2, <3>3
  <2>2. CASE Lane(p) = "RECENT_TAIL"
    BY <1>1, <1>7, <2>2 DEF Ends, Instants
  <2>3. CASE Lane(p) # "RECENT_TAIL"
    <3>1. PICK i \in DOMAIN Fetches :
            to = Smaller(worker[p].cursor.through + Fetches[i] - Overlap, worker[p].safe)
      BY <1>1, <2>3 DEF Ends, BacklogEnds
    <3>2. worker[p].cursor.through \in Int /\ 0 <= worker[p].cursor.through
          /\ worker[p].cursor.through < worker[p].safe
      <4>1. Reading(p)
        BY DEF IInv, WorkersKeep
      <4>2. /\ worker[p].cursor \in Cursors /\ worker[p].cursor.through < worker[p].safe
            /\ 0 <= worker[p].cursor.from /\ worker[p].from \in Instants
            /\ worker[p].cursor.from <= worker[p].from /\ worker[p].from <= worker[p].cursor.through
        BY <1>6, <2>1, <2>3, <4>1 DEF Reading
      <4> QED
        BY <4>2 DEF Cursors, Instants
    <3>3. Fetches[i] \in Nat /\ Fetches[i] > Overlap /\ Overlap \in Nat
      BY CoverageAssumption
    <3> QED
      BY <1>7, <3>1, <3>2, <3>3, CoverageAssumption DEF Smaller, Instants
  <2> QED
    BY <2>2, <2>3
<1> QED
  BY <1>4, <1>5, <1>7, <1>8, MovedWorkers DEF Read

LEMMA CrashWorkers ==
    ASSUME IInv, NEW p \in Processes, Crash(p)
    PROVE  WorkersKeep'
<1>1. /\ Idle.pc = "idle" /\ Idle.safe = 0 /\ Idle.safe <= clock
      /\ Idle \in Locals({<<>>, NoCursor, 0})
  BY CoverageAssumption DEF Idle, Locals, Instants, IInv, Data, Types
<1>2. Reading(p)'
  BY <1>1 DEF Crash, Reading, IInv, WorkersKeep, WorkersTyped
<1> QED
  BY <1>1, <1>2, MovedWorkers DEF Crash, Fault
-----------------------------------------------------------------------------
(* The rows.                                                                *)

\* What the other steps use of the rows.
LEMMA Facts ==
    ASSUME IInv
    PROVE  /\ clock \in Nat /\ clock \in Instants /\ MaxTime \in Nat /\ clock <= MaxTime
           /\ Floor(clock) \in Nat /\ Floor(clock) <= clock /\ Floor(clock) \in Instants
           /\ NoCursor.from = -1 /\ NoCursor.through = -1 /\ NoCursor \in Cursors
           /\ \A v \in Vehicles : cursor[v] \in Cursors /\ cursor[v].from \in Int /\ cursor[v].through \in Int
           /\ pass.cutoff \in Instants /\ pass.cutoff \in Nat
<1>1. clock \in Nat /\ clock \in Instants /\ MaxTime \in Nat /\ clock <= MaxTime
  BY CoverageAssumption DEF IInv, Data, Types, Instants
<1>2. Floor(clock) \in Nat /\ Floor(clock) <= clock
  BY <1>1, FloorMonotone
<1>3. Floor(clock) \in Instants
  BY <1>1, <1>2 DEF Instants
<1>4. NoCursor.from = -1 /\ NoCursor.through = -1 /\ NoCursor \in Cursors
  BY DEF NoCursor, None, Cursors
<1>5. \A v \in Vehicles : cursor[v] \in Cursors /\ cursor[v].from \in Int /\ cursor[v].through \in Int
  BY DEF IInv, Data, Types, Cursors
<1>6. pass.cutoff \in Instants /\ pass.cutoff \in Nat
  BY <1>1 DEF IInv, Data, Types, Passes, Instants
<1> QED
  BY <1>1, <1>2, <1>3, <1>4, <1>5, <1>6

\* Steps that leave the rows alone, whatever becomes of the pass's lock.
LEMMA QuietData ==
    ASSUME IInv, clock' = clock, cursor' = cursor, stored' = stored, backfill' = backfill,
           active' \in BOOLEAN, lock' \in Processes \union {Retention, Nobody},
           pass' \in {pass, NoPass}, shown' \in Instants \union {None}
    PROVE  Data'
<1>1. NoPass \in Passes /\ NoPass.pc = "idle"
  BY CoverageAssumption DEF NoPass, Passes, Instants, None
<1>2. Types'
  BY <1>1 DEF IInv, Data, Types
<1>3. Timely' /\ CoverageIsTrue' /\ SurvivorsAreWhole'
  BY DEF IInv, Data, Timely, CoverageIsTrue, SurvivorsAreWhole
<1>4. PassKeeps'
  BY <1>1 DEF IInv, Data, PassKeeps
<1> QED
  BY <1>2, <1>3, <1>4 DEF Data

\* Positions are added, and nothing else changes.
LEMMA StoreGrows ==
    ASSUME IInv, NEW u \in Vehicles, NEW S \in SUBSET Instants,
           stored' = [stored EXCEPT ![u] = @ \union S],
           clock' = clock, cursor' = cursor, backfill' = backfill, active' = active,
           lock' \in Processes \union {Retention, Nobody}, pass' = pass, shown' = shown
    PROVE  Data'
<1>1. stored' \in [Vehicles -> SUBSET Instants] /\ \A v \in Vehicles : stored[v] \subseteq stored'[v]
  BY DEF IInv, Data, Types
<1>2. Types' /\ Timely' /\ PassKeeps'
  BY <1>1 DEF IInv, Data, Types, Timely, PassKeeps
<1>3. CoverageIsTrue'
  BY <1>1 DEF IInv, Data, CoverageIsTrue
<1>4. SurvivorsAreWhole'
  BY <1>1, CoverageAssumption DEF IInv, Data, SurvivorsAreWhole
<1> QED
  BY <1>2, <1>3, <1>4 DEF Data

LEMMA TickData ==
    ASSUME IInv, Tick
    PROVE  Data' /\ clock' \in Instants /\ clock <= clock'
<1>1. /\ clock' \in Nat /\ clock' \in Instants /\ clock <= clock'
  BY Facts DEF Tick, Instants
<1>2. Floor(clock) \in Nat /\ Floor(clock') \in Nat /\ Floor(clock) <= Floor(clock')
  BY <1>1, Facts, FloorMonotone
<1>3. Types'
  BY <1>1 DEF Tick, IInv, Data, Types
<1>4. Timely'
  <2>1. \A v \in Vehicles : cursor[v] = NoCursor \/
         (0 <= cursor[v].from /\ cursor[v].from <= cursor[v].through /\ cursor[v].through <= clock')
    BY <1>1, Facts DEF IInv, Data, Timely
  <2>2. \A k \in Backfills : backfill[k] = Absent \/
         (k[2] <= backfill[k] /\ backfill[k] <= k[3] /\ k[3] <= clock')
    BY <1>1, Facts, CoverageAssumption DEF IInv, Data, Timely
  <2> QED
    BY <2>1, <2>2 DEF Tick, Timely
<1>5. PassKeeps'
  BY <1>2, Facts DEF Tick, IInv, Data, PassKeeps
<1>6. CoverageIsTrue'
  BY DEF Tick, IInv, Data, CoverageIsTrue
<1>7. SurvivorsAreWhole'
  BY <1>2, CoverageAssumption DEF Tick, IInv, Data, SurvivorsAreWhole
<1> QED
  BY <1>1, <1>3, <1>4, <1>5, <1>6, <1>7 DEF Data

LEMMA StartCycleData ==
    ASSUME IInv, NEW p \in Processes, NEW prefer, StartCycle(p, prefer)
    PROVE  Data'
<1> DEFINE new == [from |-> Floor(clock), through |-> Floor(clock)]
<1>1. new \in Cursors /\ new.from = Floor(clock) /\ new.through = Floor(clock)
  BY Facts DEF Cursors
<1>2. \A v \in Vehicles : cursor'[v] = IF cursor[v] = NoCursor THEN new ELSE cursor[v]
  BY DEF StartCycle, Ensured
<1>3. cursor' \in [Vehicles -> Cursors]
  BY <1>1, <1>2, Facts DEF StartCycle, Ensured
<1> HIDE DEF new
<1>4. Types'
  BY <1>3 DEF StartCycle, IInv, Data, Types
<1>5. Timely'
  BY <1>1, <1>2, Facts DEF StartCycle, IInv, Data, Timely
<1>6. PassKeeps'
  BY <1>1, <1>2, Facts DEF StartCycle, IInv, Data, PassKeeps
<1>7. CoverageIsTrue'
  BY <1>1, <1>2, Facts DEF StartCycle, IInv, Data, CoverageIsTrue
<1>8. SurvivorsAreWhole'
  BY DEF StartCycle, IInv, Data, SurvivorsAreWhole
<1> QED
  BY <1>4, <1>5, <1>6, <1>7, <1>8 DEF Data

LEMMA BeginData ==
    ASSUME IInv, NEW announced, announced \in {None} \union Instants, Begin(announced)
    PROVE  Data'
<1> DEFINE q == [pc |-> "reconcile", cutoff |-> Floor(clock), budget |-> CheckpointBudget,
                announced |-> announced]
<1>1. /\ q \in Passes /\ q.pc = "reconcile" /\ q.cutoff = Floor(clock)
      /\ q.announced \in {None, Floor(clock)} /\ pass' = q
  BY Facts, CoverageAssumption DEF Begin, Passes
<1> HIDE DEF q
<1>2. Types'
  BY <1>1 DEF Begin, IInv, Data, Types
<1>3. PassKeeps'
  BY <1>1, Facts DEF Begin, PassKeeps
<1>4. Timely' /\ CoverageIsTrue' /\ SurvivorsAreWhole'
  BY DEF Begin, IInv, Data, Timely, CoverageIsTrue, SurvivorsAreWhole
<1> QED
  BY <1>2, <1>3, <1>4 DEF Data

\* What reconciliation makes of a cursor.
LEMMA RaisedCursor ==
    ASSUME IInv, pass.pc # "idle", NEW v \in Vehicles, NEW c, c = cursor[v], NEW d, d = Raised(c)
    PROVE  /\ d \in Cursors /\ (d = NoCursor <=> c = NoCursor)
           /\ d # NoCursor => /\ d.from >= pass.cutoff /\ d.from >= c.from /\ d.through >= c.through
                              /\ 0 <= d.from /\ d.from <= d.through /\ d.through <= clock
                              /\ d.through > d.from => d.through = c.through
<1>1. c \in Cursors /\ c.from \in Int /\ c.through \in Int
  BY Facts
<1>2. c = NoCursor \/ (0 <= c.from /\ c.from <= c.through /\ c.through <= clock)
  BY DEF IInv, Data, Timely
<1>3. pass.cutoff \in Nat /\ pass.cutoff <= clock /\ clock \in Nat
  BY Facts DEF IInv, Data, PassKeeps
<1>4. CASE c # NoCursor /\ c.from < pass.cutoff
  <2>1. d = [from |-> pass.cutoff, through |-> Larger(c.through, pass.cutoff)]
    BY <1>4 DEF Raised
  <2>2. d.from = pass.cutoff /\ d.through = Larger(c.through, pass.cutoff)
    BY <2>1
  <2>3. /\ Larger(c.through, pass.cutoff) \in Int /\ Larger(c.through, pass.cutoff) >= pass.cutoff
        /\ Larger(c.through, pass.cutoff) >= c.through /\ Larger(c.through, pass.cutoff) <= clock
        /\ Larger(c.through, pass.cutoff) > pass.cutoff => Larger(c.through, pass.cutoff) = c.through
    BY <1>1, <1>2, <1>3, <1>4 DEF Larger
  <2>4. d \in Cursors
    BY <1>3, <2>1, <2>3 DEF Cursors
  <2>5. d # NoCursor
    BY <1>3, <2>2, Facts
  <2> QED
    BY <1>1, <1>3, <1>4, <2>2, <2>3, <2>4, <2>5
<1>5. CASE ~(c # NoCursor /\ c.from < pass.cutoff)
  BY <1>1, <1>2, <1>3, <1>5 DEF Raised
<1> QED
  BY <1>4, <1>5

LEMMA ReconcileData ==
    ASSUME IInv, Reconcile
    PROVE  Data'
<1>0. pass.pc = "reconcile" /\ pass.pc # "idle"
  BY DEF Reconcile
<1>1. ASSUME NEW v \in Vehicles
      PROVE  /\ cursor'[v] = Raised(cursor[v]) /\ cursor'[v] \in Cursors
             /\ cursor'[v] = NoCursor <=> cursor[v] = NoCursor
             /\ cursor'[v] # NoCursor =>
                  /\ cursor'[v].from >= pass.cutoff /\ cursor'[v].from >= cursor[v].from
                  /\ 0 <= cursor'[v].from /\ cursor'[v].from <= cursor'[v].through
                  /\ cursor'[v].through <= clock
                  /\ cursor'[v].through > cursor'[v].from => cursor'[v].through = cursor[v].through
  <2>1. cursor'[v] = Raised(cursor[v])
    BY DEF Reconcile
  <2> QED
    BY <1>0, <2>1, RaisedCursor
<1>2. /\ pass' \in Passes /\ pass'.pc = "checkpoints" /\ pass'.cutoff = pass.cutoff
      /\ pass'.announced = pass.announced
  BY DEF Reconcile, IInv, Data, Types, Passes
<1>3. Types'
  <2>1. cursor' \in [Vehicles -> Cursors]
    BY <1>1 DEF Reconcile
  <2> QED
    BY <1>2, <2>1 DEF Reconcile, IInv, Data, Types
<1>4. Timely'
  BY <1>1 DEF Reconcile, IInv, Data, Timely
<1>5. PassKeeps'
  BY <1>0, <1>1, <1>2 DEF Reconcile, IInv, Data, PassKeeps
<1>6. CoverageIsTrue'
  <2>1. SUFFICES ASSUME NEW v \in Vehicles, cursor'[v].through > cursor'[v].from
                 PROVE  cursor'[v].from..cursor'[v].through \subseteq stored[v]
    BY DEF Reconcile, CoverageIsTrue
  <2>2. cursor'[v] # NoCursor
    BY <2>1, Facts
  <2>3. cursor'[v].through = cursor[v].through /\ cursor'[v].from >= cursor[v].from
        /\ cursor'[v].from \in Int
    BY <1>1, <2>1, <2>2 DEF Cursors
  <2>4. cursor[v].from..cursor[v].through \subseteq stored[v]
    BY <2>1, <2>3, Facts DEF IInv, Data, CoverageIsTrue
  <2> QED
    BY <2>3, <2>4, Facts
<1>7. SurvivorsAreWhole'
  BY DEF Reconcile, IInv, Data, SurvivorsAreWhole
<1> QED
  BY <1>3, <1>4, <1>5, <1>6, <1>7 DEF Data

LEMMA DeleteCheckpointData ==
    ASSUME IInv, DeleteCheckpoint
    PROVE  Data'
<1>1. PICK k \in Obsolete(pass.cutoff) : backfill' = [backfill EXCEPT ![k] = Absent]
  BY DEF DeleteCheckpoint
<1>2. k \in Backfills /\ Absent = -1
  BY <1>1 DEF Obsolete, Absent, None
<1>3. backfill' \in [Backfills -> Int] /\ \A j \in Backfills : backfill'[j] \in {backfill[j], Absent}
  BY <1>1, <1>2 DEF IInv, Data, Types
<1>4. /\ pass' \in Passes /\ pass'.pc = "checkpoints" /\ pass'.cutoff = pass.cutoff
      /\ pass'.announced = pass.announced
  BY DEF DeleteCheckpoint, IInv, Data, Types, Passes
<1>5. Types'
  BY <1>3, <1>4 DEF DeleteCheckpoint, IInv, Data, Types
<1>6. Timely'
  BY <1>3 DEF DeleteCheckpoint, IInv, Data, Timely
<1>7. PassKeeps'
  BY <1>4 DEF DeleteCheckpoint, IInv, Data, PassKeeps
<1>8. CoverageIsTrue'
  BY DEF DeleteCheckpoint, IInv, Data, CoverageIsTrue
<1>9. SurvivorsAreWhole'
  <2>1. SUFFICES ASSUME NEW j \in Backfills, backfill'[j] > j[2] /\ j[3] >= Floor(clock)
                 PROVE  j[2]..backfill'[j] \subseteq stored[j[1]]
    BY DEF DeleteCheckpoint, SurvivorsAreWhole
  <2>2. backfill'[j] = backfill[j]
    BY <1>2, <1>3, <2>1, CoverageAssumption
  <2> QED
    BY <2>1, <2>2 DEF IInv, Data, SurvivorsAreWhole
<1> QED
  BY <1>5, <1>6, <1>7, <1>8, <1>9 DEF Data

LEMMA CheckpointsDoneData ==
    ASSUME IInv, CheckpointsDone
    PROVE  Data'
<1>1. /\ pass' \in Passes /\ pass'.pc = "observations" /\ pass'.cutoff = pass.cutoff
      /\ pass'.announced = pass.announced /\ pass.pc = "checkpoints"
  BY CoverageAssumption DEF CheckpointsDone, IInv, Data, Types, Passes
<1>2. Types' /\ Timely'
  BY <1>1 DEF CheckpointsDone, IInv, Data, Types, Timely
<1>3. PassKeeps'
  BY <1>1 DEF CheckpointsDone, IInv, Data, PassKeeps
<1>4. CoverageIsTrue' /\ SurvivorsAreWhole'
  BY DEF CheckpointsDone, IInv, Data, CoverageIsTrue, SurvivorsAreWhole
<1> QED
  BY <1>2, <1>3, <1>4 DEF Data

\* What is deleted is neither covered nor protected.
LEMMA DeleteObservationData ==
    ASSUME IInv, DeleteObservation
    PROVE  Data'
<1>1. PICK v \in Vehicles : \E t \in Executable(v, pass.cutoff) : stored' = [stored EXCEPT ![v] = @ \ {t}]
  BY DEF DeleteObservation
<1>2. PICK t \in Executable(v, pass.cutoff) : stored' = [stored EXCEPT ![v] = @ \ {t}]
  BY <1>1
<1>3. t \in stored[v] /\ t < pass.cutoff /\ ~Protected(v, t, pass.cutoff) /\ t \in Nat
  <2>1. t \in stored[v] /\ t < pass.cutoff /\ ~Protected(v, t, pass.cutoff)
    BY <1>2 DEF Executable
  <2>2. t \in Instants
    BY <1>1, <2>1 DEF IInv, Data, Types
  <2> QED
    BY <2>1, <2>2, Facts DEF Instants
<1>4. /\ pass.pc = "observations" /\ pass' \in Passes /\ pass'.pc = "observations"
      /\ pass'.cutoff = pass.cutoff /\ pass'.announced = pass.announced
  BY DEF DeleteObservation, IInv, Data, Types, Passes
<1>5. /\ pass.cutoff <= Floor(clock)
      /\ \A w \in Vehicles : cursor[w] = NoCursor \/ cursor[w].from >= pass.cutoff
  BY <1>4 DEF IInv, Data, PassKeeps
<1>6. /\ stored' \in [Vehicles -> SUBSET Instants]
      /\ \A w \in Vehicles : w # v => stored'[w] = stored[w]
      /\ stored'[v] = stored[v] \ {t}
  BY <1>1, <1>2 DEF IInv, Data, Types
<1>7. Types' /\ Timely'
  BY <1>4, <1>6 DEF DeleteObservation, IInv, Data, Types, Timely
<1>8. PassKeeps'
  BY <1>4, <1>5 DEF DeleteObservation, IInv, Data, PassKeeps
<1>9. CoverageIsTrue'
  <2>1. SUFFICES ASSUME NEW w \in Vehicles, cursor[w].through > cursor[w].from
                 PROVE  cursor[w].from..cursor[w].through \subseteq stored'[w]
    BY DEF DeleteObservation, CoverageIsTrue
  <2>2. cursor[w].from..cursor[w].through \subseteq stored[w]
    BY <2>1 DEF IInv, Data, CoverageIsTrue
  <2>3. cursor[w].from >= pass.cutoff
    BY <1>5, <2>1, Facts
  <2>4. t \notin cursor[w].from..cursor[w].through
    BY <1>3, <2>3, Facts
  <2> QED
    BY <1>6, <2>2, <2>4
<1>10. SurvivorsAreWhole'
  <2>1. SUFFICES ASSUME NEW k \in Backfills, backfill[k] > k[2], k[3] >= Floor(clock)
                 PROVE  k[2]..backfill[k] \subseteq stored'[k[1]]
    BY DEF DeleteObservation, SurvivorsAreWhole
  <2>2. k[2]..backfill[k] \subseteq stored[k[1]]
    BY <2>1 DEF IInv, Data, SurvivorsAreWhole
  <2>3. k[1] \in Vehicles /\ k[2] \in Nat /\ k[3] \in Nat /\ backfill[k] \in Int /\ Absent = -1
    BY CoverageAssumption DEF IInv, Data, Types, Absent, None
  <2>4. backfill[k] # Absent /\ backfill[k] <= k[3]
    BY <2>1, <2>3 DEF IInv, Data, Timely
  <2>5. ASSUME k[1] = v PROVE t \notin k[2]..backfill[k]
    <3>1. SUFFICES ASSUME t \in k[2]..backfill[k] PROVE FALSE
      OBVIOUS
    <3>2. k[3] >= pass.cutoff /\ k[2] <= t /\ t <= k[3]
      BY <1>3, <1>5, <2>1, <2>3, <2>4, <3>1, Facts
    <3> QED
      BY <1>3, <2>4, <2>5, <3>2 DEF Protected
  <2> QED
    BY <1>6, <2>2, <2>3, <2>5
<1> QED
  BY <1>7, <1>8, <1>9, <1>10 DEF Data

LEMMA PrepareData ==
    ASSUME IInv, NEW k \in Backfills, Prepare(k)
    PROVE  Data'
<1>1. k[2] \in Nat /\ k[3] \in Nat /\ k[2] < k[3] /\ k[3] <= clock
  BY CoverageAssumption DEF Prepare
<1>2. /\ backfill' \in [Backfills -> Int] /\ backfill'[k] = k[2]
      /\ \A j \in Backfills : j # k => backfill'[j] = backfill[j]
  BY <1>1 DEF Prepare, IInv, Data, Types
<1>3. Types' /\ PassKeeps'
  BY <1>2 DEF Prepare, IInv, Data, Types, PassKeeps
<1>4. Timely'
  BY <1>1, <1>2 DEF Prepare, IInv, Data, Timely
<1>5. CoverageIsTrue'
  BY DEF Prepare, IInv, Data, CoverageIsTrue
<1>6. SurvivorsAreWhole'
  BY <1>1, <1>2 DEF Prepare, IInv, Data, SurvivorsAreWhole
<1> QED
  BY <1>3, <1>4, <1>5, <1>6 DEF Data

LEMMA BackfillWindowData ==
    ASSUME IInv, NEW k \in Backfills, BackfillWindow(k)
    PROVE  Data'
<1>1. k[1] \in Vehicles /\ k[2] \in Nat /\ k[3] \in Nat /\ backfill[k] \in Int
  BY CoverageAssumption DEF IInv, Data, Types
<1>2. k[2] <= backfill[k] /\ backfill[k] < k[3] /\ k[3] <= clock
  BY DEF BackfillWindow, IInv, Data, Timely
<1>3. /\ backfill' \in [Backfills -> Int] /\ backfill'[k] = backfill[k] + 1
      /\ \A j \in Backfills : j # k => backfill'[j] = backfill[j]
  BY <1>1 DEF BackfillWindow, IInv, Data, Types
<1>4. (backfill[k]..(backfill[k] + 1)) \subseteq Instants
  BY <1>1, <1>2, Facts DEF Instants
<1>5. /\ stored' \in [Vehicles -> SUBSET Instants]
      /\ \A v \in Vehicles : stored[v] \subseteq stored'[v]
      /\ backfill[k]..(backfill[k] + 1) \subseteq stored'[k[1]]
  BY <1>1, <1>4 DEF BackfillWindow, IInv, Data, Types
<1>6. Types' /\ PassKeeps'
  BY <1>3, <1>5 DEF BackfillWindow, IInv, Data, Types, PassKeeps
<1>7. Timely'
  BY <1>1, <1>2, <1>3 DEF BackfillWindow, IInv, Data, Timely
<1>8. CoverageIsTrue'
  BY <1>5 DEF BackfillWindow, IInv, Data, CoverageIsTrue
<1>9. SurvivorsAreWhole'
  <2>1. SUFFICES ASSUME NEW j \in Backfills, backfill'[j] > j[2], j[3] >= Floor(clock)
                 PROVE  j[2]..backfill'[j] \subseteq stored'[j[1]]
    BY DEF BackfillWindow, SurvivorsAreWhole
  <2>2. CASE j # k
    <3>1. j[2]..backfill[j] \subseteq stored[j[1]] /\ j[1] \in Vehicles
      BY <1>3, <2>1, <2>2, CoverageAssumption DEF IInv, Data, SurvivorsAreWhole
    <3> QED
      BY <1>3, <1>5, <2>2, <3>1
  <2>3. CASE j = k
    <3>1. k[2]..backfill[k] \subseteq stored'[k[1]]
      <4>1. CASE backfill[k] = k[2]
        BY <1>1, <1>5, <4>1
      <4>2. CASE backfill[k] > k[2]
        BY <1>1, <1>5, <2>1, <2>3, <4>2 DEF IInv, Data, SurvivorsAreWhole
      <4> QED
        BY <1>1, <1>2, <4>1, <4>2
    <3> QED
      BY <1>1, <1>2, <1>3, <1>5, <2>3, <3>1
  <2> QED
    BY <2>2, <2>3
<1> QED
  BY <1>6, <1>7, <1>8, <1>9 DEF Data

LEMMA PersistRecentData ==
    ASSUME IInv, NEW p \in Processes, PersistRecent(p)
    PROVE  Data'
<1> DEFINE v == Vehicle(p)
           S == worker[p].from..worker[p].to
<1>1. stored' = [stored EXCEPT ![v] = @ \union S]
  BY DEF PersistRecent
<1>2. lock' \in Processes \union {Retention, Nobody}
  BY DEF PersistRecent, Unlocked, IInv, Data, Types
<1>3. CASE v \in Vehicles
  <2>1. Reading(p)
    BY DEF IInv, WorkersKeep
  <2>2. worker[p].from \in Instants /\ worker[p].to \in Instants
    BY <1>3, <2>1 DEF PersistRecent, Reading
  <2>3. S \in SUBSET Instants
    BY <2>2, Facts DEF Instants
  <2> HIDE DEF S, v
  <2> QED
    BY <1>1, <1>2, <1>3, <2>3, StoreGrows DEF PersistRecent
<1>4. CASE v \notin Vehicles
  <2>1. stored \in [Vehicles -> SUBSET Instants]
    BY DEF IInv, Data, Types
  <2> HIDE DEF S, v
  <2>2. stored' = stored
    BY <1>1, <1>4, <2>1
  <2> QED
    BY <1>2, <2>2, QuietData DEF PersistRecent, IInv, Data, Types
<1> QED
  BY <1>3, <1>4

\* What a backlog request finds when the cursor has not moved.
LEMMA BacklogRequest ==
    ASSUME IInv, NEW p \in Processes, worker[p].pc = "persist", Lane(p) = "CONTIGUOUS_BACKLOG",
           Unmoved(p), Vehicle(p) \in Vehicles, NEW c, c = cursor[Vehicle(p)]
    PROVE  /\ worker[p].from \in Int /\ worker[p].to \in Instants /\ worker[p].to <= clock
           /\ 0 <= c.from /\ c.from <= worker[p].from /\ worker[p].from <= c.through
           /\ c.through < worker[p].to /\ worker[p].from \in Instants
<1>1. Reading(p)
  BY DEF IInv, WorkersKeep
<1>2. worker[p].cursor = c /\ Lane(p) # "RECENT_TAIL"
  BY DEF Unmoved
<1>3. /\ worker[p].from \in Instants /\ worker[p].to \in Instants /\ worker[p].to <= worker[p].safe
      /\ 0 <= c.from /\ c.from <= worker[p].from /\ worker[p].from <= c.through
      /\ worker[p].to > c.through
  BY <1>1, <1>2 DEF Reading
<1>4. PICK any : worker[p] \in Locals(any)
  BY OwnLocals DEF IInv, WorkersKeep
<1>5. worker[p].safe \in Instants /\ worker[p].safe <= clock
  BY <1>4 DEF Locals, IInv, WorkersKeep
<1> QED
  BY <1>3, <1>5, Facts DEF Instants

LEMMA PersistBacklogData ==
    ASSUME IInv, NEW p \in Processes, PersistBacklog(p)
    PROVE  Data'
<1>1. lock' \in Processes \union {Retention, Nobody}
  BY DEF PersistBacklog, Fails, Unlocked, IInv, Data, Types
<1>2. CASE ~Unmoved(p)
  BY <1>1, <1>2, QuietData DEF PersistBacklog, IInv, Data, Types
<1>3. CASE Unmoved(p)
  <2>1. stored' = [stored EXCEPT ![Vehicle(p)] = @ \union (worker[p].from..worker[p].to)]
        /\ cursor' = [cursor EXCEPT ![Vehicle(p)].through = worker[p].to]
    BY <1>3 DEF PersistBacklog
  <2>2. CASE Vehicle(p) \notin Vehicles
    <3>1. stored' = stored /\ cursor' = cursor
      BY <2>1, <2>2 DEF IInv, Data, Types
    <3> QED
      BY <1>1, <3>1, QuietData DEF PersistBacklog, IInv, Data, Types
  <2>3. CASE Vehicle(p) \in Vehicles
    <3>1. PICK v \in Vehicles : v = Vehicle(p)
      BY <2>3
    <3>2. PICK c : c = cursor[v]
      OBVIOUS
    <3>3. PICK from, to : from = worker[p].from /\ to = worker[p].to
      OBVIOUS
    <3>4. /\ from \in Instants /\ to \in Instants /\ to <= clock
          /\ 0 <= c.from /\ c.from <= from /\ from <= c.through /\ c.through < to
      BY <1>3, <3>1, <3>2, <3>3, BacklogRequest DEF PersistBacklog
    <3>5. c.from \in Int /\ c.through \in Int /\ c \in Cursors
      BY <3>2, Facts
    <3>6. /\ cursor' \in [Vehicles -> Cursors]
          /\ cursor'[v] = [c EXCEPT !.through = to]
          /\ \A w \in Vehicles : w # v => cursor'[w] = cursor[w]
      <4>1. [c EXCEPT !.through = to] \in Cursors
        BY <3>4, <3>5 DEF Cursors, Instants
      <4>2. cursor' = [cursor EXCEPT ![v] = [c EXCEPT !.through = to]]
        BY <2>1, <3>1, <3>2, <3>3 DEF IInv, Data, Types
      <4> QED
        BY <4>1, <4>2 DEF IInv, Data, Types
    <3>7. cursor'[v].from = c.from /\ cursor'[v].through = to
      BY <3>5, <3>6 DEF Cursors
    <3>8. from..to \subseteq Instants
      BY <3>4, Facts DEF Instants
    <3>9. /\ stored' \in [Vehicles -> SUBSET Instants]
          /\ \A w \in Vehicles : stored[w] \subseteq stored'[w]
          /\ stored'[v] = stored[v] \union (from..to)
      BY <2>1, <3>1, <3>3, <3>8 DEF IInv, Data, Types
    <3>10. Types'
      BY <1>1, <3>6, <3>9 DEF PersistBacklog, IInv, Data, Types
    <3>11. Timely'
      <4>1. /\ 0 <= cursor'[v].from /\ cursor'[v].from <= cursor'[v].through
            /\ cursor'[v].through <= clock
        BY <3>4, <3>5, <3>7, Facts DEF Instants
      <4> QED
        BY <3>6, <4>1 DEF PersistBacklog, IInv, Data, Timely
    <3>12. PassKeeps'
      <4>1. c # NoCursor
        BY <3>4, Facts
      <4>2. \A w \in Vehicles : cursor'[w] = NoCursor \/ cursor'[w].from = cursor[w].from
        BY <3>2, <3>6, <3>7
      <4>3. \A w \in Vehicles : cursor'[w] = NoCursor \/ cursor[w] # NoCursor
        BY <3>2, <3>6, <4>1
      <4> QED
        BY <4>2, <4>3 DEF PersistBacklog, IInv, Data, PassKeeps
    <3>13. CoverageIsTrue'
      <4>1. ASSUME NEW w \in Vehicles, w # v, cursor'[w].through > cursor'[w].from
            PROVE  cursor'[w].from..cursor'[w].through \subseteq stored'[w]
        BY <3>6, <3>9, <4>1 DEF IInv, Data, CoverageIsTrue
      <4>2. c.from..to \subseteq stored'[v]
        <5>1. CASE c.through > c.from
          <6>1. c.from..c.through \subseteq stored[v]
            BY <3>2, <5>1 DEF IInv, Data, CoverageIsTrue
          <6> QED
            BY <3>4, <3>5, <3>9, <6>1, Facts DEF Instants
        <5>2. CASE c.through = c.from
          BY <3>4, <3>5, <3>9, <5>2, Facts DEF Instants
        <5> QED
          BY <3>4, <3>5, <5>1, <5>2, Facts DEF Instants
      <4> QED
        BY <3>7, <4>1, <4>2 DEF CoverageIsTrue
    <3>14. SurvivorsAreWhole'
      BY <3>9, CoverageAssumption DEF PersistBacklog, IInv, Data, SurvivorsAreWhole
    <3> QED
      BY <3>10, <3>11, <3>12, <3>13, <3>14 DEF Data
  <2> QED
    BY <2>2, <2>3
<1> QED
  BY <1>2, <1>3
-----------------------------------------------------------------------------
(* The invariant holds.                                                     *)

\* A fence of the latest cycle is a fence.
LEMMA FencesStayNested ==
    ASSUME FencesNest, NEW p \in Processes, NEW old, NEW new,
           \/ fences' = [fences EXCEPT ![p] = @ \union new] /\ fresh' = [fresh EXCEPT ![p] = @ \union new]
           \/ fences' = fences /\ fresh' = fresh
           \/ fences' = [fences EXCEPT ![p] = @ \union new] /\ fresh' = [fresh EXCEPT ![p] = new]
           \/ fences' = [fences EXCEPT ![p] = {}] /\ fresh' = [fresh EXCEPT ![p] = {}]
           \/ fences' = [fences EXCEPT ![p] = @ \ {old}] /\ fresh' = fresh /\ old \notin fresh[p]
    PROVE  FencesNest'
<1>1. /\ fences = [q \in Processes |-> fences[q]] /\ fresh = [q \in Processes |-> fresh[q]]
      /\ \A q \in Processes : fresh[q] \subseteq fences[q]
  BY DEF FencesNest
<1>2. fences' = [q \in Processes |-> fences'[q]] /\ fresh' = [q \in Processes |-> fresh'[q]]
  BY <1>1
<1>3. \A q \in Processes : q # p => fences'[q] = fences[q] /\ fresh'[q] = fresh[q]
  BY <1>1
<1>4. \/ fences'[p] = fences[p] \union new /\ fresh'[p] = fresh[p] \union new
      \/ fences'[p] = fences[p] \union new /\ fresh'[p] = new
      \/ fences'[p] = fences[p] /\ fresh'[p] = fresh[p]
      \/ fresh'[p] = {}
      \/ fences'[p] = fences[p] \ {old} /\ fresh'[p] = fresh[p] /\ old \notin fresh[p]
  BY <1>1
<1>5. fresh'[p] \subseteq fences'[p]
  BY <1>1, <1>4
<1> QED
  BY <1>1, <1>2, <1>3, <1>5 DEF FencesNest

\* The steps of one process.
LEMMA ProcessStep ==
    ASSUME IInv, NEW p \in Processes, SomeCycle(p) \/ Work(p) \/ SomeFenceEnds(p)
    PROVE  IInv'
<1> USE DEF waiting
<1>0. FencesNest /\ p \in Processes \union {Retention, Nobody}
      /\ Unlocked(p) \in Processes \union {Retention, Nobody}
      /\ active \in BOOLEAN /\ lock \in Processes \union {Retention, Nobody}
      /\ shown \in Instants \union {None}
  BY DEF IInv, Data, Types, Unlocked
<1>1. ASSUME SomeCycle(p) PROVE IInv'
  <2>1. PICK prefer \in Preferences : StartCycle(p, prefer)
    BY <1>1 DEF SomeCycle
  <2>2. FencesNest'
    BY <1>0, <2>1, FencesStayNested DEF StartCycle
  <2> QED
    BY <2>1, <2>2, StartCycleData, StartCycleWorkers DEF IInv
<1>2. ASSUME LockUnavailable(p) PROVE IInv'
  <2>1. Data'
    BY <1>0, <1>2, QuietData DEF LockUnavailable
  <2>2. WorkersKeep'
    BY <1>2, FinishedWorkers DEF LockUnavailable
  <2>3. FencesNest'
    BY <1>0, <1>2, FencesStayNested DEF LockUnavailable
  <2> QED
    BY <2>1, <2>2, <2>3 DEF IInv
<1>3. ASSUME Inspect(p) PROVE IInv'
  <2>1. Data'
    BY <1>0, <1>3, QuietData DEF Inspect
  <2>2. WorkersKeep'
    BY <1>3, InspectWorkers
  <2>3. FencesNest'
    BY <1>0, <1>3, FencesStayNested DEF Inspect, Fence
  <2> QED
    BY <2>1, <2>2, <2>3 DEF IInv
<1>4. ASSUME Read(p) PROVE IInv'
  <2>1. Data'
    BY <1>0, <1>4, QuietData DEF Read
  <2>2. WorkersKeep'
    BY <1>4, ReadWorkers
  <2>3. FencesNest'
    BY <1>0, <1>4, FencesStayNested DEF Read
  <2> QED
    BY <2>1, <2>2, <2>3 DEF IInv
<1>5. ASSUME ReadFails(p) PROVE IInv'
  <2>1. Data'
    BY <1>0, <1>5, QuietData DEF ReadFails, Fails
  <2>2. WorkersKeep'
    BY <1>5, FinishedWorkers DEF ReadFails, Fails
  <2>3. FencesNest'
    BY <1>0, <1>5, FencesStayNested DEF ReadFails, Fails, Fence
  <2> QED
    BY <2>1, <2>2, <2>3 DEF IInv
<1>6. ASSUME PersistRecent(p) PROVE IInv'
  <2>1. WorkersKeep'
    BY <1>6, FinishedWorkers DEF PersistRecent
  <2>2. FencesNest'
    BY <1>0, <1>6, FencesStayNested DEF PersistRecent, Fence
  <2> QED
    BY <1>6, <2>1, <2>2, PersistRecentData DEF IInv
<1>7. ASSUME PersistBacklog(p) PROVE IInv'
  <2>1. WorkersKeep'
    BY <1>7, FinishedWorkers DEF PersistBacklog, Fails
  <2>2. FencesNest'
    BY <1>0, <1>7, FencesStayNested DEF PersistBacklog, Fails, Fence
  <2> QED
    BY <1>7, <2>1, <2>2, PersistBacklogData DEF IInv
<1>8. ASSUME SomeFenceEnds(p) PROVE IInv'
  <2>1. PICK f \in fences[p] : FenceEnds(p, f)
    BY <1>8 DEF SomeFenceEnds
  <2>2. Data'
    BY <1>0, <2>1, QuietData DEF FenceEnds
  <2>3. WorkersKeep'
    BY <2>1, SteadyWorkers, Facts DEF FenceEnds
  <2>4. FencesNest'
    BY <1>0, <2>1, FencesStayNested DEF FenceEnds
  <2> QED
    BY <2>2, <2>3, <2>4 DEF IInv
<1> QED
  BY <1>1, <1>2, <1>3, <1>4, <1>5, <1>6, <1>7, <1>8 DEF Work

\* Steps that no worker takes.
LEMMA OtherStep ==
    ASSUME IInv, Data', worker' = worker, fences' = fences, fresh' = fresh,
           clock' \in Instants, clock <= clock'
    PROVE  IInv'
<1>1. WorkersKeep'
  BY SteadyWorkers
<1>2. FencesNest'
  BY DEF IInv, FencesNest
<1> QED
  BY <1>1, <1>2 DEF IInv

LEMMA PassStep ==
    ASSUME IInv, Pass
    PROVE  IInv'
<1>0. /\ clock \in Instants /\ clock <= clock
      /\ active \in BOOLEAN /\ shown \in Instants \union {None}
      /\ Unlocked(Retention) \in Processes \union {Retention, Nobody}
  BY Facts DEF IInv, Data, Types, Unlocked
<1>1. clock' = clock /\ worker' = worker /\ fences' = fences /\ fresh' = fresh
  BY DEF Pass, Reconcile, DeleteCheckpoint, CheckpointsDone, DeleteObservation, EndPass, waiting
<1>2. Data'
  <2>1. CASE EndPass
    BY <1>0, <2>1, QuietData DEF EndPass
  <2> QED
    BY <2>1, ReconcileData, DeleteCheckpointData, CheckpointsDoneData, DeleteObservationData DEF Pass
<1> QED
  BY <1>0, <1>1, <1>2, OtherStep

LEMMA MisfortuneStep ==
    ASSUME IInv, Misfortune
    PROVE  IInv'
<1> USE DEF waiting
<1>0. /\ clock \in Instants /\ clock <= clock /\ FencesNest
      /\ active \in BOOLEAN /\ shown \in Instants \union {None}
      /\ Nobody \in Processes \union {Retention, Nobody}
      /\ \A q : Unlocked(q) \in Processes \union {Retention, Nobody}
  BY Facts DEF IInv, Data, Types, Unlocked
<1>1. CASE LoseLock
  <2>1. Data'
    BY <1>0, <1>1, QuietData DEF LoseLock, Fault
  <2> QED
    BY <1>0, <1>1, <2>1, OtherStep DEF LoseLock, Fault
<1>2. CASE PassFails
  <2>1. Data'
    BY <1>0, <1>2, QuietData DEF PassFails, Fault
  <2> QED
    BY <1>0, <1>2, <2>1, OtherStep DEF PassFails, Fault
<1>3. CASE \E p \in Processes : Crash(p)
  <2>1. PICK p \in Processes : Crash(p)
    BY <1>3
  <2>2. Data'
    BY <1>0, <2>1, QuietData DEF Crash, Fault
  <2>3. FencesNest'
    BY <1>0, <2>1, FencesStayNested DEF Crash
  <2> QED
    BY <2>1, <2>2, <2>3, CrashWorkers DEF IInv
<1> QED
  BY <1>1, <1>2, <1>3 DEF Misfortune

LEMMA NextInv == IInv /\ [Next]_vars => IInv'
<1> SUFFICES ASSUME IInv, [Next]_vars PROVE IInv'
  OBVIOUS
<1> USE DEF waiting
<1>0. /\ clock \in Instants /\ clock <= clock
      /\ active \in BOOLEAN /\ lock \in Processes \union {Retention, Nobody}
      /\ shown \in Instants \union {None} /\ Floor(clock) \in Instants
  BY Facts DEF IInv, Data, Types
<1>1. CASE Tick
  <2>1. Data' /\ clock' \in Instants /\ clock <= clock'
    BY <1>1, TickData
  <2>2. worker' = worker /\ fences' = fences /\ fresh' = fresh
    BY <1>1 DEF Tick
  <2> QED
    BY <2>1, <2>2, OtherStep
<1>2. CASE CreateRun \/ EndRun \/ ShowPlan \/ UNCHANGED vars
  <2>1. Data'
    BY <1>0, <1>2, QuietData DEF CreateRun, EndRun, ShowPlan, vars
  <2>2. worker' = worker /\ fences' = fences /\ fresh' = fresh /\ clock' = clock
    BY <1>2 DEF CreateRun, EndRun, ShowPlan, vars
  <2> QED
    BY <1>0, <2>1, <2>2, OtherStep
<1>3. CASE BeginAutomatic \/ BeginConfirmed
  <2>1. PICK announced \in {None} \union Instants : Begin(announced)
    BY <1>0, <1>3 DEF BeginAutomatic, BeginConfirmed
  <2>2. Data'
    BY <2>1, BeginData
  <2>3. worker' = worker /\ fences' = fences /\ fresh' = fresh /\ clock' = clock
    BY <2>1 DEF Begin
  <2> QED
    BY <1>0, <2>2, <2>3, OtherStep
<1>4. CASE \E k \in Backfills : Prepare(k) \/ BackfillWindow(k)
  <2>1. PICK k \in Backfills : Prepare(k) \/ BackfillWindow(k)
    BY <1>4
  <2>2. Data'
    BY <2>1, PrepareData, BackfillWindowData
  <2>3. worker' = worker /\ fences' = fences /\ fresh' = fresh /\ clock' = clock
    BY <2>1 DEF Prepare, BackfillWindow
  <2> QED
    BY <1>0, <2>2, <2>3, OtherStep
<1> QED
  BY <1>1, <1>2, <1>3, <1>4, ProcessStep, PassStep, MisfortuneStep DEF Next

LEMMA Invariance == Spec => []IInv
<1> QED
  BY InitInv, NextInv, PTL DEF Spec
-----------------------------------------------------------------------------
(* The theorems.                                                            *)

\* The rows and the locals keep their types, and no cursor turns around,
\* whoever writes them.
THEOREM TypeCorrect == Spec => []TypeOK
<1> QED
  BY Invariance, InvSuffices, PTL

\* A cursor never claims what is not stored: the claim is extended only by the
\* worker that read it unchanged, over what it asked for, and retention raises
\* every claim before it deletes.
THEOREM CoverageTrue == Spec => []CoverageIsTrue
<1>1. IInv => CoverageIsTrue
  BY DEF IInv, Data
<1> QED
  BY <1>1, Invariance, PTL

\* Retention leaves what surviving backfill checkpoints claim.
THEOREM SurvivorsWhole == Spec => []SurvivorsAreWhole
<1>1. IInv => SurvivorsAreWhole
  BY DEF IInv, Data
<1> QED
  BY <1>1, Invariance, PTL

\* Neither end of a cursor moves back in any step.
THEOREM CoverageOnlyAdvances == Spec => CoverageAdvances
<1> DEFINE Advance == \A v \in Vehicles : cursor[v] # NoCursor =>
             cursor'[v].from >= cursor[v].from /\ cursor'[v].through >= cursor[v].through
<1>1. ASSUME IInv, [Next]_vars PROVE Advance
  <2>1. SUFFICES ASSUME NEW v \in Vehicles, cursor[v] # NoCursor
                 PROVE  cursor'[v].from >= cursor[v].from /\ cursor'[v].through >= cursor[v].through
    OBVIOUS
  <2>2. CASE cursor' = cursor
    BY <1>1, <2>2, Facts
  <2>3. ASSUME NEW p \in Processes, SomeCycle(p)
        PROVE  cursor'[v] = cursor[v]
    BY <2>1, <2>3 DEF SomeCycle, StartCycle, Ensured
  <2>4. ASSUME NEW p \in Processes, PersistBacklog(p), Unmoved(p)
        PROVE  cursor'[v].from >= cursor[v].from /\ cursor'[v].through >= cursor[v].through
    <3>1. cursor' = [cursor EXCEPT ![Vehicle(p)].through = worker[p].to]
      BY <2>4 DEF PersistBacklog
    <3>2. CASE v # Vehicle(p)
      BY <1>1, <3>1, <3>2, Facts DEF IInv, Data, Types
    <3>3. CASE v = Vehicle(p)
      <4>1. cursor[v].through < worker[p].to /\ worker[p].to \in Instants
        BY <1>1, <2>4, <3>3, BacklogRequest DEF PersistBacklog
      <4>2. PICK c : c = cursor[v]
        OBVIOUS
      <4>3. PICK to : to = worker[p].to
        OBVIOUS
      <4>4. c \in Cursors /\ cursor'[v] = [c EXCEPT !.through = to]
        BY <1>1, <3>1, <3>3, <4>2, <4>3 DEF IInv, Data, Types
      <4>5. cursor'[v].from = c.from /\ cursor'[v].through = to
        BY <4>4 DEF Cursors
      <4> QED
        BY <1>1, <4>1, <4>2, <4>3, <4>5, Facts DEF Instants
    <3> QED
      BY <3>2, <3>3
  <2>5. CASE Reconcile
    <3>1. cursor'[v] = Raised(cursor[v]) /\ pass.pc # "idle"
      BY <2>5 DEF Reconcile
    <3> QED
      BY <1>1, <2>1, <3>1, RaisedCursor
  <2>6. \/ cursor' = cursor \/ Reconcile
        \/ \E p \in Processes : SomeCycle(p) \/ (PersistBacklog(p) /\ Unmoved(p))
    <3>1. ASSUME NEW p \in Processes, Work(p)
          PROVE  cursor' = cursor \/ (PersistBacklog(p) /\ Unmoved(p))
      BY <3>1 DEF Work, LockUnavailable, Inspect, Read, ReadFails, PersistRecent, PersistBacklog
    <3>2. ASSUME NEW p \in Processes, SomeFenceEnds(p) PROVE cursor' = cursor
      BY <3>2 DEF SomeFenceEnds, FenceEnds
    <3>3. ASSUME Pass PROVE cursor' = cursor \/ Reconcile
      BY <3>3 DEF Pass, DeleteCheckpoint, CheckpointsDone, DeleteObservation, EndPass
    <3>4. ASSUME Misfortune PROVE cursor' = cursor
      BY <3>4 DEF Misfortune, LoseLock, PassFails, Crash, Fault
    <3>5. ASSUME \/ Tick \/ CreateRun \/ EndRun \/ ShowPlan \/ BeginAutomatic \/ BeginConfirmed
                 \/ \E k \in Backfills : Prepare(k) \/ BackfillWindow(k)
                 \/ UNCHANGED vars
          PROVE  cursor' = cursor
      BY <3>5 DEF Tick, CreateRun, EndRun, ShowPlan, BeginAutomatic, BeginConfirmed, Begin, Prepare,
                  BackfillWindow, vars
    <3> QED
      BY <1>1, <3>1, <3>2, <3>3, <3>4, <3>5 DEF Next
  <2> QED
    BY <1>1, <2>2, <2>3, <2>4, <2>5, <2>6, Facts
<1>2. Advance => [Advance]_vars
  OBVIOUS
<1> QED
  BY <1>1, <1>2, Invariance, PTL DEF Spec, CoverageAdvances

\* No step deletes what the policy keeps, nor a confirmed pass what its plan
\* did not announce.
THEOREM DeletedAsAnnounced == Spec => DeletesAsAnnounced
<1> DEFINE Announced == \A v \in Vehicles : \A t \in stored[v] \ stored'[v] :
             t < Floor(clock) /\ (pass.announced # None => t < pass.announced)
<1>1. ASSUME IInv, [Next]_vars PROVE Announced
  <2>1. CASE \A v \in Vehicles : stored[v] \subseteq stored'[v]
    BY <2>1
  <2>2. CASE DeleteObservation
    <3>1. SUFFICES ASSUME NEW v \in Vehicles, NEW t \in stored[v] \ stored'[v]
                   PROVE  t < Floor(clock) /\ (pass.announced # None => t < pass.announced)
      OBVIOUS
    <3>2. pass.cutoff <= Floor(clock) /\ pass.announced \in {None, pass.cutoff}
      BY <1>1, <2>2 DEF DeleteObservation, IInv, Data, PassKeeps
    <3>3. PICK u \in Vehicles : \E x \in Executable(u, pass.cutoff) : stored' = [stored EXCEPT ![u] = @ \ {x}]
      BY <2>2 DEF DeleteObservation
    <3>4. PICK x \in Executable(u, pass.cutoff) : stored' = [stored EXCEPT ![u] = @ \ {x}]
      BY <3>3
    <3>5. t < pass.cutoff /\ t \in Nat
      <4>1. t = x
        BY <1>1, <3>1, <3>4 DEF IInv, Data, Types
      <4>2. t \in Instants
        BY <1>1, <3>1 DEF IInv, Data, Types
      <4> QED
        BY <1>1, <3>4, <4>1, <4>2, Facts DEF Executable, Instants
    <3> QED
      BY <1>1, <3>2, <3>5, Facts
  <2>3. \/ DeleteObservation \/ \A v \in Vehicles : stored[v] \subseteq stored'[v]
    <3>0. stored \in [Vehicles -> SUBSET Instants]
      BY <1>1 DEF IInv, Data, Types
    <3>1. ASSUME NEW p \in Processes, PersistRecent(p) \/ PersistBacklog(p)
          PROVE  \A v \in Vehicles : stored[v] \subseteq stored'[v]
      BY <3>0, <3>1 DEF PersistRecent, PersistBacklog
    <3>2. ASSUME NEW k \in Backfills, BackfillWindow(k)
          PROVE  \A v \in Vehicles : stored[v] \subseteq stored'[v]
      BY <3>0, <3>2 DEF BackfillWindow
    <3>3. ASSUME NEW p \in Processes,
                 LockUnavailable(p) \/ Inspect(p) \/ Read(p) \/ ReadFails(p) \/ SomeCycle(p) \/ SomeFenceEnds(p)
          PROVE  stored' = stored
      BY <3>3 DEF LockUnavailable, Inspect, Read, ReadFails, SomeCycle, StartCycle, SomeFenceEnds, FenceEnds
    <3>4. ASSUME Pass PROVE DeleteObservation \/ stored' = stored
      BY <3>4 DEF Pass, Reconcile, DeleteCheckpoint, CheckpointsDone, EndPass
    <3>5. ASSUME Misfortune PROVE stored' = stored
      BY <3>5 DEF Misfortune, LoseLock, PassFails, Crash, Fault
    <3>6. ASSUME \/ Tick \/ CreateRun \/ EndRun \/ ShowPlan \/ BeginAutomatic \/ BeginConfirmed
                 \/ \E k \in Backfills : Prepare(k)
                 \/ UNCHANGED vars
          PROVE  stored' = stored
      BY <3>6 DEF Tick, CreateRun, EndRun, ShowPlan, BeginAutomatic, BeginConfirmed, Begin, Prepare, vars
    <3> QED
      BY <1>1, <3>1, <3>2, <3>3, <3>4, <3>5, <3>6 DEF Next, Work
  <2> QED
    BY <2>1, <2>2, <2>3
<1>2. Announced => [Announced]_vars
  OBVIOUS
<1> QED
  BY <1>1, <1>2, Invariance, PTL DEF Spec, DeletesAsAnnounced
=============================================================================
