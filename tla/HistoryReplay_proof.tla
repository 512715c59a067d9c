--------------------------- MODULE HistoryReplay_proof ---------------------------
(***************************************************************************)
(* Proofs about HistoryReplay for any processes, vehicles, generations,    *)
(* lengths and windows, and any number of failures and faults.             *)
(***************************************************************************)
EXTENDS HistoryReplay, TLAPS, WellFoundedInduction

-----------------------------------------------------------------------------
(* The inductive invariant.                                                 *)

FenceKeys ==
    {KindFence} \union {Fence(c) : c \in Checkpoints}
    \union {RunFence(g) : g \in Generations} \union {Exhausted(g) : g \in Generations}
    \union ({"position"} \X Nat \X Nat \X Nat \X Nat)

Pcs == {"idle", "ensure", "find", "count", "create", "claim", "list", "retire", "vehicle",
        "read", "persist", "remain", "complete", "yield", "release", "throw"}

Locals == [pc : Pcs, gen : 0..GenCount, fleet : SUBSET Vehicles, c : Checkpoints \union {<<>>},
           at : Nat, to : Nat, now : 0..GenCount, fences : SUBSET FenceKeys]

Tiers == UNION {[D -> 1..Len(Windows)] : D \in SUBSET FenceKeys}

Memories == [fences : SUBSET FenceKeys, fresh : SUBSET FenceKeys, tier : Tiers]

RunRows == [status : {"NONE", "PENDING", "RUNNING", "COMPLETED"},
            owner : Processes \union {Nobody}, lease : BOOLEAN]

\* The type invariant, with the locals and the memory whole.
Types ==
    /\ now \in Generations /\ disabled \subseteq Vehicles
    /\ run \in [Generations -> RunRows]
    /\ next \in [Checkpoints -> Nat]
    /\ replayed \in [Generations -> [Vehicles -> SUBSET Instants]]
    /\ lock \in Processes \union {Nobody}
    /\ worker \in [Processes -> Locals]
    /\ memory \in [Processes -> Memories]
    /\ bounds \in [failures : Nat, toggles : Nat, faults : Nat]

\* A checkpoint is in its range; all of a vehicle's are created at once.
InRange(c) == next[c] = NotCreated \/ next[c] \in c[3]..End(c)
CreatedTogether(c) == \A d \in Checkpoints : c[1] = d[1] /\ c[2] = d[2] /\ Created(c) => Created(d)

\* A lease is of a running run, and a completed generation has no work left.
RunSound(g) ==
    /\ run[g].lease => run[g].status = "RUNNING"
    /\ run[g].status = "COMPLETED" => Rows(g) # {} /\ Incomplete(g) = {}

AtCheckpoint == {"retire", "vehicle", "read", "persist"}
Claiming == {"count", "create", "claim", "list"} \union AtCheckpoint
            \union {"remain", "complete", "yield"}

\* What a quantum knows stays true of the checkpoint it was read from: its
\* generation, its range and, of the floor, that it was not yet this high.
Knows(w) ==
    /\ w.pc \in Claiming => w.gen \in Generations
    /\ w.pc # "idle" => w.now \in 1..now
    /\ w.pc \in AtCheckpoint =>
         /\ w.c \in Checkpoints /\ w.c[1] = w.gen
         /\ w.at \in w.c[3]..(End(w.c) - 1)
    /\ w.pc = "retire" => w.at < Floor(w.now)
    /\ w.pc = "persist" => w.to \in (w.at + 1)..End(w.c)

\* Fences are fresh only from the end of a quantum to the next one.
Remembers(w, m) ==
    /\ m.fresh \subseteq m.fences
    /\ w.pc \notin {"idle", "release"} => m.fresh = {}

RowsSound == \A c \in Checkpoints : InRange(c) /\ CreatedTogether(c)
RunsSound == \A g \in Generations : RunSound(g)
WorkersSound == \A p \in Processes : Knows(worker[p]) /\ Remembers(worker[p], memory[p])

IInv == Types /\ RowsSound /\ RunsSound /\ WorkersSound /\ NothingSkipped
-----------------------------------------------------------------------------
(* The least of a set of numbers, which CHOOSE finds.                       *)

LEMMA MinimalNat ==
    ASSUME NEW S, S \subseteq Nat, S # {}
    PROVE  \E m \in S : \A n \in S : ~(<<n, m>> \in OpToRel(<, Nat))
  BY WFMin, NatLessThanWellFounded, Zenon

LEMMA LeastNat ==
    ASSUME NEW S, S \subseteq Nat, S # {}
    PROVE  \E m \in S : \A n \in S : m <= n
<1>1. \A x, y \in Nat : x < y => <<x, y>> \in OpToRel(<, Nat)
  BY DEF OpToRel
<1>2. PICK m \in S : \A n \in S : ~(<<n, m>> \in OpToRel(<, Nat))
  BY MinimalNat, Zenon
<1>3. \A n \in S : ~(n < m)
  BY <1>1, <1>2, Zenon
<1> QED
  BY <1>3

LEMMA LeastIn ==
    ASSUME NEW S, S \subseteq Nat, S # {}
    PROVE  Least(S) \in S /\ \A n \in S : Least(S) <= n
  BY LeastNat, Zenon DEF Least

LEMMA GreatestNat ==
    ASSUME NEW b \in Nat, NEW S, S \subseteq 0..b, S # {}
    PROVE  \E m \in S : \A n \in S : n <= m
<1> DEFINE T == {b - n : n \in S}
<1>1. T \subseteq Nat /\ T # {}
<2>1. \A n \in S : n \in 0..b
  OBVIOUS
<2>2. \A n \in S : b - n \in Nat
  BY <2>1
<2>3. PICK n \in S : TRUE
  OBVIOUS
<2>4. b - n \in T
  OBVIOUS
<2> QED
  BY <2>2, <2>4
<1>2. PICK t \in T : \A u \in T : t <= u
  BY <1>1, LeastNat, Zenon
<1>3. PICK m \in S : t = b - m
  OBVIOUS
<1>4. ASSUME NEW n \in S PROVE n <= m
<2>1. b - m <= b - n
  BY <1>2, <1>3
<2>2. b \in Int /\ m \in Int /\ n \in Int
  OBVIOUS
<2> QED
  BY <2>1, <2>2
<1> QED
  BY <1>4
-----------------------------------------------------------------------------
(* Ranges, slices and checkpoints.                                          *)

LEMMA RangeMonotone ==
    ASSUME NEW g \in Nat, NEW h \in Nat, g <= h
    PROVE  /\ RangeFrom(g) \in Nat /\ RangeTo(g) \in Nat /\ RangeFrom(g) < RangeTo(g)
           /\ RangeFrom(g) <= RangeFrom(h) /\ RangeTo(g) <= RangeTo(h)
           /\ g > 0 => RangeFrom(g) > 0
<1>1. ASSUME NEW s \in Nat \ {0}
      PROVE  g * s \in Nat /\ g * s <= h * s /\ h * s \in Nat /\ (g > 0 => g * s > 0)
  BY <1>1, SMT
<1>2. Step \in Nat \ {0} /\ Span \in Nat \ {0}
  BY ReplayAssumption
<1>3. g * Step \in Nat /\ g * Step <= h * Step /\ h * Step \in Nat /\ (g > 0 => g * Step > 0)
  BY <1>1, <1>2
<1> QED
  BY <1>2, <1>3 DEF RangeFrom, RangeTo

LEMMA FloorMonotone ==
    ASSUME NEW m \in Nat, NEW n \in Nat, m <= n
    PROVE  Floor(m) \in Nat /\ Floor(n) \in Nat /\ Floor(m) <= Floor(n)
<1>1. RangeTo(m) \in Nat /\ RangeTo(n) \in Nat /\ RangeTo(m) <= RangeTo(n)
  BY RangeMonotone
<1> QED
  BY <1>1, ReplayAssumption DEF Floor

LEMMA CheckpointIs ==
    ASSUME NEW c \in Checkpoints
    PROVE  /\ c[1] \in Generations /\ c[2] \in Vehicles /\ c[3] \in SliceStarts(c[1])
           /\ c = <<c[1], c[2], c[3]>>
           /\ c[3] \in Nat /\ c[3] > 0 /\ c[3] < RangeTo(c[1]) /\ RangeTo(c[1]) \in Nat
           /\ RangeTo(c[1]) <= RangeTo(GenCount)
<1>1. PICK g \in Generations : c \in CheckpointsOf(g, Vehicles)
  BY DEF Checkpoints
<1>2. PICK v \in Vehicles, t \in SliceStarts(g) : c = <<g, v, t>>
  BY <1>1 DEF CheckpointsOf
<1>3. c[1] = g /\ c[2] = v /\ c[3] = t
  BY <1>2
<1>4. g \in Nat /\ g > 0 /\ g <= GenCount /\ GenCount \in Nat
  BY ReplayAssumption DEF Generations
<1>5. RangeFrom(g) \in Nat /\ RangeTo(g) \in Nat /\ RangeFrom(g) > 0
      /\ RangeTo(g) <= RangeTo(GenCount)
  BY <1>4, RangeMonotone
<1>6. t \in RangeFrom(g)..(RangeTo(g) - 1)
  BY <1>2 DEF SliceStarts
<1>7. t \in Nat /\ t > 0 /\ t < RangeTo(g)
  BY <1>5, <1>6
<1> QED
  BY <1>2, <1>3, <1>5, <1>7

LEMMA IsCheckpoint ==
    ASSUME NEW g \in Generations, NEW v \in Vehicles, NEW t \in SliceStarts(g)
    PROVE  <<g, v, t>> \in Checkpoints
  BY DEF Checkpoints, CheckpointsOf

LEMMA CheckpointsOfFleet ==
    ASSUME NEW g \in Generations, NEW fleet \in SUBSET Vehicles, NEW c \in Checkpoints
    PROVE  c \in CheckpointsOf(g, fleet) <=> c[1] = g /\ c[2] \in fleet
<1>1. c[3] \in SliceStarts(c[1]) /\ c = <<c[1], c[2], c[3]>>
  BY CheckpointIs
<1>2. ASSUME c \in CheckpointsOf(g, fleet) PROVE c[1] = g /\ c[2] \in fleet
<2>1. PICK v \in fleet, t \in SliceStarts(g) : c = <<g, v, t>>
  BY <1>2 DEF CheckpointsOf
<2> QED
  BY <2>1
<1>3. ASSUME c[1] = g, c[2] \in fleet PROVE c \in CheckpointsOf(g, fleet)
<2>1. c[3] \in SliceStarts(g) /\ c = <<g, c[2], c[3]>>
  BY <1>1, <1>3
<2> QED
  BY <2>1, <1>3 DEF CheckpointsOf
<1> QED
  BY <1>2, <1>3

\* A checkpoint ends where the next slice of its generation begins.
LEMMA EndIs ==
    ASSUME NEW c \in Checkpoints
    PROVE  /\ End(c) \in Nat /\ End(c) > c[3] /\ End(c) <= RangeTo(c[1])
           /\ End(c) = RangeTo(c[1]) \/ End(c) \in SliceStarts(c[1])
           /\ \A s \in SliceStarts(c[1]) : s <= c[3] \/ s >= End(c)
<1> DEFINE g == c[1]
           Ends == {t \in (c[3] + 1)..RangeTo(g) : t = RangeTo(g) \/ t \in SliceStarts(g)}
<1>1. c[3] \in Nat /\ RangeTo(g) \in Nat /\ c[3] < RangeTo(g)
  BY CheckpointIs
<1>2. RangeTo(g) \in Ends /\ Ends \subseteq Nat
  BY <1>1
<1>3. PICK t \in Ends : \A u \in Ends : t <= u
  BY <1>2, LeastNat, Zenon
<1>4. \A s \in SliceStarts(g) : s \in Int /\ s < RangeTo(g)
<2>1. g \in Nat
  BY CheckpointIs, ReplayAssumption DEF Generations
<2>2. RangeFrom(g) \in Nat
  BY <2>1, RangeMonotone
<2> QED
  BY <2>2, <1>1 DEF SliceStarts
<1>5. ASSUME NEW s \in SliceStarts(g), ~(s <= c[3]) PROVE s >= t
<2>1. s \in Int /\ s > c[3] /\ s < RangeTo(g)
  BY <1>1, <1>4, <1>5
<2>2. s \in Ends
  BY <2>1, <1>1
<2> QED
  BY <2>2, <2>1, <1>2, <1>3
<1>6. /\ t \in (c[3] + 1)..RangeTo(c[1])
      /\ t = RangeTo(c[1]) \/ t \in SliceStarts(c[1])
      /\ \A s \in SliceStarts(c[1]) : s <= c[3] \/ s >= t
  BY <1>5
<1>7. /\ End(c) \in (c[3] + 1)..RangeTo(c[1])
      /\ End(c) = RangeTo(c[1]) \/ End(c) \in SliceStarts(c[1])
      /\ \A s \in SliceStarts(c[1]) : s <= c[3] \/ s >= End(c)
  BY <1>6, Zenon DEF End
<1> QED
  BY <1>1, <1>7

\* The slices of a vehicle leave no instant of the range out.
LEMMA SlicesCover ==
    ASSUME NEW g \in Generations, NEW v \in Vehicles,
           NEW t \in RangeFrom(g)..(RangeTo(g) - 1)
    PROVE  \E c \in Checkpoints : c[1] = g /\ c[2] = v /\ c[3] <= t /\ t < End(c)
<1> DEFINE Starts == {s \in SliceStarts(g) : s <= t}
<1>1. RangeFrom(g) \in Nat /\ RangeTo(g) \in Nat /\ RangeFrom(g) < RangeTo(g)
  BY RangeMonotone, ReplayAssumption DEF Generations
<1>2. t \in Nat /\ t < RangeTo(g) /\ RangeFrom(g) <= t
  BY <1>1
<1>3. RangeFrom(g) \in SliceStarts(g)
  BY <1>1 DEF SliceStarts
<1>4. Starts \subseteq 0..t /\ Starts # {}
  BY <1>1, <1>2, <1>3 DEF SliceStarts
<1>5. PICK s \in Starts : \A u \in Starts : u <= s
  BY <1>2, <1>4, GreatestNat, Zenon
<1> DEFINE c == <<g, v, s>>
<1>6. c \in Checkpoints /\ c[1] = g /\ c[2] = v /\ c[3] = s
  BY <1>5, IsCheckpoint
<1>7. /\ End(c) \in Nat /\ End(c) > s
      /\ End(c) = RangeTo(g) \/ End(c) \in SliceStarts(g)
  BY <1>6, EndIs
<1>8. t < End(c)
<2>1. ASSUME End(c) <= t PROVE FALSE
<3>1. End(c) \in SliceStarts(g)
  BY <2>1, <1>7, <1>2
<3>2. End(c) \in Starts
  BY <3>1, <2>1
<3> QED
  BY <3>2, <1>5, <1>7, <1>4
<2> QED
  BY <2>1, <1>7, <1>2
<1> QED
  BY <1>6, <1>8

\* The order of the list is total: its first checkpoint is one of them.
LEMMA FirstIn ==
    ASSUME NEW g, NEW S, S \subseteq Checkpoints, S # {}, \A c \in S : c[1] = g
    PROVE  First(S) \in S
<1>0. Vehicles \subseteq Nat
  BY DEF Vehicles
<1>1. \A c \in S : c = <<g, c[2], c[3]>> /\ c[2] \in Nat /\ c[3] \in Nat
  BY <1>0, CheckpointIs
<1> DEFINE T == {c[3] : c \in S}
<1>2. PICK t \in T : \A u \in T : t <= u
<2>1. T \subseteq Nat /\ T # {}
  BY <1>1
<2> QED
  BY <2>1, LeastNat, Zenon
<1> DEFINE V == {c[2] : c \in {d \in S : d[3] = t}}
<1>3. PICK v \in V : \A u \in V : v <= u
<2>1. V \subseteq Nat /\ V # {}
  BY <1>1, <1>2
<2> QED
  BY <2>1, LeastNat, Zenon
<1>4. PICK c \in S : c[3] = t /\ c[2] = v
  BY <1>3
<1>5. ASSUME NEW d \in S \ {c} PROVE Before(c, d)
<2>1. c = <<g, v, t>> /\ d = <<g, d[2], d[3]>> /\ c # d
  BY <1>1, <1>4, <1>5
<2>2. t <= d[3] /\ t \in Nat /\ d[3] \in Nat /\ v \in Nat /\ d[2] \in Nat
  BY <1>1, <1>2, <1>4
<2>3. d[3] = t => v <= d[2] /\ v # d[2]
  BY <1>3, <2>1
<2> QED
  BY <2>2, <2>3, <1>4 DEF Before
<1> QED
  BY <1>4, <1>5, Zenon DEF First
-----------------------------------------------------------------------------
(* Fences, windows and the first state.                                     *)

LEMMA Keys ==
    /\ KindFence \in FenceKeys
    /\ \A c \in Checkpoints : Fence(c) \in FenceKeys
    /\ \A g \in Generations : RunFence(g) \in FenceKeys /\ Exhausted(g) \in FenceKeys
  BY DEF FenceKeys

LEMMA PositionKey ==
    ASSUME NEW w \in Locals, Knows(w), w.pc \in AtCheckpoint
    PROVE  PositionOf(w) \in FenceKeys
<1>1. w.c \in Checkpoints /\ w.at \in Nat
  BY DEF Knows, Locals
<1>2. w.c[2] \in Vehicles /\ w.c[3] \in Nat
  BY <1>1, CheckpointIs
<1>3. End(w.c) \in Nat
  BY <1>1, EndIs
<1>4. w.c[2] \in Nat
  BY <1>2, ReplayAssumption DEF Vehicles
<1>5. PositionOf(w) \in {"position"} \X Nat \X Nat \X Nat \X Nat
  BY <1>1, <1>2, <1>3, <1>4 DEF PositionOf
<1> QED
  BY <1>5 DEF FenceKeys

LEMMA TierIs ==
    ASSUME Types, NEW p \in Processes, NEW c, NEW position
    PROVE  Tier(p, c, position) \in 1..Len(Windows)
<1>1. Len(Windows) \in Nat /\ 1 \in 1..Len(Windows)
  BY ReplayAssumption
<1>2. memory[p].tier \in Tiers
  BY DEF Types, Memories
<1>3. PICK D \in SUBSET FenceKeys : memory[p].tier \in [D -> 1..Len(Windows)]
  BY <1>2 DEF Tiers
<1>4. \A key : TierKept(p, key) \in 1..Len(Windows)
  BY <1>1, <1>3 DEF TierKept
<1> QED
  BY <1>4 DEF Tier

LEMMA WindowIs ==
    ASSUME NEW from \in Nat, NEW to \in Nat, from < to, NEW tier \in 1..Len(Windows),
           NEW t \in WindowEnds(from, to, tier)
    PROVE  t \in (from + 1)..to
<1>1. \A i \in 1..Len(Windows) : Windows[i] \in Nat /\ Windows[i] > 0
  BY ReplayAssumption
<1> DEFINE ending(length) == IF from + length < to THEN from + length ELSE to
<1>2. \A n \in Nat : n > 0 => ending(n) \in (from + 1)..to
  OBVIOUS
<1>3. \E i \in 1..Len(Windows) : t = ending(Windows[i])
  BY DEF WindowEnds
<1> QED
  BY <1>1, <1>2, <1>3

LEMMA Resting == Idle \in Locals /\ Forgetful \in Memories
<1>1. Idle \in Locals
  BY ReplayAssumption DEF Idle, Locals, Pcs
<1>2. <<>> \in [{} -> 1..Len(Windows)]
  OBVIOUS
<1>3. <<>> \in Tiers
  BY <1>2 DEF Tiers
<1> QED
  BY <1>1, <1>3 DEF Forgetful, Memories

LEMMA InitInv == Init => IInv
<1> SUFFICES ASSUME Init PROVE IInv
  OBVIOUS
<1>1. Types
<2>1. 1 \in Generations /\ {} \subseteq Instants
  BY ReplayAssumption DEF Generations
<2> QED
  BY <2>1, Resting DEF Init, Types, RunRows, NotCreated
<1>2. RowsSound
  BY DEF Init, RowsSound, InRange, CreatedTogether, Created
<1>3. RunsSound
  BY DEF Init, RunsSound, RunSound
<1>4. WorkersSound
  BY DEF Init, WorkersSound, Knows, Remembers, Idle, Forgetful, Claiming, AtCheckpoint
<1>5. NothingSkipped
  BY DEF Init, NothingSkipped, Created
<1> QED
  BY <1>1, <1>2, <1>3, <1>4, <1>5 DEF IInv
-----------------------------------------------------------------------------
(* What a step must show.                                                   *)

LEMMA LocalStep ==
    ASSUME IInv, NEW p \in Processes, UNCHANGED now,
           NEW w \in Locals, NEW m \in Memories, Knows(w), Remembers(w, m),
           worker' = [worker EXCEPT ![p] = w], memory' = [memory EXCEPT ![p] = m]
    PROVE  /\ worker' \in [Processes -> Locals] /\ memory' \in [Processes -> Memories]
           /\ WorkersSound'
<1>1. worker \in [Processes -> Locals] /\ memory \in [Processes -> Memories]
  BY DEF IInv, Types
<1>2. worker' \in [Processes -> Locals] /\ memory' \in [Processes -> Memories]
  BY <1>1
<1>3. ASSUME NEW q \in Processes PROVE Knows(worker[q])' /\ Remembers(worker[q], memory[q])'
<2>1. CASE q = p
<3>1. worker'[q] = w /\ memory'[q] = m
  BY <1>1, <2>1
<3> QED
  BY <3>1 DEF Knows, Remembers
<2>2. CASE q # p
<3>1. worker'[q] = worker[q] /\ memory'[q] = memory[q]
  BY <1>1, <2>2
<3>2. Knows(worker[q]) /\ Remembers(worker[q], memory[q])
  BY DEF IInv, WorkersSound
<3> QED
  BY <3>1, <3>2 DEF Knows, Remembers
<2> QED
  BY <2>1, <2>2
<1> QED
  BY <1>2, <1>3 DEF WorkersSound

LEMMA SameMemory ==
    ASSUME Types, NEW p \in Processes, UNCHANGED memory
    PROVE  memory' = [memory EXCEPT ![p] = memory[p]] /\ memory[p] \in Memories
  BY DEF Types

LEMMA GotoStep ==
    ASSUME IInv, NEW p \in Processes, NEW pc \in Pcs, UNCHANGED <<now, memory>>, Goto(p, pc),
           Knows([worker[p] EXCEPT !.pc = pc]),
           worker[p].pc \notin {"idle", "release"}
    PROVE  /\ worker' \in [Processes -> Locals] /\ memory' \in [Processes -> Memories]
           /\ WorkersSound'
<1> DEFINE w == [worker[p] EXCEPT !.pc = pc]
<1>1. worker[p] \in Locals
  BY DEF IInv, Types
<1>2. w \in Locals
  BY <1>1 DEF Locals
<1>3. memory' = [memory EXCEPT ![p] = memory[p]] /\ memory[p] \in Memories
  BY SameMemory DEF IInv
<1>4. Remembers(worker[p], memory[p])
  BY DEF IInv, WorkersSound
<1>5. Remembers(w, memory[p])
  BY <1>4 DEF Remembers
<1>6. worker' = [worker EXCEPT ![p] = w]
  BY DEF Goto
<1> HIDE DEF w
<1> QED
  BY <1>2, <1>3, <1>5, <1>6, LocalStep DEF w

\* Nothing happens to the rows of the checkpoints.
LEMMA RowsKept ==
    ASSUME IInv, UNCHANGED <<next, replayed>>, now' = now \/ (now < GenCount /\ now' = now + 1)
    PROVE  RowsSound' /\ NothingSkipped'
<1>1. now \in Nat /\ now' \in Nat /\ now <= now'
  BY ReplayAssumption DEF IInv, Types, Generations
<1>2. Floor(now) \in Nat /\ Floor(now') \in Nat /\ Floor(now) <= Floor(now')
  BY <1>1, FloorMonotone
<1>3. RowsSound'
  BY DEF IInv, RowsSound, InRange, CreatedTogether, Created
<1>4. ASSUME NEW c \in Checkpoints, Created(c)', NEW t \in c[3]..(next'[c] - 1)
      PROVE  t \in replayed'[c[1]][c[2]] \/ t < Floor(now')
<2>1. t \in replayed[c[1]][c[2]] \/ t < Floor(now)
  BY <1>4 DEF IInv, NothingSkipped, Created
<2>2. t \in Int
  BY CheckpointIs DEF IInv, Types
<2> QED
  BY <1>2, <2>1, <2>2
<1>5. Floor(now') = Floor(now)'
  OBVIOUS
<1>6. NothingSkipped'
  BY <1>4, <1>5 DEF NothingSkipped, Created
<1> QED
  BY <1>3, <1>6

LEMMA RunsKept ==
    ASSUME IInv, UNCHANGED <<run, next>>
    PROVE  RunsSound'
  BY DEF IInv, RunsSound, RunSound, Rows, Incomplete, Created, Done

\* A step on the checkpoints leaves those of completed generations alone.
LEMMA CompletedKept ==
    ASSUME IInv, UNCHANGED run,
           \A c \in Checkpoints : run[c[1]].status = "COMPLETED" => next'[c] = next[c]
    PROVE  RunsSound'
<1> SUFFICES ASSUME NEW g \in Generations PROVE RunSound(g)'
  BY DEF RunsSound
<1>1. RunSound(g)
  BY DEF IInv, RunsSound
<1>2. ASSUME run[g].status = "COMPLETED"
      PROVE  \A c \in Checkpoints : c[1] = g => next'[c] = next[c]
  BY <1>2
<1>3. ASSUME run[g].status = "COMPLETED" PROVE Rows(g)' = Rows(g) /\ Incomplete(g)' = Incomplete(g)
<2>1. Rows(g)' = Rows(g)
  BY <1>2, <1>3 DEF Rows, Created
<2> QED
  BY <2>1, <1>2, <1>3 DEF Incomplete, Done, Rows
<1> QED
  BY <1>1, <1>3 DEF RunSound

\* A run that no one completes with this step.
LEMMA RunsOpen ==
    ASSUME IInv, UNCHANGED next, NEW g \in Generations, NEW r \in RunRows,
           run' = [run EXCEPT ![g] = r], r.lease => r.status = "RUNNING",
           r.status = "COMPLETED" => Rows(g) # {} /\ Incomplete(g) = {}
    PROVE  run' \in [Generations -> RunRows] /\ RunsSound'
<1>1. run' \in [Generations -> RunRows] /\ \A h \in Generations : run'[h] = IF h = g THEN r ELSE run[h]
  BY DEF IInv, Types
<1>2. \A h : Rows(h)' = Rows(h) /\ Incomplete(h)' = Incomplete(h)
  BY DEF Rows, Incomplete, Created, Done
<1>3. ASSUME NEW h \in Generations PROVE RunSound(h)'
<2>1. RunSound(h)
  BY DEF IInv, RunsSound
<2> QED
  BY <1>1, <1>2, <2>1 DEF RunSound
<1> QED
  BY <1>1, <1>3 DEF RunsSound

LEMMA Here ==
    ASSUME IInv, NEW p \in Processes
    PROVE  /\ worker[p] \in Locals /\ memory[p] \in Memories
           /\ Knows(worker[p]) /\ Remembers(worker[p], memory[p])
  BY DEF IInv, Types, WorkersSound

LEMMA Stutter == ASSUME IInv, UNCHANGED vars PROVE IInv'
<1>1. Types'
  BY DEF IInv, Types, vars, rows
<1>2. RowsSound' /\ NothingSkipped' /\ RunsSound'
  BY RowsKept, RunsKept DEF vars, rows
<1>3. WorkersSound'
  BY DEF IInv, WorkersSound, Knows, Remembers, vars
<1> QED
  BY <1>1, <1>2, <1>3 DEF IInv
-----------------------------------------------------------------------------
(* A quantum: the run.                                                      *)

LEMMA StartStep == ASSUME IInv, NEW p \in Processes, Start(p) PROVE IInv'
<1> DEFINE w == [Idle EXCEPT !.pc = "ensure", !.now = now, !.fleet = Vehicles \ disabled]
           m == [memory[p] EXCEPT !.fresh = {}]
<1>1. memory[p] \in Memories
  BY Here
<1>2. w \in Locals
<2>1. now \in 0..GenCount
  BY ReplayAssumption DEF IInv, Types, Generations
<2>2. Vehicles \ disabled \in SUBSET Vehicles
  OBVIOUS
<2> QED
  BY <2>1, <2>2, Resting DEF Locals, Pcs
<1>3. m \in Memories
  BY <1>1 DEF Memories
<1>4. now \in 1..now
  BY ReplayAssumption DEF IInv, Types, Generations
<1>5. Knows(w)
  BY <1>4 DEF Knows, Idle, Claiming, AtCheckpoint
<1>6. Remembers(w, m)
  BY <1>1 DEF Remembers, Memories
<1>7. worker' = [worker EXCEPT ![p] = w] /\ memory' = [memory EXCEPT ![p] = m] /\ UNCHANGED now
  BY DEF Start
<1> HIDE DEF w, m
<1>8. /\ worker' \in [Processes -> Locals] /\ memory' \in [Processes -> Memories]
      /\ WorkersSound'
  BY <1>2, <1>3, <1>5, <1>6, <1>7, LocalStep
<1>9. Types'
  BY <1>8 DEF IInv, Types, Start, rows
<1>10. RowsSound' /\ NothingSkipped' /\ RunsSound'
  BY RowsKept, RunsKept DEF Start, rows
<1> QED
  BY <1>8, <1>9, <1>10 DEF IInv

LEMMA EnsureRunStep == ASSUME IInv, NEW p \in Processes, EnsureRun(p) PROVE IInv'
<1> DEFINE w == worker[p]
           r == [run[w.now] EXCEPT !.status = "PENDING"]
<1>1. w \in Locals /\ Knows(w) /\ w.pc = "ensure"
  BY Here DEF EnsureRun
<1>2. w.now \in Generations
  BY <1>1, ReplayAssumption DEF Knows, IInv, Types, Generations
<1>3. Knows([w EXCEPT !.pc = "find"])
  BY <1>1 DEF Knows, Locals, Claiming, AtCheckpoint
<1>4. "find" \in Pcs /\ Goto(p, "find") /\ UNCHANGED <<now, memory>>
  BY DEF Pcs, EnsureRun
<1>5. /\ worker' \in [Processes -> Locals] /\ memory' \in [Processes -> Memories]
      /\ WorkersSound'
  BY <1>1, <1>3, <1>4, GotoStep
<1>6. run' \in [Generations -> RunRows] /\ RunsSound'
<2>1. CASE w.fleet # {} /\ run[w.now].status = "NONE"
<3>1. run[w.now] \in RunRows /\ RunSound(w.now)
  BY <1>2 DEF IInv, Types, RunsSound
<3>2. r \in RunRows /\ ~r.lease /\ r.status = "PENDING"
  BY <2>1, <3>1 DEF RunRows, RunSound
<3>3. run' = [run EXCEPT ![w.now] = r] /\ UNCHANGED next
  BY <2>1, <1>2 DEF EnsureRun, IInv, Types
<3> HIDE DEF r
<3> QED
  BY <1>2, <3>2, <3>3, RunsOpen
<2>2. CASE ~(w.fleet # {} /\ run[w.now].status = "NONE")
<3>1. UNCHANGED <<run, next>>
  BY <2>2 DEF EnsureRun
<3> QED
  BY <3>1, RunsKept DEF IInv, Types
<2> QED
  BY <2>1, <2>2
<1>7. Types'
  BY <1>5, <1>6 DEF IInv, Types, EnsureRun
<1>8. RowsSound' /\ NothingSkipped'
  BY RowsKept DEF EnsureRun
<1> QED
  BY <1>5, <1>6, <1>7, <1>8 DEF IInv

LEMMA FindStep == ASSUME IInv, NEW p \in Processes, Find(p) PROVE IInv'
<1> DEFINE w == worker[p]
           C == Candidates(p)
           s == [w EXCEPT !.pc = "release"]
           t == [w EXCEPT !.pc = "count", !.gen = Least(C)]
<1>1. w \in Locals /\ Knows(w) /\ w.pc = "find" /\ Remembers(w, memory[p])
  BY Here DEF Find
<1>2. C # {} => Least(C) \in Generations /\ Least(C) \in 0..GenCount
<2>1. C \subseteq Nat /\ C \subseteq Generations
  BY ReplayAssumption DEF Candidates, Listed, Generations
<2>2. ASSUME C # {} PROVE Least(C) \in Generations
  BY <2>1, <2>2, LeastIn
<2> QED
  BY <2>2, ReplayAssumption DEF Generations
<1>3. \/ worker' = [worker EXCEPT ![p] = s]
      \/ worker' = [worker EXCEPT ![p] = t] /\ C # {}
  BY <1>1 DEF Find
<1>4. PICK u : worker' = [worker EXCEPT ![p] = u] /\ (u = s \/ (u = t /\ C # {}))
  BY <1>3
<1>5. u \in Locals
  BY <1>1, <1>2, <1>4 DEF Locals, Pcs
<1>6. Knows(u)
  BY <1>1, <1>2, <1>4 DEF Knows, Locals, Claiming, AtCheckpoint
<1>7. Remembers(u, memory[p])
  BY <1>1, <1>4 DEF Remembers, Locals
<1>8. /\ memory' = [memory EXCEPT ![p] = memory[p]] /\ memory[p] \in Memories
      /\ UNCHANGED now
  BY SameMemory DEF IInv, Find
<1>9. /\ worker' \in [Processes -> Locals] /\ memory' \in [Processes -> Memories]
      /\ WorkersSound'
  BY <1>4, <1>5, <1>6, <1>7, <1>8, LocalStep
<1>10. Types'
  BY <1>9 DEF IInv, Types, Find, rows
<1>11. RowsSound' /\ NothingSkipped' /\ RunsSound'
  BY RowsKept, RunsKept DEF Find, rows
<1> QED
  BY <1>9, <1>10, <1>11 DEF IInv

LEMMA CountCheckpointsStep == ASSUME IInv, NEW p \in Processes, CountCheckpoints(p) PROVE IInv'
<1>1. worker[p] \in Locals /\ Knows(worker[p]) /\ worker[p].pc = "count"
  BY Here DEF CountCheckpoints
<1>2. PICK pc \in {"claim", "release", "create"} : Goto(p, pc)
  BY DEF CountCheckpoints
<1>3. Knows([worker[p] EXCEPT !.pc = pc])
  BY <1>1, <1>2 DEF Knows, Locals, Claiming, AtCheckpoint
<1>4. pc \in Pcs /\ UNCHANGED <<now, memory>>
  BY DEF Pcs, CountCheckpoints
<1>5. /\ worker' \in [Processes -> Locals] /\ memory' \in [Processes -> Memories]
      /\ WorkersSound'
  BY <1>1, <1>2, <1>3, <1>4, GotoStep
<1>6. Types'
  BY <1>5 DEF IInv, Types, CountCheckpoints, rows
<1>7. RowsSound' /\ NothingSkipped' /\ RunsSound'
  BY RowsKept, RunsKept DEF CountCheckpoints, rows
<1> QED
  BY <1>5, <1>6, <1>7 DEF IInv

LEMMA EnsureCheckpointsStep == ASSUME IInv, NEW p \in Processes, EnsureCheckpoints(p) PROVE IInv'
<1> DEFINE g == worker[p].gen
           fleet == worker[p].fleet
<1>1. worker[p] \in Locals /\ Knows(worker[p]) /\ worker[p].pc = "create"
  BY Here DEF EnsureCheckpoints
<1>2. g \in Generations /\ fleet \in SUBSET Vehicles
  BY <1>1 DEF Knows, Claiming, Locals
<1>3. PICK pc \in {"throw", "claim"} : Goto(p, pc)
  BY DEF EnsureCheckpoints
<1>4. Knows([worker[p] EXCEPT !.pc = pc])
  BY <1>1, <1>3 DEF Knows, Locals, Claiming, AtCheckpoint
<1>5. pc \in Pcs /\ UNCHANGED <<now, memory>>
  BY DEF Pcs, EnsureCheckpoints
<1>6. /\ worker' \in [Processes -> Locals] /\ memory' \in [Processes -> Memories]
      /\ WorkersSound'
  BY <1>1, <1>3, <1>4, <1>5, GotoStep
<1>7. CASE Refused(g, fleet)
<2>1. UNCHANGED <<now, disabled, run, next, replayed, lock, bounds>>
  BY <1>7 DEF EnsureCheckpoints
<2>2. Types'
  BY <1>6, <2>1 DEF IInv, Types
<2>3. RowsSound' /\ NothingSkipped' /\ RunsSound'
  BY <2>1, RowsKept, RunsKept
<2> QED
  BY <1>6, <2>2, <2>3 DEF IInv
<1>8. CASE ~Refused(g, fleet)
<2>1. next' = [c \in Checkpoints |->
          IF c \in CheckpointsOf(g, fleet) /\ ~Created(c) THEN c[3] ELSE next[c]]
  BY <1>8 DEF EnsureCheckpoints
<2>2. UNCHANGED <<now, disabled, run, replayed, lock, bounds>>
  BY <1>8 DEF EnsureCheckpoints
<2>3. \A c \in Checkpoints : /\ next'[c] = next[c] \/ (~Created(c) /\ next'[c] = c[3])
                             /\ Created(c) => next'[c] = next[c]
                             /\ Created(c)' <=> Created(c) \/ (c[1] = g /\ c[2] \in fleet)
<3>1. ASSUME NEW c \in Checkpoints
      PROVE  /\ next'[c] = next[c] \/ (~Created(c) /\ next'[c] = c[3])
             /\ Created(c) => next'[c] = next[c]
             /\ Created(c)' <=> Created(c) \/ (c[1] = g /\ c[2] \in fleet)
<4>1. c \in CheckpointsOf(g, fleet) <=> c[1] = g /\ c[2] \in fleet
  BY <1>2, CheckpointsOfFleet
<4>2. next'[c] = IF c \in CheckpointsOf(g, fleet) /\ ~Created(c) THEN c[3] ELSE next[c]
  BY <2>1
<4>3. c[3] \in Nat /\ c[3] > 0
  BY CheckpointIs
<4> HIDE DEF g, fleet
<4> QED
  BY <4>1, <4>2, <4>3 DEF Created, NotCreated
<3> QED
  BY <3>1
<2>4. Types'
<3>1. \A c \in Checkpoints : c[3] \in Nat
  BY CheckpointIs
<3>2. next' \in [Checkpoints -> Nat]
  BY <2>1, <3>1 DEF IInv, Types
<3> QED
  BY <1>6, <2>2, <3>2 DEF IInv, Types
<2>5. ASSUME NEW c \in Checkpoints PROVE InRange(c)' /\ CreatedTogether(c)'
<3>1. InRange(c) /\ CreatedTogether(c)
  BY DEF IInv, RowsSound
<3>2. c[3] \in c[3]..End(c)
  BY CheckpointIs, EndIs
<3>3. InRange(c)'
  BY <2>3, <3>1, <3>2 DEF InRange
<3>4. CreatedTogether(c)'
  BY <2>3, <3>1 DEF CreatedTogether
<3> QED
  BY <3>3, <3>4
<2>6. ASSUME NEW c \in Checkpoints, run[c[1]].status = "COMPLETED" PROVE next'[c] = next[c]
<3>1. c[1] = g /\ c \in CheckpointsOf(g, fleet) => Created(c)
  BY <1>8, <2>6 DEF Refused
<3>2. c \in CheckpointsOf(g, fleet) <=> c[1] = g /\ c[2] \in fleet
  BY <1>2, CheckpointsOfFleet
<3> HIDE DEF g, fleet
<3>3. next'[c] = IF c \in CheckpointsOf(g, fleet) /\ ~Created(c) THEN c[3] ELSE next[c]
  BY <2>1
<3> QED
  BY <3>1, <3>2, <3>3
<2>7. RunsSound'
  BY <2>2, <2>6, CompletedKept
<2>8. ASSUME NEW c \in Checkpoints, Created(c)', NEW t \in c[3]..(next'[c] - 1)
      PROVE  t \in replayed'[c[1]][c[2]] \/ t < Floor(now)'
<3>1. CASE Created(c)
  BY <2>2, <2>3, <2>8, <3>1 DEF IInv, NothingSkipped, Floor
<3>2. CASE ~Created(c)
<4>1. next'[c] = c[3]
  BY <2>3, <2>8, <3>2 DEF Created
<4>2. c[3] \in Nat
  BY CheckpointIs
<4> QED
  BY <2>8, <4>1, <4>2
<3> QED
  BY <3>1, <3>2
<2>9. NothingSkipped'
  BY <2>8 DEF NothingSkipped, Created
<2> QED
  BY <1>6, <2>4, <2>5, <2>7, <2>9 DEF IInv, RowsSound
<1> QED
  BY <1>7, <1>8

LEMMA ClaimStep == ASSUME IInv, NEW p \in Processes, Claim(p) PROVE IInv'
<1> DEFINE g == worker[p].gen
           r == [status |-> "RUNNING", owner |-> p, lease |-> TRUE]
<1>1. worker[p] \in Locals /\ Knows(worker[p]) /\ worker[p].pc = "claim"
  BY Here DEF Claim
<1>2. g \in Generations
  BY <1>1 DEF Knows, Claiming
<1>3. PICK pc \in {"list", "release"} : Goto(p, pc)
  BY DEF Claim
<1>4. Knows([worker[p] EXCEPT !.pc = pc])
  BY <1>1, <1>3 DEF Knows, Locals, Claiming, AtCheckpoint
<1>5. pc \in Pcs /\ UNCHANGED <<now, memory>>
  BY DEF Pcs, Claim
<1>6. /\ worker' \in [Processes -> Locals] /\ memory' \in [Processes -> Memories]
      /\ WorkersSound'
  BY <1>1, <1>3, <1>4, <1>5, GotoStep
<1>7. run' \in [Generations -> RunRows] /\ RunsSound'
<2>1. CASE Claimable(g)
<3>1. run' = [run EXCEPT ![g] = r] /\ UNCHANGED next
  BY <2>1 DEF Claim
<3>2. r \in RunRows /\ r.status = "RUNNING"
  BY DEF RunRows
<3> HIDE DEF r
<3> QED
  BY <1>2, <3>1, <3>2, RunsOpen
<2>2. CASE ~Claimable(g)
  BY <2>2, RunsKept DEF Claim, IInv, Types
<2> QED
  BY <2>1, <2>2
<1>8. Types'
  BY <1>6, <1>7 DEF IInv, Types, Claim
<1>9. RowsSound' /\ NothingSkipped'
  BY RowsKept DEF Claim
<1> QED
  BY <1>6, <1>7, <1>8, <1>9 DEF IInv
-----------------------------------------------------------------------------
(* A quantum: the window.                                                   *)

LEMMA ListStep == ASSUME IInv, NEW p \in Processes, List(p) PROVE IInv'
<1> DEFINE w == worker[p]
           g == w.gen
           R == Ready(p, g)
           c == First(R)
           whole == [w EXCEPT !.pc = "complete"]
           held == [w EXCEPT !.pc = "yield", !.fences = {Exhausted(g)}]
           chosen == [w EXCEPT !.c = c, !.at = next[c],
                               !.pc = IF next[c] < Floor(w.now) THEN "retire" ELSE "vehicle"]
           m == [memory[p] EXCEPT !.fences = @ \ {Exhausted(g)}, !.fresh = @ \ {Exhausted(g)}]
<1>1. /\ w \in Locals /\ memory[p] \in Memories /\ Knows(w) /\ Remembers(w, memory[p])
      /\ w.pc = "list"
  BY Here DEF List
<1>2. g \in Generations /\ w.now \in 1..now
  BY <1>1 DEF Knows, Claiming
<1>3. R \subseteq Checkpoints /\ \A d \in R : d[1] = g /\ d \in Incomplete(g)
  BY DEF Ready, Incomplete, Rows
<1>4. ASSUME R # {}
      PROVE  /\ c \in Checkpoints /\ c[1] = g /\ next[c] \in Nat
             /\ next[c] \in c[3]..(End(c) - 1)
<2>1. c \in R
  BY <1>3, <1>4, FirstIn
<2>2. c \in Checkpoints /\ c[1] = g /\ c \in Incomplete(g)
  BY <2>1, <1>3
<2> HIDE DEF c
<2>3. Created(c) /\ ~Done(c) /\ InRange(c) /\ next[c] \in Nat
  BY <2>2 DEF Incomplete, Rows, IInv, RowsSound, Types
<2>4. next[c] \in c[3]..End(c) /\ next[c] # End(c) /\ End(c) \in Nat /\ c[3] \in Nat
  BY <2>2, <2>3, CheckpointIs, EndIs DEF Created, Done, InRange
<2> QED
  BY <2>2, <2>3, <2>4
<1>5. PICK u : worker' = [worker EXCEPT ![p] = u]
               /\ (u = whole \/ u = held \/ (u = chosen /\ R # {}))
<2>1. CASE Incomplete(g) = {}
  BY <2>1 DEF List
<2>2. CASE Incomplete(g) # {} /\ R = {}
  BY <2>2 DEF List
<2>3. CASE Incomplete(g) # {} /\ R # {}
  BY <2>3 DEF List
<2> QED
  BY <2>1, <2>2, <2>3
<1>6. PICK n \in {memory[p], m} : memory' = [memory EXCEPT ![p] = n]
<2>1. CASE R = {}
  BY <2>1, SameMemory DEF List, IInv
<2>2. CASE R # {}
<3>1. memory' = [memory EXCEPT ![p].fences = @ \ {Exhausted(g)}, ![p].fresh = @ \ {Exhausted(g)}]
  BY <2>2 DEF List
<3>2. memory' = [memory EXCEPT ![p] = m]
  BY <3>1, <1>1 DEF IInv, Types, Memories
<3> QED
  BY <3>2
<2> QED
  BY <2>1, <2>2
<1>7. u \in Locals
<2>1. whole \in Locals
  BY <1>1 DEF Locals, Pcs
<2>2. held \in Locals
  BY <1>1, <1>2, Keys DEF Locals, Pcs
<2>3. R # {} => chosen \in Locals
<3> HIDE DEF c, R, w
<3> QED
  BY <1>1, <1>4 DEF Locals, Pcs
<2> QED
  BY <2>1, <2>2, <2>3, <1>5
<1>8. Knows(u)
<2>1. Knows(whole)
  BY <1>1 DEF Knows, Locals, Claiming, AtCheckpoint
<2>2. Knows(held)
  BY <1>1 DEF Knows, Locals, Claiming, AtCheckpoint
<2>3. ASSUME R # {} PROVE Knows(chosen)
<3>1. /\ chosen.c = c /\ chosen.at = next[c] /\ chosen.gen = g /\ chosen.now = w.now
      /\ chosen.pc = IF next[c] < Floor(w.now) THEN "retire" ELSE "vehicle"
  BY <1>1 DEF Locals
<3> HIDE DEF chosen, c, R, w, g
<3> QED
  BY <3>1, <1>2, <1>4, <2>3 DEF Knows, Claiming, AtCheckpoint
<2> QED
  BY <2>1, <2>2, <2>3, <1>5
<1>9. n \in Memories /\ n.fresh = {}
<2>1. memory[p].fresh = {}
  BY <1>1 DEF Remembers
<2>2. m \in Memories /\ m.fresh = {}
  BY <1>1, <2>1 DEF Memories
<2> QED
  BY <1>1, <1>6, <2>1, <2>2
<1>10. Remembers(u, n)
  BY <1>9 DEF Remembers
<1>11. /\ worker' \in [Processes -> Locals] /\ memory' \in [Processes -> Memories]
       /\ WorkersSound'
  BY <1>5, <1>6, <1>7, <1>8, <1>9, <1>10, LocalStep DEF List
<1>12. Types'
  BY <1>11 DEF IInv, Types, List, rows
<1>13. RowsSound' /\ NothingSkipped' /\ RunsSound'
  BY RowsKept, RunsKept DEF List, rows
<1> QED
  BY <1>11, <1>12, <1>13 DEF IInv

LEMMA MovableIs ==
    ASSUME IInv, NEW p \in Processes, worker[p].pc \in AtCheckpoint
    PROVE  LET w == worker[p] IN
           /\ w.c \in Checkpoints /\ w.gen \in Generations /\ w.c[1] = w.gen
           /\ w.at \in Nat /\ w.to \in Nat /\ End(w.c) \in Nat /\ w.c[3] \in Nat
           /\ w.c[3] <= w.at /\ w.at < End(w.c)
           /\ Movable(p) => next[w.c] = w.at /\ run[w.gen].status = "RUNNING" /\ Created(w.c)
<1> DEFINE w == worker[p]
<1>1. w \in Locals /\ Knows(w)
  BY Here
<1>2. w.c \in Checkpoints /\ w.c[1] = w.gen /\ w.at \in w.c[3]..(End(w.c) - 1)
  BY <1>1 DEF Knows
<1>3. w.gen \in Generations
  BY <1>1 DEF Knows, Claiming
<1>4. w.c[3] \in Nat /\ w.c[3] > 0 /\ End(w.c) \in Nat
  BY <1>2, CheckpointIs, EndIs
<1>5. w.at \in Nat /\ w.to \in Nat
  BY <1>1 DEF Locals
<1>6. w.at # 0
  BY <1>2, <1>4, <1>5
<1> QED
  BY <1>2, <1>3, <1>4, <1>5, <1>6 DEF Movable, Owned, Created, NotCreated

\* The only ways a checkpoint moves: over what was stored, or what the floor
\* has retired, and within its range.
LEMMA MoveOne ==
    ASSUME IInv, NEW c \in Checkpoints, Created(c), run[c[1]].status = "RUNNING",
           NEW n \in Nat, next[c] <= n, n <= End(c), next' = [next EXCEPT ![c] = n],
           UNCHANGED <<now, run>>,
           \A d \in Checkpoints : replayed[d[1]][d[2]] \subseteq replayed'[d[1]][d[2]],
           \A t \in next[c]..(n - 1) : t \in replayed'[c[1]][c[2]] \/ t < Floor(now)
    PROVE  next' \in [Checkpoints -> Nat] /\ RowsSound' /\ RunsSound' /\ NothingSkipped'
<1>1. next \in [Checkpoints -> Nat] /\ InRange(c) /\ next[c] # 0
  BY DEF IInv, Types, RowsSound, Created, NotCreated
<1>2. /\ next' \in [Checkpoints -> Nat] /\ next'[c] = n
      /\ \A d \in Checkpoints \ {c} : next'[d] = next[d]
  BY <1>1
<1>3. c[3] \in Nat /\ End(c) \in Nat /\ c[3] <= next[c] /\ next[c] \in Nat
  BY <1>1, CheckpointIs, EndIs DEF InRange, NotCreated
<1>4. n # 0 /\ n \in c[3]..End(c)
  BY <1>1, <1>3
<1>5. \A d \in Checkpoints : Created(d)' <=> Created(d)
  BY <1>1, <1>2, <1>4 DEF Created, NotCreated
<1>6. ASSUME NEW d \in Checkpoints PROVE InRange(d)' /\ CreatedTogether(d)'
<2>1. InRange(d) /\ CreatedTogether(d)
  BY DEF IInv, RowsSound
<2>2. InRange(d)'
  BY <1>2, <1>4, <2>1 DEF InRange
<2>3. CreatedTogether(d)'
  BY <1>5, <2>1 DEF CreatedTogether
<2> QED
  BY <2>2, <2>3
<1>7. RunsSound'
  BY <1>2, CompletedKept
<1>8. ASSUME NEW d \in Checkpoints, Created(d)', NEW t \in d[3]..(next'[d] - 1)
      PROVE  t \in replayed'[d[1]][d[2]] \/ t < Floor(now)'
<2>1. t \in d[3]..(next[d] - 1) => t \in replayed[d[1]][d[2]] \/ t < Floor(now)
  BY <1>5, <1>8 DEF IInv, NothingSkipped
<2>2. replayed[d[1]][d[2]] \subseteq replayed'[d[1]][d[2]] /\ Floor(now)' = Floor(now)
  BY DEF Floor
<2>3. CASE d # c
  BY <1>2, <1>8, <2>1, <2>2, <2>3
<2>4. CASE d = c
<3>1. t \in c[3]..(next[c] - 1) \/ t \in next[c]..(n - 1)
  BY <1>2, <1>3, <1>8, <2>4
<3> QED
  BY <2>1, <2>2, <2>4, <3>1
<2> QED
  BY <2>3, <2>4
<1>9. NothingSkipped'
  BY <1>8 DEF NothingSkipped, Created
<1> QED
  BY <1>2, <1>6, <1>7, <1>9 DEF RowsSound

\* The prefix a worker retires is below the floor it read, which has only risen.
LEMMA RetireStep == ASSUME IInv, NEW p \in Processes, Retire(p) PROVE IInv'
<1> DEFINE w == worker[p]
           c == w.c
           n == IF Floor(w.now) < End(c) THEN Floor(w.now) ELSE End(c)
<1>1. w \in Locals /\ Knows(w) /\ w.pc = "retire" /\ w.pc \in AtCheckpoint
  BY Here DEF Retire, AtCheckpoint
<1>2. /\ c \in Checkpoints /\ c[1] = w.gen /\ w.at \in Nat /\ End(c) \in Nat /\ w.at < End(c)
      /\ Movable(p) => next[c] = w.at /\ run[w.gen].status = "RUNNING" /\ Created(c)
  BY <1>1, MovableIs
<1>3. /\ Floor(w.now) \in Nat /\ Floor(now) \in Nat /\ Floor(w.now) <= Floor(now)
      /\ w.at < Floor(w.now)
<2>1. w.now \in Nat /\ now \in Nat /\ w.now <= now
  BY <1>1, ReplayAssumption DEF Knows, IInv, Types, Generations
<2> QED
  BY <1>1, <2>1, FloorMonotone DEF Knows
<1>4. n \in Nat /\ w.at <= n /\ n <= End(c) /\ n <= Floor(now)
  BY <1>2, <1>3
<1>5. PICK pc \in {"remain", "throw"} : Goto(p, pc)
  BY DEF Retire
<1>6. Knows([w EXCEPT !.pc = pc])
  BY <1>1, <1>5 DEF Knows, Locals, Claiming, AtCheckpoint
<1>7. pc \in Pcs /\ UNCHANGED <<now, disabled, run, replayed, lock, memory, bounds>>
  BY DEF Pcs, Retire
<1>8. /\ worker' \in [Processes -> Locals] /\ memory' \in [Processes -> Memories]
      /\ WorkersSound'
  BY <1>1, <1>5, <1>6, <1>7, GotoStep
<1>9. next' \in [Checkpoints -> Nat] /\ RowsSound' /\ RunsSound' /\ NothingSkipped'
<2>1. CASE Movable(p)
<3>1. next' = [next EXCEPT ![c] = n]
  BY <2>1 DEF Retire
<3>2. next[c] = w.at /\ run[c[1]].status = "RUNNING" /\ Created(c)
  BY <1>2, <2>1
<3>3. \A t \in next[c]..(n - 1) : t < Floor(now)
  BY <1>2, <1>3, <1>4, <3>2
<3>4. \A d \in Checkpoints : replayed[d[1]][d[2]] \subseteq replayed'[d[1]][d[2]]
  BY <1>7
<3> HIDE DEF n, c
<3> QED
  BY <1>2, <1>4, <1>7, <3>1, <3>2, <3>3, <3>4, MoveOne
<2>2. CASE ~Movable(p)
  BY <2>2, <1>7, RowsKept, RunsKept DEF Retire, IInv, Types
<2> QED
  BY <2>1, <2>2
<1>10. Types'
  BY <1>7, <1>8, <1>9 DEF IInv, Types
<1> QED
  BY <1>8, <1>9, <1>10 DEF IInv

LEMMA FindVehicleStep == ASSUME IInv, NEW p \in Processes, FindVehicle(p) PROVE IInv'
<1> DEFINE w == worker[p]
           held == [w EXCEPT !.pc = "yield", !.fences = {Fence(w.c)}]
           found == [w EXCEPT !.pc = "read"]
<1>1. /\ w \in Locals /\ Knows(w) /\ w.pc = "vehicle" /\ w.pc \in AtCheckpoint
      /\ Remembers(w, memory[p])
  BY Here DEF FindVehicle, AtCheckpoint
<1>2. w.c \in Checkpoints
  BY <1>1, MovableIs
<1>3. PICK u \in {held, found} : worker' = [worker EXCEPT ![p] = u]
  BY <1>1 DEF FindVehicle
<1>4. u \in Locals
<2>1. held \in Locals
  BY <1>1, <1>2, Keys DEF Locals, Pcs
<2>2. found \in Locals
  BY <1>1 DEF Locals, Pcs
<2> QED
  BY <2>1, <2>2
<1>5. Knows(u)
<2>1. Knows(held)
  BY <1>1 DEF Knows, Locals, Claiming, AtCheckpoint
<2>2. Knows(found)
  BY <1>1 DEF Knows, Locals, Claiming, AtCheckpoint
<2> QED
  BY <2>1, <2>2
<1>6. Remembers(u, memory[p])
  BY <1>1 DEF Remembers
<1>7. memory' = [memory EXCEPT ![p] = memory[p]] /\ memory[p] \in Memories /\ UNCHANGED now
  BY SameMemory DEF IInv, FindVehicle
<1>8. /\ worker' \in [Processes -> Locals] /\ memory' \in [Processes -> Memories]
      /\ WorkersSound'
  BY <1>3, <1>4, <1>5, <1>6, <1>7, LocalStep
<1>9. Types'
  BY <1>8 DEF IInv, Types, FindVehicle, rows
<1>10. RowsSound' /\ NothingSkipped' /\ RunsSound'
  BY RowsKept, RunsKept DEF FindVehicle, rows
<1> QED
  BY <1>8, <1>9, <1>10 DEF IInv

LEMMA ReadStep == ASSUME IInv, NEW p \in Processes, Read(p) PROVE IInv'
<1> DEFINE w == worker[p]
<1>1. /\ w \in Locals /\ Knows(w) /\ w.pc = "read" /\ w.pc \in AtCheckpoint
      /\ Remembers(w, memory[p])
  BY Here DEF Read, AtCheckpoint
<1>2. /\ w.c \in Checkpoints /\ w.c[1] = w.gen /\ w.at \in Nat /\ End(w.c) \in Nat
      /\ w.c[3] \in Nat /\ w.c[3] <= w.at /\ w.at < End(w.c)
  BY <1>1, MovableIs
<1>3. PICK to \in WindowEnds(w.at, End(w.c), Tier(p, w.c, PositionOf(w))) :
          worker' = [worker EXCEPT ![p].pc = "persist", ![p].to = to]
  BY DEF Read
<1>4. to \in (w.at + 1)..End(w.c)
<2>1. Tier(p, w.c, PositionOf(w)) \in 1..Len(Windows)
  BY TierIs DEF IInv
<2> QED
  BY <1>2, <1>3, <2>1, WindowIs
<1> DEFINE u == [w EXCEPT !.pc = "persist", !.to = to]
<1>5. worker' = [worker EXCEPT ![p] = u]
  BY <1>1, <1>3 DEF IInv, Types
<1>6. u \in Locals
<2>1. to \in Nat
  BY <1>2, <1>4
<2> QED
  BY <1>1, <2>1 DEF Locals, Pcs
<1>7. Knows(u)
<2>1. u.pc = "persist" /\ u.gen = w.gen /\ u.c = w.c /\ u.at = w.at /\ u.to = to /\ u.now = w.now
  BY <1>1 DEF Locals
<2> HIDE DEF u
<2> QED
  BY <1>1, <1>4, <2>1 DEF Knows, Claiming, AtCheckpoint
<1>8. Remembers(u, memory[p])
  BY <1>1 DEF Remembers
<1>9. memory' = [memory EXCEPT ![p] = memory[p]] /\ memory[p] \in Memories /\ UNCHANGED now
  BY SameMemory DEF IInv, Read
<1> HIDE DEF u
<1>10. /\ worker' \in [Processes -> Locals] /\ memory' \in [Processes -> Memories]
       /\ WorkersSound'
  BY <1>5, <1>6, <1>7, <1>8, <1>9, LocalStep
<1>11. Types'
  BY <1>10 DEF IInv, Types, Read, rows
<1>12. RowsSound' /\ NothingSkipped' /\ RunsSound'
  BY RowsKept, RunsKept DEF Read, rows
<1> QED
  BY <1>10, <1>11, <1>12 DEF IInv

\* A quantum that gives its run back, with what it will remember.
LEMMA HeldStep ==
    ASSUME IInv, NEW p \in Processes, worker[p].pc \in AtCheckpoint,
           NEW fences \in SUBSET FenceKeys,
           worker' = [worker EXCEPT ![p].pc = "yield", ![p].fences = fences],
           NEW m \in Memories, m.fresh = memory[p].fresh, m.fences = memory[p].fences,
           memory' = [memory EXCEPT ![p] = m], UNCHANGED now
    PROVE  /\ worker' \in [Processes -> Locals] /\ memory' \in [Processes -> Memories]
           /\ WorkersSound'
<1> DEFINE w == worker[p]
           u == [w EXCEPT !.pc = "yield", !.fences = fences]
<1>1. w \in Locals /\ Knows(w) /\ Remembers(w, memory[p])
  BY Here
<1>2. worker' = [worker EXCEPT ![p] = u]
  BY <1>1 DEF IInv, Types
<1>3. u \in Locals
  BY <1>1 DEF Locals, Pcs
<1>4. Knows(u)
  BY <1>1 DEF Knows, Locals, Claiming, AtCheckpoint
<1>5. Remembers(u, m)
  BY <1>1 DEF Remembers, AtCheckpoint
<1> HIDE DEF u
<1> QED
  BY <1>2, <1>3, <1>4, <1>5, LocalStep

LEMMA ReadFailsStep == ASSUME IInv, NEW p \in Processes, ReadFails(p) PROVE IInv'
<1> DEFINE w == worker[p]
           position == PositionOf(w)
           tier == Tier(p, w.c, position)
           narrower == IF tier < Len(Windows) THEN tier + 1 ELSE tier
           old == memory[p].tier
           new == [key \in DOMAIN old \union {Fence(w.c), position} |->
                       IF key \in {Fence(w.c), position} THEN narrower ELSE old[key]]
           m == [memory[p] EXCEPT !.tier = new]
<1>1. /\ w \in Locals /\ memory[p] \in Memories /\ Knows(w) /\ w.pc = "read"
      /\ w.pc \in AtCheckpoint /\ UNCHANGED now
  BY Here DEF ReadFails, AtCheckpoint
<1>2. position \in FenceKeys /\ Fence(w.c) \in FenceKeys /\ RunFence(w.gen) \in FenceKeys
  BY <1>1, PositionKey, MovableIs, Keys
<1>3. new \in Tiers
<2>1. PICK D \in SUBSET FenceKeys : old \in [D -> 1..Len(Windows)]
  BY <1>1 DEF Memories, Tiers
<2>2. narrower \in 1..Len(Windows)
<3>1. tier \in 1..Len(Windows) /\ Len(Windows) \in Nat
  BY TierIs, ReplayAssumption DEF IInv
<3> HIDE DEF tier
<3> QED
  BY <3>1
<2> HIDE DEF narrower, old, position
<2>3. new \in [D \union {Fence(w.c), position} -> 1..Len(Windows)]
  BY <2>1, <2>2
<2>4. D \union {Fence(w.c), position} \in SUBSET FenceKeys
  BY <1>2
<2> QED
  BY <2>3, <2>4 DEF Tiers
<1>4. m \in Memories /\ m.fresh = memory[p].fresh /\ m.fences = memory[p].fences
<2> HIDE DEF new
<2> QED
  BY <1>1, <1>3 DEF Memories
<1>5. \/ /\ worker' = [worker EXCEPT ![p].pc = "yield", ![p].fences = {Fence(w.c), position}]
         /\ memory' = [memory EXCEPT ![p] = m]
      \/ /\ worker' = [worker EXCEPT ![p].pc = "yield", ![p].fences = {Fence(w.c)}]
         /\ memory' = [memory EXCEPT ![p] = memory[p]]
      \/ /\ worker' = [worker EXCEPT ![p].pc = "yield", ![p].fences = {RunFence(w.gen)}]
         /\ memory' = [memory EXCEPT ![p] = memory[p]]
<2>1. memory' = memory => memory' = [memory EXCEPT ![p] = memory[p]]
  BY SameMemory DEF IInv
<2> QED
  BY <2>1 DEF ReadFails
<1>6. /\ worker' \in [Processes -> Locals] /\ memory' \in [Processes -> Memories]
      /\ WorkersSound'
<2>1. {Fence(w.c), position} \in SUBSET FenceKeys
  BY <1>2
<2>2. {Fence(w.c)} \in SUBSET FenceKeys /\ {RunFence(w.gen)} \in SUBSET FenceKeys
  BY <1>2
<2> HIDE DEF m, position
<2>3. CASE /\ worker' = [worker EXCEPT ![p].pc = "yield", ![p].fences = {Fence(w.c), position}]
           /\ memory' = [memory EXCEPT ![p] = m]
  BY <1>1, <1>4, <2>1, <2>3, HeldStep
<2>4. CASE /\ worker' = [worker EXCEPT ![p].pc = "yield", ![p].fences = {Fence(w.c)}]
           /\ memory' = [memory EXCEPT ![p] = memory[p]]
  BY <1>1, <2>2, <2>4, HeldStep
<2>5. CASE /\ worker' = [worker EXCEPT ![p].pc = "yield", ![p].fences = {RunFence(w.gen)}]
           /\ memory' = [memory EXCEPT ![p] = memory[p]]
  BY <1>1, <2>2, <2>5, HeldStep
<2> QED
  BY <1>5, <2>3, <2>4, <2>5
<1>7. bounds' \in [failures : Nat, toggles : Nat, faults : Nat]
  BY DEF IInv, Types, ReadFails
<1>8. Types'
  BY <1>6, <1>7 DEF IInv, Types, ReadFails, rows
<1>9. RowsSound' /\ NothingSkipped' /\ RunsSound'
  BY RowsKept, RunsKept DEF ReadFails, rows
<1> QED
  BY <1>6, <1>8, <1>9 DEF IInv

\* A window is stored by its generation, as one with the checkpoint it moves.
LEMMA PersistStep == ASSUME IInv, NEW p \in Processes, Persist(p) PROVE IInv'
<1> DEFINE w == worker[p]
           c == w.c
           g == w.gen
           fences == memory[p].fences \ {Fence(c), PositionOf(w), RunFence(g)}
           tier == [key \in DOMAIN memory[p].tier \ {Fence(c)} |-> memory[p].tier[key]]
           m == [memory[p] EXCEPT !.fences = fences, !.tier = tier]
           there == [w EXCEPT !.pc = "remain"]
           stored == w.at..(w.to - 1)
<1>1. /\ w \in Locals /\ memory[p] \in Memories /\ Knows(w) /\ w.pc = "persist"
      /\ w.pc \in AtCheckpoint /\ Remembers(w, memory[p])
  BY Here DEF Persist, AtCheckpoint
<1>2. /\ c \in Checkpoints /\ g \in Generations /\ c[1] = g /\ w.at \in Nat /\ w.to \in Nat
      /\ End(c) \in Nat /\ w.at < End(c)
      /\ Movable(p) => next[c] = w.at /\ run[g].status = "RUNNING" /\ Created(c)
  BY <1>1, MovableIs
<1>3. w.at < w.to /\ w.to <= End(c)
  BY <1>1, <1>2 DEF Knows
<1>4. UNCHANGED <<now, disabled, run, lock, bounds>>
  BY DEF Persist
<1>5. CASE Movable(p)
<2>1. /\ next' = [next EXCEPT ![c] = w.to]
      /\ replayed' = [replayed EXCEPT ![g][c[2]] = @ \union stored]
      /\ worker' = [worker EXCEPT ![p] = there]
  BY <1>5 DEF Persist, Goto
<2>2. memory' = [memory EXCEPT ![p] = m]
<3>1. memory' = [memory EXCEPT
              ![p].fences = @ \ {Fence(c), PositionOf(w), RunFence(g)},
              ![p].tier = [key \in DOMAIN @ \ {Fence(c)} |-> @[key]]]
  BY <1>5 DEF Persist
<3> QED
  BY <3>1, <1>1 DEF IInv, Types, Memories
<2>3. tier \in Tiers
<3>1. PICK D \in SUBSET FenceKeys : memory[p].tier \in [D -> 1..Len(Windows)]
  BY <1>1 DEF Memories, Tiers
<3>2. tier \in [D \ {Fence(c)} -> 1..Len(Windows)]
  BY <3>1
<3>3. D \ {Fence(c)} \in SUBSET FenceKeys
  OBVIOUS
<3> QED
  BY <3>2, <3>3 DEF Tiers
<2>4. m \in Memories /\ m.fresh = memory[p].fresh
<3> HIDE DEF tier
<3>1. fences \in SUBSET FenceKeys
  BY <1>1 DEF Memories
<3> HIDE DEF fences
<3> QED
  BY <1>1, <2>3, <3>1 DEF Memories
<2>5. there \in Locals /\ Knows(there)
  BY <1>1 DEF Locals, Pcs, Knows, Claiming, AtCheckpoint
<2>6. Remembers(there, m)
  BY <1>1, <2>4 DEF Remembers
<2>7. /\ worker' \in [Processes -> Locals] /\ memory' \in [Processes -> Memories]
      /\ WorkersSound'
<3> HIDE DEF m, there
<3> QED
  BY <1>4, <2>1, <2>2, <2>4, <2>5, <2>6, LocalStep
<2>8. c[2] \in Vehicles /\ stored \subseteq Instants
<3>1. c[2] \in Vehicles /\ RangeTo(g) \in Nat /\ RangeTo(g) <= RangeTo(GenCount)
  BY <1>2, CheckpointIs
<3>2. End(c) <= RangeTo(g)
  BY <1>2, EndIs
<3>3. RangeTo(GenCount) \in Nat
<4>1. GenCount \in Nat /\ GenCount <= GenCount
  BY ReplayAssumption
<4> QED
  BY <4>1, RangeMonotone
<3> HIDE DEF c, w, g
<3> QED
  BY <1>2, <1>3, <3>1, <3>2, <3>3 DEF Instants
<2>9. /\ replayed' \in [Generations -> [Vehicles -> SUBSET Instants]]
      /\ stored \subseteq replayed'[c[1]][c[2]]
      /\ \A h \in Generations, v \in Vehicles : replayed[h][v] \subseteq replayed'[h][v]
<3> HIDE DEF stored, c, g
<3> QED
  BY <1>2, <2>1, <2>8 DEF IInv, Types
<2>10. \A d \in Checkpoints : replayed[d[1]][d[2]] \subseteq replayed'[d[1]][d[2]]
  BY <2>9, CheckpointIs
<2>11. \A t \in next[c]..(w.to - 1) : t \in replayed'[c[1]][c[2]]
  BY <1>2, <1>5, <2>9
<2>12. next' \in [Checkpoints -> Nat] /\ RowsSound' /\ RunsSound' /\ NothingSkipped'
<3>1. next[c] <= w.to /\ run[c[1]].status = "RUNNING" /\ Created(c)
  BY <1>2, <1>3, <1>5
<3> HIDE DEF c
<3> QED
  BY <1>2, <1>3, <1>4, <2>1, <2>10, <2>11, <3>1, MoveOne
<2>13. Types'
  BY <1>4, <2>7, <2>9, <2>12 DEF IInv, Types
<2> QED
  BY <2>7, <2>12, <2>13 DEF IInv
<1>6. CASE ~Movable(p)
<2>1. /\ worker' = [worker EXCEPT ![p].pc = "yield", ![p].fences = {RunFence(g)}]
      /\ UNCHANGED <<next, replayed, memory>>
  BY <1>6 DEF Persist
<2>2. {RunFence(g)} \in SUBSET FenceKeys
  BY <1>2, Keys
<2>3. memory' = [memory EXCEPT ![p] = memory[p]]
  BY <2>1, SameMemory DEF IInv
<2>4. /\ worker' \in [Processes -> Locals] /\ memory' \in [Processes -> Memories]
      /\ WorkersSound'
  BY <1>1, <1>4, <2>1, <2>2, <2>3, HeldStep
<2>5. Types'
  BY <1>4, <2>1, <2>4 DEF IInv, Types
<2>6. RowsSound' /\ NothingSkipped' /\ RunsSound'
  BY <1>4, <2>1, RowsKept, RunsKept
<2> QED
  BY <2>4, <2>5, <2>6 DEF IInv
<1> QED
  BY <1>5, <1>6

LEMMA CountRemainingStep == ASSUME IInv, NEW p \in Processes, CountRemaining(p) PROVE IInv'
<1>1. worker[p] \in Locals /\ Knows(worker[p]) /\ worker[p].pc = "remain"
  BY Here DEF CountRemaining
<1>2. PICK pc \in {"complete", "yield"} : Goto(p, pc)
  BY DEF CountRemaining
<1>3. Knows([worker[p] EXCEPT !.pc = pc])
  BY <1>1, <1>2 DEF Knows, Locals, Claiming, AtCheckpoint
<1>4. pc \in Pcs /\ UNCHANGED <<now, memory>>
  BY DEF Pcs, CountRemaining
<1>5. /\ worker' \in [Processes -> Locals] /\ memory' \in [Processes -> Memories]
      /\ WorkersSound'
  BY <1>1, <1>2, <1>3, <1>4, GotoStep
<1>6. Types'
  BY <1>5 DEF IInv, Types, CountRemaining, rows
<1>7. RowsSound' /\ NothingSkipped' /\ RunsSound'
  BY RowsKept, RunsKept DEF CountRemaining, rows
<1> QED
  BY <1>5, <1>6, <1>7 DEF IInv
-----------------------------------------------------------------------------
(* A quantum: its end.                                                      *)

LEMMA CompleteRunStep == ASSUME IInv, NEW p \in Processes, CompleteRun(p) PROVE IInv'
<1> DEFINE g == worker[p].gen
           r == [status |-> "COMPLETED", owner |-> Nobody, lease |-> FALSE]
<1>1. worker[p] \in Locals /\ Knows(worker[p]) /\ worker[p].pc = "complete"
  BY Here DEF CompleteRun
<1>2. g \in Generations
  BY <1>1 DEF Knows, Claiming
<1>3. Knows([worker[p] EXCEPT !.pc = "release"])
  BY <1>1 DEF Knows, Locals, Claiming, AtCheckpoint
<1>4. "release" \in Pcs /\ Goto(p, "release") /\ UNCHANGED <<now, memory>>
  BY DEF Pcs, CompleteRun
<1>5. /\ worker' \in [Processes -> Locals] /\ memory' \in [Processes -> Memories]
      /\ WorkersSound'
  BY <1>1, <1>3, <1>4, GotoStep
<1>6. run' \in [Generations -> RunRows] /\ RunsSound'
<2>1. CASE Owned(g, p) /\ Rows(g) # {} /\ Incomplete(g) = {}
<3>1. run' = [run EXCEPT ![g] = r] /\ UNCHANGED next
  BY <2>1 DEF CompleteRun
<3>2. r \in RunRows /\ ~r.lease
  BY DEF RunRows
<3> HIDE DEF r
<3> QED
  BY <1>2, <2>1, <3>1, <3>2, RunsOpen
<2>2. CASE ~(Owned(g, p) /\ Rows(g) # {} /\ Incomplete(g) = {})
  BY <2>2, RunsKept DEF CompleteRun, IInv, Types
<2> QED
  BY <2>1, <2>2
<1>7. Types'
  BY <1>5, <1>6 DEF IInv, Types, CompleteRun
<1>8. RowsSound' /\ NothingSkipped'
  BY RowsKept DEF CompleteRun
<1> QED
  BY <1>5, <1>6, <1>7, <1>8 DEF IInv

LEMMA RememberIs ==
    ASSUME Types, NEW p \in Processes, NEW fences \in SUBSET FenceKeys, Remember(p, fences)
    PROVE  LET m == [memory[p] EXCEPT !.fences = @ \union fences, !.fresh = @ \union fences] IN
           m \in Memories /\ memory' = [memory EXCEPT ![p] = m]
           /\ (memory[p].fresh \subseteq memory[p].fences => m.fresh \subseteq m.fences)
<1>1. memory \in [Processes -> Memories] /\ memory[p] \in Memories
  BY DEF Types
<1> QED
  BY <1>1 DEF Remember, Memories

LEMMA YieldRunStep == ASSUME IInv, NEW p \in Processes, YieldRun(p) PROVE IInv'
<1> DEFINE w == worker[p]
           g == w.gen
           u == [w EXCEPT !.pc = "release"]
           r == [status |-> "PENDING", owner |-> Nobody, lease |-> FALSE]
<1>1. /\ w \in Locals /\ Knows(w) /\ w.pc = "yield" /\ Remembers(w, memory[p])
      /\ memory[p] \in Memories
  BY Here DEF YieldRun
<1>2. g \in Generations
  BY <1>1 DEF Knows, Claiming
<1>3. u \in Locals /\ Knows(u) /\ u.pc = "release"
  BY <1>1 DEF Knows, Locals, Pcs, Claiming, AtCheckpoint
<1>4. \E m \in Memories : memory' = [memory EXCEPT ![p] = m] /\ m.fresh \subseteq m.fences
<2>1. CASE Owned(g, p)
<3>1. Remember(p, w.fences) /\ w.fences \in SUBSET FenceKeys
  BY <1>1, <2>1 DEF YieldRun, Locals
<3> QED
  BY <1>1, <3>1, RememberIs DEF IInv, Remembers
<2>2. CASE ~Owned(g, p)
<3>1. memory' = [memory EXCEPT ![p] = memory[p]]
  BY <2>2, SameMemory DEF YieldRun, IInv
<3> QED
  BY <1>1, <3>1 DEF Remembers
<2> QED
  BY <2>1, <2>2
<1>5. PICK m \in Memories : memory' = [memory EXCEPT ![p] = m] /\ m.fresh \subseteq m.fences
  BY <1>4
<1>6. Remembers(u, m) /\ worker' = [worker EXCEPT ![p] = u] /\ UNCHANGED now
  BY <1>3, <1>5 DEF Remembers, YieldRun, Goto
<1>7. /\ worker' \in [Processes -> Locals] /\ memory' \in [Processes -> Memories]
      /\ WorkersSound'
<2> HIDE DEF u
<2> QED
  BY <1>3, <1>5, <1>6, LocalStep
<1>8. run' \in [Generations -> RunRows] /\ RunsSound'
<2>1. CASE Owned(g, p)
<3>1. run' = [run EXCEPT ![g] = r] /\ UNCHANGED next
  BY <2>1 DEF YieldRun
<3>2. r \in RunRows /\ ~r.lease /\ r.status = "PENDING"
  BY DEF RunRows
<3> HIDE DEF r
<3> QED
  BY <1>2, <3>1, <3>2, RunsOpen
<2>2. CASE ~Owned(g, p)
  BY <2>2, RunsKept DEF YieldRun, IInv, Types
<2> QED
  BY <2>1, <2>2
<1>9. Types'
  BY <1>7, <1>8 DEF IInv, Types, YieldRun
<1>10. RowsSound' /\ NothingSkipped'
  BY RowsKept DEF YieldRun
<1> QED
  BY <1>7, <1>8, <1>9, <1>10 DEF IInv

LEMMA ReleaseStep == ASSUME IInv, NEW p \in Processes, Release(p) PROVE IInv'
<1>1. memory[p] \in Memories /\ Remembers(worker[p], memory[p])
  BY Here
<1>2. \E m \in Memories : memory' = [memory EXCEPT ![p] = m] /\ m.fresh \subseteq m.fences
<2>1. CASE worker[p].pc = "throw"
<3>1. Remember(p, {KindFence}) /\ {KindFence} \in SUBSET FenceKeys
  BY <2>1, Keys DEF Release
<3> QED
  BY <1>1, <3>1, RememberIs DEF IInv, Remembers
<2>2. CASE worker[p].pc # "throw"
<3>1. memory' = [memory EXCEPT ![p] = memory[p]]
  BY <2>2, SameMemory DEF Release, IInv
<3> QED
  BY <1>1, <3>1 DEF Remembers
<2> QED
  BY <2>1, <2>2
<1>3. PICK m \in Memories : memory' = [memory EXCEPT ![p] = m] /\ m.fresh \subseteq m.fences
  BY <1>2
<1>4. /\ Idle \in Locals /\ Knows(Idle) /\ Remembers(Idle, m)
      /\ worker' = [worker EXCEPT ![p] = Idle] /\ UNCHANGED now
  BY <1>3, Resting DEF Knows, Remembers, Idle, Claiming, AtCheckpoint, Release
<1>5. /\ worker' \in [Processes -> Locals] /\ memory' \in [Processes -> Memories]
      /\ WorkersSound'
  BY <1>3, <1>4, LocalStep
<1>6. Types'
  BY <1>5 DEF IInv, Types, Release, Unlocked, rows
<1>7. RowsSound' /\ NothingSkipped' /\ RunsSound'
  BY RowsKept, RunsKept DEF Release, rows
<1> QED
  BY <1>5, <1>6, <1>7 DEF IInv
-----------------------------------------------------------------------------
(* Time and the environment.                                                *)

\* Time only raises the floor.
LEMMA TickStep == ASSUME IInv, Tick PROVE IInv'
<1>1. now < GenCount /\ now' = now + 1 /\ UNCHANGED <<run, next, replayed, worker, memory>>
  BY DEF Tick, rows
<1>2. Types'
  BY <1>1, ReplayAssumption DEF IInv, Types, Generations, Tick, rows
<1>3. RowsSound' /\ NothingSkipped' /\ RunsSound'
  BY <1>1, RowsKept, RunsKept
<1>4. ASSUME NEW p \in Processes PROVE Knows(worker[p])' /\ Remembers(worker[p], memory[p])'
<2>1. Knows(worker[p]) /\ Remembers(worker[p], memory[p])
  BY DEF IInv, WorkersSound
<2>2. worker'[p] = worker[p] /\ memory'[p] = memory[p]
  BY <1>1
<2>3. 1..now \subseteq 1..now'
  BY <1>1, ReplayAssumption DEF IInv, Types, Generations
<2> QED
  BY <2>1, <2>2, <2>3 DEF Knows, Remembers, Floor
<1> QED
  BY <1>2, <1>3, <1>4 DEF IInv, WorkersSound

LEMMA ToggleStep == ASSUME IInv, NEW v \in Vehicles, Toggle(v) PROVE IInv'
<1>1. Types'
  BY DEF IInv, Types, Toggle, rows
<1>2. RowsSound' /\ NothingSkipped' /\ RunsSound'
  BY RowsKept, RunsKept DEF Toggle, rows
<1>3. WorkersSound'
  BY DEF IInv, WorkersSound, Knows, Remembers, Toggle
<1> QED
  BY <1>1, <1>2, <1>3 DEF IInv

LEMMA FenceEndsStep == ASSUME IInv, NEW p \in Processes, NEW f, FenceEnds(p, f) PROVE IInv'
<1> DEFINE gone == {f} \union ExhaustedBy(f)
           m == [memory[p] EXCEPT !.fences = @ \ gone, !.fresh = @ \ {f}]
<1>1. /\ memory[p] \in Memories /\ memory[p].fresh \subseteq memory[p].fences
      /\ worker[p] \in Locals /\ worker[p].pc = "idle" /\ Knows(worker[p])
  BY Here DEF Remembers, FenceEnds
<1>2. memory' = [memory EXCEPT ![p] = m]
  BY <1>1 DEF FenceEnds, IInv, Types, Memories
<1>3. m \in Memories
<2> HIDE DEF gone
<2> QED
  BY <1>1 DEF Memories
<1>4. m.fresh \subseteq m.fences
<2>1. f = KindFence \/ gone \intersect memory[p].fresh = {}
  BY DEF FenceEnds
<2>2. f = KindFence => gone = {f}
  BY DEF KindFence, ExhaustedBy
<2> HIDE DEF gone
<2> QED
  BY <1>1, <2>1, <2>2 DEF Memories
<1>5. Remembers(worker[p], m)
  BY <1>1, <1>4 DEF Remembers
<1>6. worker' = [worker EXCEPT ![p] = worker[p]] /\ UNCHANGED now
  BY DEF FenceEnds, IInv, Types
<1> HIDE DEF m
<1>7. /\ worker' \in [Processes -> Locals] /\ memory' \in [Processes -> Memories]
      /\ WorkersSound'
  BY <1>1, <1>2, <1>3, <1>5, <1>6, LocalStep
<1>8. Types'
  BY <1>7 DEF IInv, Types, FenceEnds, rows
<1>9. RowsSound' /\ NothingSkipped' /\ RunsSound'
  BY RowsKept, RunsKept DEF FenceEnds, rows
<1> QED
  BY <1>7, <1>8, <1>9 DEF IInv

LEMMA ReconciledIs ==
    ASSUME IInv, NEW c \in Checkpoints
    PROVE  /\ Reconciled(c) \in Nat /\ next[c] <= Reconciled(c)
           /\ Reconciled(c) # next[c] =>
                /\ Created(c) /\ ~Done(c) /\ Reconciled(c) <= Floor(now)
                /\ Reconciled(c) \in c[3]..End(c) /\ Reconciled(c) # NotCreated
<1>1. next[c] \in Nat /\ InRange(c)
  BY DEF IInv, Types, RowsSound
<1>2. Floor(now) \in Nat
<2>1. now \in Nat /\ now <= now
  BY ReplayAssumption DEF IInv, Types, Generations
<2> QED
  BY <2>1, FloorMonotone
<1>3. End(c) \in Nat /\ c[3] \in Nat
  BY EndIs, CheckpointIs
<1> QED
  BY <1>1, <1>2, <1>3 DEF Reconciled, InRange, Created, NotCreated

LEMMA ReconcileStep == ASSUME IInv, Reconcile PROVE IInv'
<1>1. /\ next' = [c \in Checkpoints |-> Reconciled(c)]
      /\ UNCHANGED <<now, disabled, run, replayed, lock, worker, memory, bounds>>
  BY DEF Reconcile
<1>2. \A c \in Checkpoints : next'[c] = Reconciled(c)
  BY <1>1
<1>3. Types'
<2>1. next' \in [Checkpoints -> Nat]
  BY <1>1, ReconciledIs
<2> QED
  BY <1>1, <2>1 DEF IInv, Types
<1>4. \A c \in Checkpoints : Created(c)' <=> Created(c)
<2> SUFFICES ASSUME NEW c \in Checkpoints PROVE Created(c)' <=> Created(c)
  OBVIOUS
<2> QED
  BY <1>2, ReconciledIs DEF Created
<1>5. ASSUME NEW c \in Checkpoints PROVE InRange(c)' /\ CreatedTogether(c)'
<2>1. InRange(c) /\ CreatedTogether(c)
  BY DEF IInv, RowsSound
<2>2. InRange(c)'
  BY <1>2, <2>1, ReconciledIs DEF InRange
<2>3. CreatedTogether(c)'
  BY <1>4, <2>1 DEF CreatedTogether
<2> QED
  BY <2>2, <2>3
<1>6. ASSUME NEW c \in Checkpoints, run[c[1]].status = "COMPLETED" PROVE next'[c] = next[c]
<2>1. c[1] \in Generations
  BY CheckpointIs
<2>2. RunSound(c[1])
  BY <2>1 DEF IInv, RunsSound
<2>3. Incomplete(c[1]) = {}
  BY <1>6, <2>2 DEF RunSound
<2>4. ~Created(c) \/ Done(c)
  BY <2>3 DEF Incomplete, Rows
<2> QED
  BY <1>2, <2>4, ReconciledIs
<1>7. RunsSound'
  BY <1>1, <1>6, CompletedKept
<1>8. ASSUME NEW c \in Checkpoints, Created(c)', NEW t \in c[3]..(next'[c] - 1)
      PROVE  t \in replayed'[c[1]][c[2]] \/ t < Floor(now)'
<2>1. replayed' = replayed /\ Floor(now)' = Floor(now)
  BY <1>1 DEF Floor
<2>2. CASE next'[c] = next[c]
  BY <1>4, <1>8, <2>1, <2>2 DEF IInv, NothingSkipped
<2>3. CASE next'[c] # next[c]
<3>1. next'[c] \in Nat /\ next'[c] <= Floor(now)
  BY <1>2, <2>3, ReconciledIs
<3>2. Floor(now) \in Nat /\ c[3] \in Nat
<4>1. now \in Nat /\ now <= now
  BY ReplayAssumption DEF IInv, Types, Generations
<4> QED
  BY <4>1, FloorMonotone, CheckpointIs
<3> QED
  BY <1>8, <2>1, <3>1, <3>2
<2> QED
  BY <2>2, <2>3
<1>9. NothingSkipped'
  BY <1>8 DEF NothingSkipped, Created
<1>10. WorkersSound'
  BY <1>1 DEF IInv, WorkersSound, Knows, Remembers
<1> QED
  BY <1>3, <1>5, <1>7, <1>9, <1>10 DEF IInv, RowsSound

\* A run loses its lease, with time or by a fault.
LEMMA LeaseLost ==
    ASSUME IInv, NEW g \in Generations, run' = [run EXCEPT ![g].lease = FALSE],
           UNCHANGED <<now, disabled, next, replayed, lock, worker, memory>>,
           bounds' \in [failures : Nat, toggles : Nat, faults : Nat]
    PROVE  IInv'
<1> DEFINE r == [run[g] EXCEPT !.lease = FALSE]
<1>1. run \in [Generations -> RunRows] /\ run[g] \in RunRows /\ RunSound(g)
  BY DEF IInv, Types, RunsSound
<1>2. r \in RunRows /\ ~r.lease /\ r.status = run[g].status
  BY <1>1 DEF RunRows
<1>3. run' = [run EXCEPT ![g] = r]
  BY <1>1
<1>4. r.status = "COMPLETED" => Rows(g) # {} /\ Incomplete(g) = {}
  BY <1>1, <1>2 DEF RunSound
<1> HIDE DEF r
<1>5. run' \in [Generations -> RunRows] /\ RunsSound'
  BY <1>2, <1>3, <1>4, RunsOpen
<1>6. Types'
  BY <1>5 DEF IInv, Types
<1>7. RowsSound' /\ NothingSkipped'
  BY RowsKept
<1>8. WorkersSound'
  BY DEF IInv, WorkersSound, Knows, Remembers
<1> QED
  BY <1>5, <1>6, <1>7, <1>8 DEF IInv

LEMMA FaultBounds ==
    ASSUME Types, Fault
    PROVE  bounds' \in [failures : Nat, toggles : Nat, faults : Nat]
  BY DEF Types, Fault

LEMMA LeaseStep ==
    ASSUME IInv, NEW g \in Generations, LeaseRunsOut(g) \/ LoseLease(g)
    PROVE  IInv'
<1>1. CASE LeaseRunsOut(g)
  BY <1>1, LeaseLost DEF LeaseRunsOut, IInv, Types
<1>2. CASE LoseLease(g)
<2>1. bounds' \in [failures : Nat, toggles : Nat, faults : Nat]
  BY <1>2, FaultBounds DEF LoseLease, IInv
<2> QED
  BY <1>2, <2>1, LeaseLost DEF LoseLease, Fault
<1> QED
  BY <1>1, <1>2

LEMMA LoseLockStep == ASSUME IInv, LoseLock PROVE IInv'
<1>1. bounds' \in [failures : Nat, toggles : Nat, faults : Nat]
  BY FaultBounds DEF LoseLock, IInv
<1>2. Types'
  BY <1>1 DEF IInv, Types, LoseLock, Fault
<1>3. RowsSound' /\ NothingSkipped' /\ RunsSound'
  BY RowsKept, RunsKept DEF LoseLock, Fault
<1>4. WorkersSound'
  BY DEF IInv, WorkersSound, Knows, Remembers, LoseLock, Fault
<1> QED
  BY <1>2, <1>3, <1>4 DEF IInv

LEMMA ThrowStep == ASSUME IInv, NEW p \in Processes, Throw(p) PROVE IInv'
<1>1. worker[p] \in Locals /\ Knows(worker[p]) /\ worker[p].pc \notin {"idle", "release"}
  BY Here DEF Throw
<1>2. Knows([worker[p] EXCEPT !.pc = "throw"])
  BY <1>1 DEF Knows, Locals, Claiming, AtCheckpoint
<1>3. "throw" \in Pcs /\ Goto(p, "throw") /\ UNCHANGED <<now, memory>>
  BY DEF Pcs, Throw, Fault
<1>4. /\ worker' \in [Processes -> Locals] /\ memory' \in [Processes -> Memories]
      /\ WorkersSound'
  BY <1>1, <1>2, <1>3, GotoStep
<1>5. bounds' \in [failures : Nat, toggles : Nat, faults : Nat]
  BY FaultBounds DEF Throw, IInv
<1>6. Types'
  BY <1>4, <1>5 DEF IInv, Types, Throw, Fault
<1>7. RowsSound' /\ NothingSkipped' /\ RunsSound'
  BY RowsKept, RunsKept DEF Throw, Fault
<1> QED
  BY <1>4, <1>6, <1>7 DEF IInv

\* A crash loses the locals and the memory, and nothing that is stored.
LEMMA CrashStep == ASSUME IInv, NEW p \in Processes, Crash(p) PROVE IInv'
<1>1. /\ Idle \in Locals /\ Forgetful \in Memories /\ Knows(Idle) /\ Remembers(Idle, Forgetful)
      /\ worker' = [worker EXCEPT ![p] = Idle] /\ memory' = [memory EXCEPT ![p] = Forgetful]
      /\ UNCHANGED now
  BY Resting DEF Knows, Remembers, Idle, Forgetful, Claiming, AtCheckpoint, Crash, Fault
<1>2. /\ worker' \in [Processes -> Locals] /\ memory' \in [Processes -> Memories]
      /\ WorkersSound'
  BY <1>1, LocalStep
<1>3. bounds' \in [failures : Nat, toggles : Nat, faults : Nat]
  BY FaultBounds DEF Crash, IInv
<1>4. Types'
  BY <1>2, <1>3 DEF IInv, Types, Crash, Fault, Unlocked
<1>5. RowsSound' /\ NothingSkipped' /\ RunsSound'
  BY RowsKept, RunsKept DEF Crash, Fault
<1> QED
  BY <1>2, <1>4, <1>5 DEF IInv
-----------------------------------------------------------------------------
(* The invariant is inductive.                                              *)

LEMMA QuantumStep == ASSUME IInv, NEW p \in Processes, Quantum(p) PROVE IInv'
  BY EnsureRunStep, FindStep, CountCheckpointsStep, EnsureCheckpointsStep, ClaimStep, ListStep,
     RetireStep, FindVehicleStep, ReadStep, ReadFailsStep, PersistStep, CountRemainingStep,
     CompleteRunStep, YieldRunStep, ReleaseStep DEF Quantum

LEMMA InductiveStep == ASSUME IInv, [Next]_vars PROVE IInv'
<1>1. CASE Tick \/ Reconcile
  BY <1>1, TickStep, ReconcileStep
<1>2. CASE RunOut
  BY <1>2, LeaseStep DEF RunOut
<1>3. CASE Misfortune
  BY <1>3, LoseLockStep, LeaseStep, ThrowStep, CrashStep DEF Misfortune
<1>4. ASSUME NEW v \in Vehicles, Toggle(v) PROVE IInv'
  BY <1>4, ToggleStep
<1>5. ASSUME NEW p \in Processes, Start(p) \/ Quantum(p) PROVE IInv'
  BY <1>5, StartStep, QuantumStep
<1>6. ASSUME NEW p \in Processes, SomeFenceEnds(p) PROVE IInv'
  BY <1>6, FenceEndsStep DEF SomeFenceEnds, FailureFenceEnds
<1>7. CASE UNCHANGED vars
  BY <1>7, Stutter
<1> QED
  BY <1>1, <1>2, <1>3, <1>4, <1>5, <1>6, <1>7 DEF Next

\* The inductive invariant holds in every reachable state.
THEOREM Invariance == Spec => []IInv
<1>1. Init => IInv
  BY InitInv
<1>2. IInv /\ [Next]_vars => IInv'
  BY InductiveStep
<1> QED
  BY <1>1, <1>2, PTL DEF Spec
-----------------------------------------------------------------------------
(* What follows from it.                                                    *)

LEMMA TypesSuffice == IInv => TypeOK
<1> SUFFICES ASSUME IInv PROVE TypeOK
  OBVIOUS
<1>1. ASSUME NEW p \in Processes
      PROVE  /\ worker[p].gen \in 0..GenCount /\ worker[p].fleet \subseteq Vehicles
             /\ worker[p].pc \in {"read", "persist"} => worker[p].at < End(worker[p].c)
             /\ worker[p].pc = "persist" => worker[p].to \in (worker[p].at + 1)..End(worker[p].c)
             /\ memory[p].fresh \subseteq memory[p].fences
             /\ \A key \in DOMAIN memory[p].tier : memory[p].tier[key] \in 1..Len(Windows)
<2>1. /\ worker[p] \in Locals /\ memory[p] \in Memories
      /\ Knows(worker[p]) /\ Remembers(worker[p], memory[p])
  BY Here
<2>2. worker[p].pc \in {"read", "persist"} => worker[p].at < End(worker[p].c)
  BY MovableIs DEF AtCheckpoint
<2>3. PICK D \in SUBSET FenceKeys : memory[p].tier \in [D -> 1..Len(Windows)]
  BY <2>1 DEF Memories, Tiers
<2> QED
  BY <2>1, <2>2, <2>3 DEF Locals, Knows, Remembers
<1>2. \A c \in Checkpoints : next[c] = NotCreated \/ next[c] \in c[3]..End(c)
  BY DEF IInv, RowsSound, InRange
<1> QED
  BY <1>1, <1>2 DEF IInv, Types, TypeOK, RunRows

\* The rows, the locals and the memory of every process keep their types.
THEOREM TypeCorrect == Spec => []TypeOK
<1>1. IInv => TypeOK
  BY TypesSuffice
<1> QED
  BY <1>1, Invariance, PTL

\* What is behind a checkpoint was stored by its own generation or retired by
\* the policy: whatever workers, leases and locks do.
THEOREM NeverSkips == Spec => []NothingSkipped
<1>1. IInv => NothingSkipped
  BY DEF IInv
<1> QED
  BY <1>1, Invariance, PTL

LEMMA WholeFollows == IInv => CompletedIsWhole
<1> SUFFICES ASSUME IInv, NEW g \in Generations, run[g].status = "COMPLETED"
             PROVE  /\ Rows(g) # {}
                    /\ \A c \in Rows(g), t \in RangeFrom(g)..(RangeTo(g) - 1) :
                         t \in replayed[g][c[2]] \/ t < Floor(now)
  BY DEF CompletedIsWhole
<1>1. Rows(g) # {} /\ Incomplete(g) = {}
  BY DEF IInv, RunsSound, RunSound
<1>2. ASSUME NEW c \in Rows(g), NEW t \in RangeFrom(g)..(RangeTo(g) - 1)
      PROVE  t \in replayed[g][c[2]] \/ t < Floor(now)
<2>1. c \in Checkpoints /\ c[1] = g /\ Created(c) /\ c[2] \in Vehicles
  BY CheckpointIs DEF Rows
<2>2. PICK d \in Checkpoints : d[1] = g /\ d[2] = c[2] /\ d[3] <= t /\ t < End(d)
  BY <2>1, SlicesCover
<2>3. Created(d)
  BY <2>1, <2>2 DEF IInv, RowsSound, CreatedTogether
<2>4. next[d] = End(d)
  BY <1>1, <2>2, <2>3 DEF Incomplete, Rows, Done
<2>5. t \in d[3]..(next[d] - 1)
<3>1. t \in Int /\ d[3] \in Nat /\ End(d) \in Nat
  BY CheckpointIs, EndIs
<3> QED
  BY <2>2, <2>4, <3>1
<2> QED
  BY <2>2, <2>3, <2>5 DEF IInv, NothingSkipped
<1> QED
  BY <1>1, <1>2

\* A completed generation has replayed the whole range of each of its vehicles,
\* in slices that leave nothing out, but for what the policy retired.
THEOREM CompletedWhole == Spec => []CompletedIsWhole
<1>1. IInv => CompletedIsWhole
  BY WholeFollows
<1> QED
  BY <1>1, Invariance, PTL

Forward ==
    /\ \A c \in Checkpoints : Created(c) => next'[c] >= next[c]
    /\ \A g \in Generations : run[g].status = "COMPLETED" => run'[g] = run[g]

LEMMA Still == ASSUME IInv, UNCHANGED <<run, next>> PROVE Forward
<1>1. \A c \in Checkpoints : next[c] \in Nat
  BY DEF IInv, Types
<1> QED
  BY <1>1 DEF Forward

\* A step on the row of a run, by one who finds it open.
LEMMA RunForward ==
    ASSUME IInv, UNCHANGED next, NEW g \in Generations, run[g].status # "COMPLETED",
           \A h \in Generations \ {g} : run'[h] = run[h]
    PROVE  Forward
<1>1. \A c \in Checkpoints : next[c] \in Nat
  BY DEF IInv, Types
<1> QED
  BY <1>1 DEF Forward

LEMMA MoveForward ==
    ASSUME IInv, UNCHANGED run, NEW c \in Checkpoints, NEW n \in Nat, next[c] <= n,
           next' = [next EXCEPT ![c] = n]
    PROVE  Forward
<1>1. next \in [Checkpoints -> Nat]
  BY DEF IInv, Types
<1> QED
  BY <1>1 DEF Forward

LEMMA RunForwardStep ==
    ASSUME IInv, NEW p \in Processes,
           EnsureRun(p) \/ Claim(p) \/ CompleteRun(p) \/ YieldRun(p)
    PROVE  Forward
<1>1. worker[p] \in Locals /\ Knows(worker[p])
  BY Here
<1>2. run \in [Generations -> RunRows]
  BY DEF IInv, Types
<1>3. CASE EnsureRun(p)
<2>1. worker[p].now \in Generations
<3>1. worker[p].now \in 1..now /\ now \in 1..GenCount
  BY <1>1, <1>3 DEF EnsureRun, Knows, IInv, Types, Generations
<3>2. GenCount \in Nat
  BY ReplayAssumption
<3> QED
  BY <3>1, <3>2 DEF Generations
<2>2. CASE run' = run
  BY <1>3, <2>2, Still DEF EnsureRun
<2>3. CASE run' # run
<3>1. /\ run[worker[p].now].status # "COMPLETED" /\ UNCHANGED next
      /\ run' = [run EXCEPT ![worker[p].now].status = "PENDING"]
  BY <1>3, <2>3 DEF EnsureRun
<3> QED
  BY <1>2, <2>1, <3>1, RunForward
<2> QED
  BY <2>2, <2>3
<1>4. ASSUME Claim(p) \/ CompleteRun(p) \/ YieldRun(p) PROVE Forward
<2> DEFINE g == worker[p].gen
<2>1. g \in Generations
  BY <1>1, <1>4 DEF Knows, Claiming, Claim, CompleteRun, YieldRun
<2>2. UNCHANGED next
  BY <1>4 DEF Claim, CompleteRun, YieldRun
<2>3. \/ run' = run
      \/ /\ Claimable(g) \/ Owned(g, p)
         /\ \E r : run' = [run EXCEPT ![g] = r]
  BY <1>4 DEF Claim, CompleteRun, YieldRun
<2>4. CASE run' = run
  BY <2>2, <2>4, Still
<2>5. CASE (Claimable(g) \/ Owned(g, p)) /\ \E r : run' = [run EXCEPT ![g] = r]
<3>1. run[g].status # "COMPLETED"
  BY <2>5 DEF Claimable, Owned
<3>2. \A h \in Generations \ {g} : run'[h] = run[h]
  BY <1>2, <2>5
<3> HIDE DEF g
<3> QED
  BY <2>1, <2>2, <3>1, <3>2, RunForward
<2> QED
  BY <2>3, <2>4, <2>5
<1> QED
  BY <1>3, <1>4

LEMMA LeaseForward ==
    ASSUME IInv, NEW g \in Generations, LeaseRunsOut(g) \/ LoseLease(g)
    PROVE  Forward
<1>1. run \in [Generations -> RunRows] /\ RunSound(g)
  BY DEF IInv, Types, RunsSound
<1>2. run[g].lease /\ run' = [run EXCEPT ![g].lease = FALSE] /\ UNCHANGED next
  BY DEF LeaseRunsOut, LoseLease, Fault
<1>3. run[g].status # "COMPLETED" /\ \A h \in Generations \ {g} : run'[h] = run[h]
  BY <1>1, <1>2 DEF RunSound
<1> QED
  BY <1>2, <1>3, RunForward

LEMMA CheckpointForwardStep ==
    ASSUME IInv, NEW p \in Processes, EnsureCheckpoints(p) \/ Retire(p) \/ Persist(p)
    PROVE  Forward
<1>1. UNCHANGED run
  BY DEF EnsureCheckpoints, Retire, Persist
<1>2. CASE EnsureCheckpoints(p)
<2>1. \A c \in Checkpoints : next[c] \in Nat /\ (Created(c) => next'[c] = next[c])
  BY <1>2 DEF EnsureCheckpoints, IInv, Types
<2> QED
  BY <1>1, <2>1 DEF Forward
<1>3. CASE Retire(p) \/ Persist(p)
<2> DEFINE w == worker[p]
           floor == IF Floor(w.now) < End(w.c) THEN Floor(w.now) ELSE End(w.c)
<2>1. w.pc \in AtCheckpoint
  BY <1>3 DEF Retire, Persist, AtCheckpoint
<2>2. /\ w.c \in Checkpoints /\ w.at \in Nat /\ w.to \in Nat /\ End(w.c) \in Nat
      /\ w.at < End(w.c) /\ (Movable(p) => next[w.c] = w.at)
  BY <2>1, MovableIs
<2>3. Knows(w)
  BY Here
<2>4. CASE ~Movable(p)
  BY <1>1, <1>3, <2>4, Still DEF Retire, Persist
<2>5. CASE Movable(p) /\ Retire(p)
<3>1. w.at < Floor(w.now) /\ Floor(w.now) \in Nat
<4>1. w.now \in Nat /\ w.now <= w.now /\ w.pc = "retire"
  BY <2>3, <2>5, ReplayAssumption DEF Retire, Knows, IInv, Types, Generations
<4> QED
  BY <2>3, <4>1, FloorMonotone DEF Knows
<3>2. floor \in Nat /\ next[w.c] <= floor
  BY <2>2, <2>5, <3>1
<3>3. next' = [next EXCEPT ![w.c] = floor]
  BY <2>5 DEF Retire
<3> HIDE DEF floor
<3> QED
  BY <1>1, <2>2, <3>2, <3>3, MoveForward
<2>6. CASE Movable(p) /\ Persist(p)
<3>1. w.at < w.to
  BY <2>2, <2>3, <2>6 DEF Persist, Knows
<3>2. next' = [next EXCEPT ![w.c] = w.to]
  BY <2>6 DEF Persist
<3>3. next[w.c] <= w.to
  BY <2>2, <2>6, <3>1
<3> QED
  BY <1>1, <2>2, <3>2, <3>3, MoveForward
<2> QED
  BY <1>3, <2>4, <2>5, <2>6
<1> QED
  BY <1>2, <1>3

LEMMA ReconcileForward == ASSUME IInv, Reconcile PROVE Forward
<1>1. UNCHANGED run /\ \A c \in Checkpoints : next'[c] = Reconciled(c)
  BY DEF Reconcile
<1>2. \A c \in Checkpoints : next[c] \in Nat /\ Reconciled(c) \in Nat /\ next[c] <= Reconciled(c)
  BY ReconciledIs DEF IInv, Types
<1> QED
  BY <1>1, <1>2 DEF Forward

LEMMA ForwardStep == ASSUME IInv, [Next]_vars PROVE Forward
<1>1. CASE UNCHANGED <<run, next>>
  BY <1>1, Still
<1>2. CASE Reconcile
  BY <1>2, ReconcileForward
<1>3. ASSUME NEW g \in Generations, LeaseRunsOut(g) \/ LoseLease(g) PROVE Forward
  BY <1>3, LeaseForward
<1>4. ASSUME NEW p \in Processes, Quantum(p) PROVE Forward
<2>1. CASE EnsureRun(p) \/ Claim(p) \/ CompleteRun(p) \/ YieldRun(p)
  BY <2>1, RunForwardStep
<2>2. CASE EnsureCheckpoints(p) \/ Retire(p) \/ Persist(p)
  BY <2>2, CheckpointForwardStep
<2>3. CASE \/ Find(p) \/ CountCheckpoints(p) \/ List(p) \/ FindVehicle(p) \/ Read(p)
           \/ ReadFails(p) \/ CountRemaining(p) \/ Release(p)
<3>1. UNCHANGED <<run, next>>
  BY <2>3 DEF Find, CountCheckpoints, List, FindVehicle, Read, ReadFails, CountRemaining,
              Release, rows
<3> QED
  BY <3>1, Still
<2> QED
  BY <1>4, <2>1, <2>2, <2>3 DEF Quantum
<1>5. ASSUME NEW p \in Processes, Start(p) \/ SomeFenceEnds(p) \/ Throw(p) \/ Crash(p)
      PROVE  UNCHANGED <<run, next>>
  BY <1>5 DEF Start, SomeFenceEnds, FailureFenceEnds, FenceEnds, Throw, Crash, Fault, rows
<1>6. ASSUME Tick \/ LoseLock \/ \E v \in Vehicles : Toggle(v) PROVE UNCHANGED <<run, next>>
  BY <1>6 DEF Tick, LoseLock, Toggle, Fault, rows
<1>7. UNCHANGED vars => UNCHANGED <<run, next>>
  BY DEF vars, rows
<1> QED
  BY <1>1, <1>2, <1>3, <1>4, <1>5, <1>6, <1>7 DEF Next, RunOut, Misfortune

\* No checkpoint moves back and no completed generation is opened again.
THEOREM MovesOnlyForward == Spec => OnlyForward
<1>1. IInv /\ [Next]_vars =>
        [/\ \A c \in Checkpoints : Created(c) => next'[c] >= next[c]
         /\ \A g \in Generations : run[g].status = "COMPLETED" => run'[g] = run[g]]_vars
  BY ForwardStep DEF Forward
<1> QED
  BY <1>1, Invariance, PTL DEF Spec, OnlyForward
=============================================================================
