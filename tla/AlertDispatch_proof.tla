--------------------------- MODULE AlertDispatch_proof ---------------------------
(***************************************************************************)
(* Proofs about AlertDispatch for any notifications and processes, any     *)
(* batch size and any number of faults and shutdowns.                      *)
(***************************************************************************)
EXTENDS AlertDispatch, FiniteSets, FiniteSetTheorems, TLAPS

-----------------------------------------------------------------------------
(* The inductive invariant.                                                 *)

\* Where a batch has a notification in its hands.
Holding == {"send", "markSent", "release", "markFailed"}
PCs == {"idle", "check", "claim"} \cup Holding

Rows == [status : {"NONE", "PENDING", "SENDING", "SENT", "FAILED"},
         due : BOOLEAN, lease : BOOLEAN, attempt : Nat]
Schedulers == [phase : {"up", "stopping", "down"}, running : BOOLEAN, aborted : BOOLEAN]
Batches == [pc : PCs, claimed : 0..BatchSize, n : Notifications \cup {"none"}, attempt : Nat]

Types ==
    /\ row \in [Notifications -> Rows]
    /\ process \in [Processes -> Schedulers]
    /\ worker \in [Processes -> Batches]
    /\ sends \in [Notifications -> Nat]
    /\ got \subseteq Notifications
    /\ trouble \in Nat

\* The flag tells of the batch, a batch within the loop has room for one more
\* notification, and a process that is gone has none.
LoopRuns ==
    \A p \in Processes :
        /\ process[p].running <=> worker[p].pc # "idle"
        /\ worker[p].pc \in {"claim"} \cup Holding => worker[p].claimed < BatchSize
        /\ process[p].phase = "down" => worker[p].pc = "idle"

\* What a batch has in its hands was claimed, and what it is about to record as
\* sent was accepted.
HandsTell ==
    \A p \in Processes : worker[p].pc \in Holding =>
        /\ worker[p].n \in Notifications
        /\ row[worker[p].n].status # "NONE"
        /\ worker[p].attempt <= row[worker[p].n].attempt
        /\ worker[p].pc = "markSent" => worker[p].n \in got

\* No two batches have the same attempt in their hands.
AttemptsDiffer ==
    \A p, q \in Processes :
        worker[p].pc \in Holding /\ worker[q].pc \in Holding /\ worker[p].n = worker[q].n
            => p = q \/ worker[p].attempt # worker[q].attempt

IInv == Types /\ LoopRuns /\ HandsTell /\ AttemptsDiffer

\* Types and LoopRuns are the type invariant of the module.
LEMMA TypesSuffice == Types /\ LoopRuns => TypeOK
  BY DEF Types, LoopRuns, TypeOK, Rows, Schedulers, Batches

LEMMA InitInv == Init => IInv
  BY DispatchAssumption DEF Init, IInv, Types, LoopRuns, HandsTell, AttemptsDiffer, Absent, Up,
     NoBatch, Rows, Schedulers, Batches, PCs, Holding
-----------------------------------------------------------------------------
(* Types.                                                                   *)

LEMMA RestingType ==
    /\ NoBatch \in Batches /\ [NoBatch EXCEPT !.pc = "check"] \in Batches
    /\ Up \in Schedulers /\ [Up EXCEPT !.phase = "down"] \in Schedulers
<1>1. NoBatch \in Batches /\ [NoBatch EXCEPT !.pc = "check"] \in Batches
  BY DispatchAssumption DEF NoBatch, Batches, PCs
<1>2. Up \in Schedulers /\ [Up EXCEPT !.phase = "down"] \in Schedulers
  BY DEF Up, Schedulers
<1> QED
  BY <1>1, <1>2

\* Typed rows, by what an action makes of one of them.
LEMMA RowType ==
    ASSUME Types, NEW n \in Notifications, NEW status \in {"PENDING", "SENDING", "SENT", "FAILED"},
           NEW due \in BOOLEAN, NEW lease \in BOOLEAN
    PROVE  /\ [row EXCEPT ![n].status = status, ![n].due = due] \in [Notifications -> Rows]
           /\ [row EXCEPT ![n].due = due] \in [Notifications -> Rows]
           /\ [row EXCEPT ![n].lease = lease] \in [Notifications -> Rows]
           /\ [row EXCEPT ![n].status = status, ![n].due = due, ![n].lease = lease]
                \in [Notifications -> Rows]
           /\ [row EXCEPT ![n] = Claimed(n)] \in [Notifications -> Rows]
<1>1. row[n] \in Rows
  BY DEF Types
<1>2. Claimed(n) \in Rows
  BY <1>1 DEF Claimed, Rows
<1> QED
  BY <1>1, <1>2 DEF Types, Rows

LEMMA CompletesType ==
    ASSUME Types, NEW p \in Processes, Completes(p)
    PROVE  worker' \in [Processes -> Batches] /\ process' \in [Processes -> Schedulers]
<1>1. process[p] \in Schedulers
  BY DEF Types
<1> QED
  BY <1>1, RestingType DEF Types, Completes, Schedulers

LEMMA GotoType ==
    ASSUME Types, NEW p \in Processes, NEW pc \in PCs, Goto(p, pc)
    PROVE  worker' \in [Processes -> Batches]
<1>1. worker[p] \in Batches
  BY DEF Types
<1> QED
  BY <1>1 DEF Types, Goto, Batches

LEMMA CallsType ==
    ASSUME Types, NEW p \in Processes, NEW pc \in PCs, Calls(p, pc), worker[p].n \in Notifications
    PROVE  worker' \in [Processes -> Batches] /\ sends' \in [Notifications -> Nat]
  BY GotoType DEF Types, Calls

LEMMA RecordsType ==
    ASSUME Types, LoopRuns, HandsTell, NEW p \in Processes, NEW pc \in Holding,
           NEW status \in {"PENDING", "SENT", "FAILED"}, Records(p, pc, status)
    PROVE  worker' \in [Processes -> Batches] /\ row' \in [Notifications -> Rows]
<1>1. worker[p].n \in Notifications /\ worker[p].claimed < BatchSize /\ worker[p].claimed \in 0..BatchSize
  BY DEF Records, Types, LoopRuns, HandsTell, Batches
<1>2. worker[p].claimed + 1 \in 0..BatchSize
  BY <1>1, DispatchAssumption
<1>3. [NoBatch EXCEPT !.pc = "check", !.claimed = worker[p].claimed + 1] \in Batches
  BY <1>2 DEF NoBatch, Batches, PCs
<1>4. worker' \in [Processes -> Batches]
  BY <1>3 DEF Records, Types
<1>5. row' \in [Notifications -> Rows]
  BY <1>1, RowType DEF Records, Types
<1> QED
  BY <1>4, <1>5

LEMMA TypesStep == IInv /\ [Next]_vars => Types'
<1> SUFFICES ASSUME IInv, [Next]_vars PROVE Types'
  OBVIOUS
<1> USE DEF IInv
<1>1. CASE UNCHANGED vars
  BY <1>1 DEF vars, Types
<1>2. ASSUME NEW n \in Notifications, Create(n) \/ BecomesDue(n) \/ LeaseEnds(n) PROVE Types'
  <2>0. row[n] \in Rows
    BY DEF Types
  <2>1. row' \in [Notifications -> Rows]
    <3>1. CASE Create(n)
      BY <2>0, <3>1 DEF Create, Rows, Types
    <3>2. CASE BecomesDue(n)
      BY <2>0, <3>2 DEF BecomesDue, Rows, Types
    <3>3. CASE LeaseEnds(n)
      BY <2>0, <3>3 DEF LeaseEnds, Rows, Types
    <3> QED
      BY <1>2, <3>1, <3>2, <3>3
  <2>2. trouble' \in Nat
    BY <1>2 DEF Create, BecomesDue, LeaseEnds, Trouble, Types
  <2> QED
    BY <1>2, <2>1, <2>2 DEF Create, BecomesDue, LeaseEnds, Types
<1>3. ASSUME NEW p \in Processes, Tick(p) \/ BeginShutdown(p) \/ EndShutdown(p) \/ Start(p) PROVE Types'
  <2>1. process[p] \in Schedulers
    BY DEF Types
  <2>2. process' \in [Processes -> Schedulers]
    <3>1. CASE Tick(p)
      BY <1>3, <2>1, <3>1 DEF Tick, Types, Schedulers, Up
    <3>2. CASE BeginShutdown(p)
      <4> DEFINE next == [process[p] EXCEPT !.phase = "stopping", !.aborted = process[p].running]
      <4>1. next \in Schedulers
        BY <2>1 DEF Schedulers
      <4>2. process' = [process EXCEPT ![p] = next]
        BY <3>2 DEF BeginShutdown
      <4> HIDE DEF next
      <4> QED
        BY <4>1, <4>2 DEF Types
    <3>3. CASE EndShutdown(p)
      BY <3>3, RestingType DEF EndShutdown, Types
    <3>4. CASE Start(p)
      BY <3>4, RestingType DEF Start, Types
    <3> QED
      BY <1>3, <3>1, <3>2, <3>3, <3>4
  <2>3. worker' \in [Processes -> Batches]
    BY <1>3, RestingType DEF Tick, BeginShutdown, EndShutdown, Start, Types
  <2> QED
    BY <1>3, <2>2, <2>3 DEF Tick, BeginShutdown, EndShutdown, Start, Types
<1>4. ASSUME NEW p \in Processes, Check(p) \/ ClaimNothing(p) PROVE Types'
  BY <1>4, CompletesType, GotoType DEF Check, ClaimNothing, Types, PCs
<1>5. ASSUME NEW p \in Processes, Claim(p) PROVE Types'
  <2>1. PICK n \in Notifications :
          /\ row' = [row EXCEPT ![n] = Claimed(n)]
          /\ worker' = [worker EXCEPT ![p].pc = "send", ![p].n = n, ![p].attempt = row'[n].attempt]
    BY <1>5 DEF Claim
  <2>2. row' \in [Notifications -> Rows]
    BY <2>1, RowType
  <2>3. row'[n].attempt \in Nat
    BY <2>2 DEF Rows
  <2>4. worker[p] \in Batches
    BY DEF Types
  <2>5. worker' \in [Processes -> Batches]
    BY <2>1, <2>3, <2>4 DEF Batches, Types, PCs, Holding
  <2> QED
    BY <1>5, <2>2, <2>5 DEF Claim, Types
<1>6. ASSUME NEW p \in Processes, SendAccepted(p) \/ SendRetryable(p) \/ SendRejected(p) PROVE Types'
  <2>1. worker[p].n \in Notifications
    BY <1>6 DEF SendAccepted, SendRetryable, SendRejected, Calls, HandsTell, Holding
  <2>2. worker' \in [Processes -> Batches] /\ sends' \in [Notifications -> Nat]
    BY <1>6, <2>1, CallsType DEF SendAccepted, SendRetryable, SendRejected, PCs, Holding
  <2>3. got' \subseteq Notifications /\ trouble' \in Nat
    BY <1>6, <2>1 DEF SendAccepted, SendRetryable, SendRejected, Trouble, Types
  <2> QED
    BY <1>6, <2>2, <2>3 DEF SendAccepted, SendRetryable, SendRejected, Calls, Types
<1>7. ASSUME NEW p \in Processes, MarkSent(p) \/ ReleaseForRetry(p) \/ MarkFailed(p) PROVE Types'
  <2>1. worker' \in [Processes -> Batches] /\ row' \in [Notifications -> Rows]
    BY <1>7, RecordsType DEF MarkSent, ReleaseForRetry, MarkFailed, Holding
  <2> QED
    BY <1>7, <2>1 DEF MarkSent, ReleaseForRetry, MarkFailed, Records, Types
<1>8. ASSUME NEW p \in Processes, ClaimFails(p) \/ BatchFails(p) PROVE Types'
  <2>1. row' \in [Notifications -> Rows]
    <3>1. ASSUME NEW n \in Notifications, row' = [row EXCEPT ![n] = Claimed(n)]
          PROVE  row' \in [Notifications -> Rows]
      BY <3>1, RowType
    <3> QED
      BY <1>8, <3>1 DEF ClaimFails, BatchFails, Types
  <2>2. worker' \in [Processes -> Batches] /\ process' \in [Processes -> Schedulers]
    BY <1>8, CompletesType DEF ClaimFails, BatchFails
  <2> QED
    BY <1>8, <2>1, <2>2 DEF ClaimFails, BatchFails, Trouble, Types
<1>9. ASSUME NEW p \in Processes, Crash(p) PROVE Types'
  BY <1>9, RestingType DEF Crash, Trouble, Types
<1> QED
  BY <1>1, <1>2, <1>3, <1>4, <1>5, <1>6, <1>7, <1>8, <1>9 DEF Next, Batch
-----------------------------------------------------------------------------
(* The loop and what the batches have in their hands.                       *)

LEMMA LoopStep == IInv /\ [Next]_vars => LoopRuns'
<1> SUFFICES ASSUME IInv, [Next]_vars, NEW q \in Processes
             PROVE  LoopRuns!(q)'
  BY DEF LoopRuns
<1> USE DEF IInv
<1>q. /\ LoopRuns!(q) /\ process[q] \in Schedulers /\ worker[q] \in Batches
      /\ worker \in [Processes -> Batches] /\ process \in [Processes -> Schedulers]
  BY DEF LoopRuns, Types
<1>b. BatchSize \in Nat \ {0}
  BY DispatchAssumption
<1>1. CASE UNCHANGED vars
  BY <1>1, <1>q DEF vars
<1>2. CASE worker' = worker /\ process' = process
  BY <1>2, <1>q
<1>3. ASSUME NEW p \in Processes, Tick(p) PROVE LoopRuns!(q)'
  BY <1>3, <1>q DEF Tick, MayStart, Up, NoBatch, Schedulers, Batches, Holding
<1>4. ASSUME NEW p \in Processes, BeginShutdown(p) PROVE LoopRuns!(q)'
  BY <1>4, <1>q DEF BeginShutdown, Schedulers
<1>5. ASSUME NEW p \in Processes, EndShutdown(p) \/ Start(p) PROVE LoopRuns!(q)'
  BY <1>5, <1>q DEF EndShutdown, Awaited, Start, Up, NoBatch, Schedulers, Batches, Holding
<1>6. ASSUME NEW p \in Processes, Completes(p) PROVE LoopRuns!(q)'
  BY <1>6, <1>q DEF Completes, NoBatch, Schedulers, Batches, Holding
<1>7. ASSUME NEW p \in Processes, Check(p) PROVE LoopRuns!(q)'
  <2>1. CASE process[p].aborted \/ Enough(p)
    BY <1>6, <1>7, <2>1 DEF Check
  <2>2. CASE ~(process[p].aborted \/ Enough(p))
    <3>1. /\ process' = process /\ worker' = [worker EXCEPT ![p].pc = "claim"]
          /\ worker[p].pc = "check" /\ ~Enough(p) /\ worker[p] \in Batches
      BY <1>7, <2>2 DEF Check, Goto, Types
    <3>2. worker[p].claimed < BatchSize
      BY <3>1, <1>b DEF Enough, Batches
    <3> QED
      BY <3>1, <3>2, <1>q DEF Batches, Holding
  <2> QED
    BY <2>1, <2>2
<1>8. ASSUME NEW p \in Processes, Claim(p) PROVE LoopRuns!(q)'
  BY <1>8, <1>q DEF Claim, Batches, Holding
<1>9. ASSUME NEW p \in Processes, NEW pc \in Holding, Calls(p, pc) PROVE LoopRuns!(q)'
  BY <1>9, <1>q DEF Calls, Goto, Batches, Holding
<1>10. ASSUME NEW p \in Processes, NEW pc \in Holding, NEW status, Records(p, pc, status)
       PROVE  LoopRuns!(q)'
  BY <1>10, <1>q DEF Records, NoBatch, Batches, Holding
<1>11. ASSUME NEW p \in Processes, Crash(p) PROVE LoopRuns!(q)'
  BY <1>11, <1>q DEF Crash, Up, NoBatch, Schedulers, Batches, Holding
<1>12. ASSUME NEW n \in Notifications, Create(n) \/ BecomesDue(n) \/ LeaseEnds(n) PROVE LoopRuns!(q)'
  BY <1>2, <1>12 DEF Create, BecomesDue, LeaseEnds
<1>13. ASSUME NEW p \in Processes, Batch(p) PROVE LoopRuns!(q)'
  BY <1>6, <1>7, <1>8, <1>9, <1>10, <1>13
     DEF Batch, ClaimNothing, SendAccepted, SendRetryable, SendRejected, MarkSent, ReleaseForRetry,
         MarkFailed, Holding
<1>14. ASSUME NEW p \in Processes, ClaimFails(p) \/ BatchFails(p) PROVE LoopRuns!(q)'
  BY <1>6, <1>14 DEF ClaimFails, BatchFails
<1> QED
  BY <1>1, <1>3, <1>4, <1>5, <1>11, <1>12, <1>13, <1>14 DEF Next

\* A step that only lets batches go, and takes nothing back from the rows.
Quiet ==
    /\ got \subseteq got'
    /\ \A n \in Notifications :
         /\ row'[n].attempt >= row[n].attempt
         /\ row[n].status # "NONE" => row'[n].status # "NONE"
    /\ \A q \in Processes : worker'[q] = worker[q] \/ worker'[q].pc \notin Holding

LEMMA QuietHands == IInv /\ Quiet /\ Types' => HandsTell' /\ AttemptsDiffer'
<1> SUFFICES ASSUME IInv, Quiet, Types' PROVE HandsTell' /\ AttemptsDiffer'
  OBVIOUS
<1>1. HandsTell'
  <2> SUFFICES ASSUME NEW p \in Processes, worker'[p].pc \in Holding PROVE HandsTell!(p)'
    BY DEF HandsTell
  <2>1. worker'[p] = worker[p] /\ HandsTell!(p) /\ worker[p].pc \in Holding
    BY DEF Quiet, IInv, HandsTell
  <2>2. worker[p].n \in Notifications /\ worker[p].attempt \in Nat
    BY <2>1 DEF IInv, Types, Batches
  <2>3. row[worker[p].n].attempt \in Nat /\ row'[worker[p].n].attempt \in Nat
    BY <2>2 DEF IInv, Types, Rows
  <2> QED
    BY <2>1, <2>2, <2>3 DEF Quiet
<1>2. AttemptsDiffer'
  BY DEF Quiet, IInv, AttemptsDiffer
<1> QED
  BY <1>1, <1>2

LEMMA CompletesQuiet ==
    ASSUME IInv, NEW p \in Processes, Completes(p),
           got' = got,
           row' = row \/ \E n \in Notifications : row' = [row EXCEPT ![n] = Claimed(n)]
    PROVE  Quiet
<1>1. \A q \in Processes : worker'[q] = worker[q] \/ worker'[q].pc \notin Holding
  BY DEF IInv, Types, Completes, NoBatch, Holding
<1>2. \A n \in Notifications : row[n] \in Rows /\ row[n].attempt \in Nat
  BY DEF IInv, Types, Rows
<1>3. \A n \in Notifications : /\ row'[n].attempt >= row[n].attempt
                               /\ row[n].status # "NONE" => row'[n].status # "NONE"
  BY <1>2 DEF Claimed, IInv, Types
<1> QED
  BY <1>1, <1>3 DEF Quiet

LEMMA RecordsQuiet ==
    ASSUME IInv, NEW p \in Processes, NEW pc \in Holding,
           NEW status \in {"PENDING", "SENT", "FAILED"}, Records(p, pc, status)
    PROVE  Quiet
<1>1. \A q \in Processes : worker'[q] = worker[q] \/ worker'[q].pc \notin Holding
  BY DEF IInv, Types, Records, NoBatch, Holding
<1>2. \A n \in Notifications : row[n] \in Rows /\ row[n].attempt \in Nat
  BY DEF IInv, Types, Rows
<1>3. \A n \in Notifications : /\ row'[n].attempt >= row[n].attempt
                               /\ row[n].status # "NONE" => row'[n].status # "NONE"
  BY <1>2 DEF Records, IInv, Types
<1> QED
  BY <1>1, <1>3 DEF Quiet, Records

LEMMA ClaimHands ==
    ASSUME IInv, NEW p \in Processes, Claim(p), Types'
    PROVE  HandsTell' /\ AttemptsDiffer'
<1>1. PICK n \in Notifications :
        /\ row' = [row EXCEPT ![n] = Claimed(n)]
        /\ worker' = [worker EXCEPT ![p].pc = "send", ![p].n = n, ![p].attempt = row'[n].attempt]
  BY DEF Claim
<1>2. /\ worker'[p].pc = "send" /\ worker'[p].n = n /\ worker'[p].attempt = row[n].attempt + 1
      /\ row'[n].status = "SENDING" /\ row'[n].attempt = row[n].attempt + 1
      /\ row[n].attempt \in Nat
      /\ \A q \in Processes : q # p => worker'[q] = worker[q]
      /\ \A m \in Notifications : m # n => row'[m] = row[m]
  BY <1>1 DEF Claimed, IInv, Types, Rows, Batches
<1>3. ASSUME NEW q \in Processes, q # p, worker[q].pc \in Holding
      PROVE  HandsTell!(q)' /\ (worker[q].n = n => worker[q].attempt # row[n].attempt + 1)
  <2>1. HandsTell!(q) /\ worker[q].attempt \in Nat /\ worker'[q] = worker[q]
    BY <1>2, <1>3 DEF IInv, HandsTell, Types, Batches
  <2>2. \A m \in Notifications : row[m].attempt \in Nat
    BY DEF IInv, Types, Rows
  <2>3. got' = got
    BY DEF Claim
  <2> QED
    BY <1>2, <1>3, <2>1, <2>2, <2>3
<1>4. HandsTell'
  BY <1>2, <1>3 DEF HandsTell
<1>5. AttemptsDiffer'
  <2> SUFFICES ASSUME NEW q \in Processes, NEW o \in Processes, q # o,
                      worker'[q].pc \in Holding, worker'[o].pc \in Holding,
                      worker'[q].n = worker'[o].n
               PROVE  worker'[q].attempt # worker'[o].attempt
    BY DEF AttemptsDiffer
  <2>1. CASE q # p /\ o # p
    BY <1>2, <2>1 DEF AttemptsDiffer, IInv
  <2>2. CASE q = p
    BY <1>2, <1>3, <2>2
  <2>3. CASE o = p
    BY <1>2, <1>3, <2>3
  <2> QED
    BY <2>1, <2>2, <2>3
<1> QED
  BY <1>4, <1>5

LEMMA CallsHands ==
    ASSUME IInv, NEW p \in Processes, NEW pc \in Holding, Calls(p, pc),
           got \subseteq got', pc = "markSent" => worker[p].n \in got'
    PROVE  HandsTell' /\ AttemptsDiffer'
<1>1. /\ worker[p].pc = "send" /\ row' = row
      /\ worker'[p] = [worker[p] EXCEPT !.pc = pc] /\ worker'[p].pc = pc
      /\ worker'[p].n = worker[p].n /\ worker'[p].attempt = worker[p].attempt
      /\ \A q \in Processes : q # p => worker'[q] = worker[q]
  BY DEF Calls, Goto, IInv, Types, Batches
<1>2. worker[p].pc \in Holding
  BY <1>1 DEF Holding
<1>3. HandsTell'
  BY <1>1, <1>2 DEF HandsTell, IInv
<1>4. \A q \in Processes : /\ worker'[q].n = worker[q].n /\ worker'[q].attempt = worker[q].attempt
                           /\ worker'[q].pc \in Holding => worker[q].pc \in Holding
  BY <1>1, <1>2
<1>5. AttemptsDiffer'
  BY <1>4 DEF AttemptsDiffer, IInv
<1> QED
  BY <1>3, <1>5

LEMMA HandsStep == IInv /\ [Next]_vars /\ Types' => HandsTell' /\ AttemptsDiffer'
<1> SUFFICES ASSUME IInv, [Next]_vars, Types' PROVE HandsTell' /\ AttemptsDiffer'
  OBVIOUS
<1>1. ASSUME worker' = worker, row' = row, got' = got PROVE HandsTell' /\ AttemptsDiffer'
  BY <1>1 DEF IInv, HandsTell, AttemptsDiffer
<1>2. ASSUME NEW n \in Notifications, Create(n) \/ BecomesDue(n) \/ LeaseEnds(n)
      PROVE  HandsTell' /\ AttemptsDiffer'
  <2>1. \A m \in Notifications : row[m] \in Rows /\ row[m].attempt \in Nat
    BY DEF IInv, Types, Rows
  <2>2. \A m \in Notifications : /\ row'[m].attempt >= row[m].attempt
                                 /\ row[m].status # "NONE" => row'[m].status # "NONE"
    <3>1. row'[n].attempt = row[n].attempt /\ (row[n].status # "NONE" => row'[n].status # "NONE")
          /\ \A m \in Notifications : m # n => row'[m] = row[m]
      BY <1>2, <2>1 DEF Create, BecomesDue, LeaseEnds, IInv, Types, Rows
    <3> QED
      BY <2>1, <3>1
  <2>3. Quiet
    BY <1>2, <2>2 DEF Create, BecomesDue, LeaseEnds, Quiet
  <2> QED
    BY <2>3, QuietHands
<1>3. ASSUME NEW p \in Processes,
             Tick(p) \/ BeginShutdown(p) \/ EndShutdown(p) \/ Start(p) \/ Crash(p)
      PROVE  HandsTell' /\ AttemptsDiffer'
  <2>1. \A q \in Processes : worker'[q] = worker[q] \/ worker'[q].pc \notin Holding
    BY <1>3 DEF Tick, BeginShutdown, EndShutdown, Start, Crash, IInv, Types, NoBatch, Holding
  <2>2. \A m \in Notifications : row[m].attempt \in Nat
    BY DEF IInv, Types, Rows
  <2>3. Quiet
    BY <1>3, <2>1, <2>2 DEF Tick, BeginShutdown, EndShutdown, Start, Crash, Quiet
  <2> QED
    BY <2>3, QuietHands
<1>4. ASSUME NEW p \in Processes, Check(p) PROVE HandsTell' /\ AttemptsDiffer'
  <2>1. \A q \in Processes : worker'[q] = worker[q] \/ worker'[q].pc \notin Holding
    BY <1>4 DEF Check, Completes, Goto, IInv, Types, Batches, NoBatch, Holding
  <2>2. \A m \in Notifications : row[m].attempt \in Nat
    BY DEF IInv, Types, Rows
  <2>3. Quiet
    BY <1>4, <2>1, <2>2 DEF Check, Quiet
  <2> QED
    BY <2>3, QuietHands
<1>5. ASSUME NEW p \in Processes, ClaimNothing(p) \/ ClaimFails(p) \/ BatchFails(p)
      PROVE  HandsTell' /\ AttemptsDiffer'
  <2>1. Quiet
    BY <1>5, CompletesQuiet DEF ClaimNothing, ClaimFails, BatchFails
  <2> QED
    BY <2>1, QuietHands
<1>6. ASSUME NEW p \in Processes, SendAccepted(p) \/ SendRetryable(p) \/ SendRejected(p)
      PROVE  HandsTell' /\ AttemptsDiffer'
  BY <1>6, CallsHands DEF SendAccepted, SendRetryable, SendRejected, Holding
<1>7. ASSUME NEW p \in Processes, MarkSent(p) \/ ReleaseForRetry(p) \/ MarkFailed(p)
      PROVE  HandsTell' /\ AttemptsDiffer'
  <2>1. Quiet
    BY <1>7, RecordsQuiet DEF MarkSent, ReleaseForRetry, MarkFailed, Holding
  <2> QED
    BY <2>1, QuietHands
<1>8. CASE UNCHANGED vars
  BY <1>1, <1>8 DEF vars
<1> QED
  BY <1>2, <1>3, <1>4, <1>5, <1>6, <1>7, <1>8, ClaimHands DEF Next, Batch

LEMMA Invariance == Spec => []IInv
<1>1. IInv /\ [Next]_vars => IInv'
  BY TypesStep, LoopStep, HandsStep DEF IInv
<1> QED
  BY <1>1, InitInv, PTL DEF Spec

\* The rows and the batches keep their types, and the flag of the scheduler is
\* up exactly while there is a batch, whatever ends it.
THEOREM TypeCorrect == Spec => []TypeOK
<1>1. IInv => TypeOK
  BY TypesSuffice DEF IInv
<1> QED
  BY <1>1, Invariance, PTL
-----------------------------------------------------------------------------
(* Calls made and calls about to be made.                                   *)

\* The batches that are about to call Telegram for a notification.
Callers(n) == {p \in Processes : worker[p].pc = "send" /\ worker[p].n = n}

FewCallers == \A n \in Notifications : IsFiniteSet(Callers(n))

\* Calls made, and those that need no other claim.
Load(n) == sends[n] + Cardinality(Callers(n))

\* A claim of one notification by one batch.
Claims(p, n) ==
    /\ worker[p].pc = "claim" /\ Claimable(n)
    /\ row' = [row EXCEPT ![n] = Claimed(n)]
    /\ worker' = [worker EXCEPT ![p].pc = "send", ![p].n = n, ![p].attempt = row'[n].attempt]
    /\ UNCHANGED <<got, sends, trouble>>

LEMMA LoadType == ASSUME Types, FewCallers, NEW n \in Notifications PROVE Load(n) \in Nat
<1>1. Cardinality(Callers(n)) \in Nat /\ sends[n] \in Nat
  BY FS_CardinalityType DEF FewCallers, Types
<1> QED
  BY <1>1 DEF Load

LEMMA InitFew == Init => FewCallers /\ \A n \in Notifications : Load(n) = 0
<1> SUFFICES ASSUME Init, NEW n \in Notifications PROVE IsFiniteSet(Callers(n)) /\ Load(n) = 0
  BY DEF FewCallers
<1>1. Callers(n) = {}
  BY DEF Init, Callers, NoBatch
<1> QED
  BY <1>1, FS_EmptySet DEF Init, Load

\* Without a call and without a claim, batches can only be let go.
LEMMA LetGoLoad ==
    ASSUME Types, Types', FewCallers, NEW n \in Notifications,
           sends' = sends, Callers(n)' \subseteq Callers(n)
    PROVE  IsFiniteSet(Callers(n)') /\ Load(n)' <= Load(n)
<1>1. IsFiniteSet(Callers(n)') /\ Cardinality(Callers(n)') <= Cardinality(Callers(n))
  BY FS_Subset DEF FewCallers
<1>2. Cardinality(Callers(n)') \in Nat /\ Cardinality(Callers(n)) \in Nat /\ sends[n] \in Nat
  BY <1>1, FS_CardinalityType DEF FewCallers, Types
<1> QED
  BY <1>1, <1>2 DEF Load

LEMMA ClaimLoad ==
    ASSUME Types, FewCallers, NEW p \in Processes, NEW m \in Notifications, Claims(p, m),
           NEW n \in Notifications
    PROVE  /\ IsFiniteSet(Callers(n)')
           /\ Load(n)' = Load(n) + (IF n = m THEN 1 ELSE 0)
<1>0. worker[p] \in Batches /\ sends[n] \in Nat /\ IsFiniteSet(Callers(n))
      /\ Cardinality(Callers(n)) \in Nat
  BY FS_CardinalityType DEF Types, FewCallers
<1>1. /\ worker'[p].pc = "send" /\ worker'[p].n = m /\ worker[p].pc # "send"
      /\ \A q \in Processes : q # p => worker'[q] = worker[q]
  BY <1>0 DEF Claims, Types, Batches
<1>2. CASE n = m
  <2>1. Callers(n)' = Callers(n) \cup {p} /\ p \notin Callers(n)
    BY <1>1, <1>2 DEF Callers
  <2>2. IsFiniteSet(Callers(n)') /\ Cardinality(Callers(n)') = Cardinality(Callers(n)) + 1
    BY <1>0, <2>1, FS_AddElement
  <2> QED
    BY <1>0, <1>2, <2>2 DEF Load, Claims
<1>3. CASE n # m
  <2>1. Callers(n)' = Callers(n)
    BY <1>1, <1>3 DEF Callers
  <2> QED
    BY <1>0, <1>3, <2>1 DEF Load, Claims
<1> QED
  BY <1>2, <1>3

LEMMA CallLoad ==
    ASSUME IInv, FewCallers, NEW p \in Processes, NEW pc \in Holding \ {"send"}, Calls(p, pc),
           NEW n \in Notifications
    PROVE  IsFiniteSet(Callers(n)') /\ Load(n)' = Load(n)
<1>0. /\ sends[n] \in Nat /\ IsFiniteSet(Callers(n)) /\ Cardinality(Callers(n)) \in Nat
      /\ worker[p].n \in Notifications
  BY FS_CardinalityType DEF IInv, Types, FewCallers, HandsTell, Calls, Holding
<1>1. /\ worker[p].pc = "send" /\ worker'[p].pc # "send"
      /\ \A q \in Processes : q # p => worker'[q] = worker[q]
      /\ sends' = [sends EXCEPT ![worker[p].n] = @ + 1]
  BY DEF Calls, Goto, IInv, Types, Batches
<1>2. CASE n = worker[p].n
  <2>1. Callers(n)' = Callers(n) \ {p} /\ p \in Callers(n)
    BY <1>1, <1>2 DEF Callers
  <2>2. IsFiniteSet(Callers(n)') /\ Cardinality(Callers(n)') = Cardinality(Callers(n)) - 1
    BY <1>0, <2>1, FS_RemoveElement
  <2>3. sends'[n] = sends[n] + 1
    BY <1>1, <1>2 DEF IInv, Types
  <2> QED
    BY <1>0, <2>2, <2>3 DEF Load
<1>3. CASE n # worker[p].n
  <2>1. Callers(n)' = Callers(n)
    BY <1>1, <1>3 DEF Callers
  <2>2. sends'[n] = sends[n]
    BY <1>1, <1>3 DEF IInv, Types
  <2> QED
    BY <1>0, <2>1, <2>2 DEF Load
<1> QED
  BY <1>2, <1>3

\* Only a claim makes one call more possible, and only for what it has claimed.
LEMMA LoadStep ==
    ASSUME IInv, FewCallers, Types', [Next]_vars, NEW n \in Notifications
    PROVE  /\ IsFiniteSet(Callers(n)')
           /\ Load(n)' <= Load(n) \/ (Load(n)' = Load(n) + 1 /\ \E p \in Processes : Claims(p, n))
<1>t. Load(n) \in Nat
  BY LoadType DEF IInv
<1>1. ASSUME sends' = sends, \A q \in Processes : worker'[q] = worker[q] \/ worker'[q].pc # "send"
      PROVE  IsFiniteSet(Callers(n)') /\ Load(n)' <= Load(n)
  <2>1. Callers(n)' \subseteq Callers(n)
    BY <1>1 DEF Callers
  <2> QED
    BY <1>1, <2>1, LetGoLoad DEF IInv
<1>2. CASE UNCHANGED vars
  BY <1>1, <1>2 DEF vars
<1>3. ASSUME NEW m \in Notifications, Create(m) \/ BecomesDue(m) \/ LeaseEnds(m)
      PROVE  IsFiniteSet(Callers(n)') /\ Load(n)' <= Load(n)
  BY <1>1, <1>3 DEF Create, BecomesDue, LeaseEnds
<1>4. ASSUME NEW p \in Processes,
             Tick(p) \/ BeginShutdown(p) \/ EndShutdown(p) \/ Start(p) \/ Crash(p)
      PROVE  IsFiniteSet(Callers(n)') /\ Load(n)' <= Load(n)
  BY <1>1, <1>4 DEF Tick, BeginShutdown, EndShutdown, Start, Crash, IInv, Types, NoBatch
<1>5. ASSUME NEW p \in Processes, Check(p) \/ ClaimNothing(p) \/ ClaimFails(p) \/ BatchFails(p)
      PROVE  IsFiniteSet(Callers(n)') /\ Load(n)' <= Load(n)
  BY <1>1, <1>5 DEF Check, ClaimNothing, ClaimFails, BatchFails, Completes, Goto, IInv, Types,
                    Batches, NoBatch
<1>6. ASSUME NEW p \in Processes, SendAccepted(p) \/ SendRetryable(p) \/ SendRejected(p)
      PROVE  IsFiniteSet(Callers(n)') /\ Load(n)' <= Load(n)
  BY <1>6, <1>t, CallLoad DEF SendAccepted, SendRetryable, SendRejected, Holding
<1>7. ASSUME NEW p \in Processes, MarkSent(p) \/ ReleaseForRetry(p) \/ MarkFailed(p)
      PROVE  IsFiniteSet(Callers(n)') /\ Load(n)' <= Load(n)
  BY <1>1, <1>7 DEF MarkSent, ReleaseForRetry, MarkFailed, Records, IInv, Types, NoBatch
<1>8. ASSUME NEW p \in Processes, Claim(p)
      PROVE  /\ IsFiniteSet(Callers(n)')
             /\ Load(n)' <= Load(n) \/ (Load(n)' = Load(n) + 1 /\ Claims(p, n))
  <2>1. PICK m \in Notifications : Claims(p, m)
    BY <1>8 DEF Claim, Claims
  <2> QED
    BY <2>1, <1>t, ClaimLoad DEF IInv
<1> QED
  BY <1>2, <1>3, <1>4, <1>5, <1>6, <1>7, <1>8 DEF Next, Batch

\* What a step makes of one row.
ClaimedBy(n) ==
    Claimable(n) /\ row'[n] = Claimed(n) /\ (trouble' = trouble + 1 \/ \E p \in Processes : Claims(p, n))

EndsLease(n) ==
    /\ row[n].status = "SENDING" /\ row'[n] = [row[n] EXCEPT !.lease = FALSE]
    /\ \A p \in Processes : Holder(p, n) => trouble' = trouble + 1

Recorded(n) ==
    \E p \in Processes : /\ Holder(p, n) /\ row'[n].attempt = row[n].attempt
                         /\ row'[n].status = "PENDING" => worker[p].pc = "release"
                         /\ row'[n].status \in {"PENDING", "SENT", "FAILED"}

Prepared(n) ==
    /\ row[n].status \in {"NONE", "PENDING"}
    /\ row'[n].status = "PENDING" /\ row'[n].attempt = row[n].attempt

LEMMA RowStep ==
    ASSUME IInv, [Next]_vars, NEW n \in Notifications
    PROVE  row'[n] = row[n] \/ Prepared(n) \/ EndsLease(n) \/ ClaimedBy(n) \/ Recorded(n)
<1>0. row[n] \in Rows /\ row \in [Notifications -> Rows]
  BY DEF IInv, Types
<1>1. CASE UNCHANGED vars
  BY <1>1 DEF vars
<1>2. ASSUME NEW m \in Notifications, Create(m) \/ BecomesDue(m)
      PROVE  row'[n] = row[n] \/ Prepared(n)
  <2>1. row'[n] = row[n] \/ (n = m /\ row'[n] = [row[n] EXCEPT !.status = "PENDING", !.due = TRUE]
                                   /\ row[n].status \in {"NONE", "PENDING"})
    <3>1. CASE Create(m)
      BY <1>0, <3>1 DEF Create, Rows
    <3>2. CASE BecomesDue(m)
      BY <1>0, <3>2 DEF BecomesDue, Rows
    <3> QED
      BY <1>2, <3>1, <3>2
  <2> QED
    BY <1>0, <2>1 DEF Prepared, Rows
<1>3. ASSUME NEW m \in Notifications, LeaseEnds(m) PROVE row'[n] = row[n] \/ EndsLease(n)
  BY <1>0, <1>3 DEF LeaseEnds, EndsLease, Trouble, Rows
<1>4. ASSUME NEW p \in Processes, Claim(p) PROVE row'[n] = row[n] \/ ClaimedBy(n)
  <2>1. PICK m \in Notifications : Claims(p, m)
    BY <1>4 DEF Claim, Claims
  <2>2. CASE n = m
    BY <1>0, <2>1, <2>2 DEF Claims, ClaimedBy
  <2>3. CASE n # m
    BY <1>0, <2>1, <2>3 DEF Claims
  <2> QED
    BY <2>2, <2>3
<1>5. ASSUME NEW p \in Processes, ClaimFails(p) PROVE row'[n] = row[n] \/ ClaimedBy(n)
  <2>1. PICK m \in Notifications : Claimable(m) /\ row' = [row EXCEPT ![m] = Claimed(m)]
    BY <1>5 DEF ClaimFails
  <2>2. trouble' = trouble + 1
    BY <1>5 DEF ClaimFails, Trouble
  <2> QED
    BY <1>0, <2>1, <2>2 DEF ClaimedBy
<1>6. ASSUME NEW p \in Processes, MarkSent(p) \/ ReleaseForRetry(p) \/ MarkFailed(p)
      PROVE  row'[n] = row[n] \/ Recorded(n)
  <2>1. PICK status \in {"PENDING", "SENT", "FAILED"} :
          /\ row' = IF Holds(p)
                    THEN [row EXCEPT ![worker[p].n].status = status, ![worker[p].n].due = FALSE,
                                     ![worker[p].n].lease = FALSE]
                    ELSE row
          /\ worker[p].pc \in Holding
          /\ status = "PENDING" => worker[p].pc = "release"
    BY <1>6 DEF MarkSent, ReleaseForRetry, MarkFailed, Records, Holding
  <2>2. CASE ~Holds(p) \/ n # worker[p].n
    BY <1>0, <2>1, <2>2
  <2>3. CASE Holds(p) /\ n = worker[p].n
    <3>1. row'[n].status = status /\ row'[n].attempt = row[n].attempt
      BY <1>0, <2>1, <2>3 DEF Rows
    <3>2. Holder(p, n)
      BY <2>1, <2>3 DEF Holder, Holding
    <3> QED
      BY <2>1, <3>1, <3>2 DEF Recorded
  <2> QED
    BY <2>2, <2>3
<1>7. ASSUME NEW p \in Processes,
             \/ Tick(p) \/ BeginShutdown(p) \/ EndShutdown(p) \/ Start(p) \/ Crash(p) \/ Check(p)
             \/ ClaimNothing(p) \/ BatchFails(p) \/ SendAccepted(p) \/ SendRetryable(p) \/ SendRejected(p)
      PROVE  row' = row
  BY <1>7 DEF Tick, BeginShutdown, EndShutdown, Start, Crash, Check, ClaimNothing, BatchFails,
              SendAccepted, SendRetryable, SendRejected, Calls
<1> QED
  BY <1>1, <1>2, <1>3, <1>4, <1>5, <1>6, <1>7 DEF Next, Batch

LEMMA TroubleGrows ==
    ASSUME IInv, [Next]_vars PROVE trouble' = trouble \/ trouble' = trouble + 1
  BY DEF Next, Batch, vars, Create, BecomesDue, LeaseEnds, Tick, BeginShutdown, EndShutdown, Start,
         Check, Claim, ClaimNothing, ClaimFails, SendAccepted, SendRetryable, SendRejected, Calls,
         MarkSent, ReleaseForRetry, MarkFailed, Records, BatchFails, Crash, Trouble

\* Every call there is or may be was counted by a claim.
Counted == FewCallers /\ \A n \in Notifications : Load(n) <= row[n].attempt

LEMMA CountedStep == ASSUME IInv, Counted, IInv', [Next]_vars PROVE Counted'
<1> SUFFICES ASSUME NEW n \in Notifications
             PROVE  IsFiniteSet(Callers(n)') /\ Load(n)' <= row'[n].attempt
  BY DEF Counted, FewCallers
<1>1. /\ Load(n) \in Nat /\ Load(n) <= row[n].attempt
      /\ row[n] \in Rows /\ row[n].attempt \in Nat /\ row'[n].attempt \in Nat
  BY LoadType DEF Counted, IInv, Types, Rows
<1>2. /\ IsFiniteSet(Callers(n)')
      /\ Load(n)' <= Load(n) \/ (Load(n)' = Load(n) + 1 /\ \E p \in Processes : Claims(p, n))
  BY LoadStep DEF Counted, IInv
<1>3. row'[n].attempt >= row[n].attempt
  <2>1. CASE row'[n] = row[n] \/ EndsLease(n) \/ ClaimedBy(n)
    BY <1>1, <2>1 DEF EndsLease, ClaimedBy, Claimed, Rows
  <2>2. CASE Prepared(n) \/ Recorded(n)
    BY <1>1, <2>2 DEF Prepared, Recorded
  <2> QED
    BY <2>1, <2>2, RowStep
<1>4. ASSUME NEW p \in Processes, Claims(p, n) PROVE row'[n].attempt = row[n].attempt + 1
  BY <1>4 DEF Claims, Claimed, IInv, Types
<1>5. Load(n)' \in Nat
  <2>1. FewCallers'
    BY LoadStep DEF FewCallers, Counted, IInv
  <2> QED
    BY <2>1, FS_CardinalityType DEF Load, IInv, Types, FewCallers
<1> QED
  BY <1>1, <1>2, <1>3, <1>4, <1>5

\* No call to Telegram escapes the count, with any number of processes, faults
\* and shutdowns: an attempt is counted before its call.
THEOREM CallsCounted == Spec => []CallsAreCounted
<1>1. Init => Counted
  BY InitFew DEF Init, Counted, Absent
<1>2. IInv /\ Counted /\ IInv' /\ [Next]_vars => Counted'
  BY CountedStep
<1>3. IInv /\ Counted => CallsAreCounted
  <2> SUFFICES ASSUME IInv, Counted, NEW n \in Notifications PROVE sends[n] <= row[n].attempt
    BY DEF CallsAreCounted
  <2>1. Cardinality(Callers(n)) \in Nat /\ sends[n] \in Nat /\ row[n].attempt \in Nat
    BY FS_CardinalityType DEF Counted, FewCallers, IInv, Types, Rows
  <2>2. Load(n) <= row[n].attempt
    BY DEF Counted
  <2> QED
    BY <2>1, <2>2 DEF Load
<1> QED
  BY <1>1, <1>2, <1>3, Invariance, PTL DEF Spec
-----------------------------------------------------------------------------
(* Repeats, and what a shutdown leaves behind.                              *)

\* What becomes of a batch that holds a notification whose row stays the same.
LEMMA HolderStep ==
    ASSUME IInv, [Next]_vars, NEW n \in Notifications, row'[n] = row[n],
           NEW q \in Processes, Holder(q, n)
    PROVE  \/ Holder(q, n)' /\ (worker'[q].pc = "release" => worker[q].pc = "release")
           \/ trouble' = trouble + 1
<1>0. /\ worker[q].pc \in Holding /\ worker[q].n = n /\ Holds(q)
      /\ row[n] \in Rows /\ worker[q] \in Batches
  BY DEF Holder, Holding, IInv, Types
<1>1. ASSUME worker'[q] = worker[q] PROVE Holder(q, n)'
  BY <1>0, <1>1 DEF Holder, Holds, Holding
<1>2. CASE UNCHANGED vars
  BY <1>1, <1>2 DEF vars
<1>3. ASSUME NEW m \in Notifications, Create(m) \/ BecomesDue(m) \/ LeaseEnds(m) PROVE worker' = worker
  BY <1>3 DEF Create, BecomesDue, LeaseEnds
<1>4. ASSUME NEW p \in Processes,
             Tick(p) \/ BeginShutdown(p) \/ EndShutdown(p) \/ Start(p) \/ Check(p) \/ Claim(p)
             \/ ClaimNothing(p)
      PROVE  worker'[q] = worker[q]
  <2>1. LoopRuns!(p) /\ worker \in [Processes -> Batches]
    BY DEF IInv, LoopRuns, Types
  <2>2. CASE p # q
    BY <1>4, <2>1, <2>2 DEF Tick, BeginShutdown, EndShutdown, Start, Check, Claim, ClaimNothing, Goto,
                            Completes
  <2>3. CASE p = q
    BY <1>0, <1>4, <2>1, <2>3 DEF Tick, MayStart, BeginShutdown, EndShutdown, Awaited, Start, Check,
                                  Claim, ClaimNothing, Holding
  <2> QED
    BY <2>2, <2>3
<1>5. ASSUME NEW p \in Processes, ClaimFails(p) \/ BatchFails(p) \/ Crash(p) \/ SendRetryable(p)
      PROVE  trouble' = trouble + 1
  BY <1>5 DEF ClaimFails, BatchFails, Crash, SendRetryable, Trouble
<1>6. ASSUME NEW p \in Processes, SendAccepted(p) \/ SendRejected(p)
      PROVE  Holder(q, n)' /\ (worker'[q].pc = "release" => worker[q].pc = "release")
  <2>1. PICK pc \in {"markSent", "markFailed"} : Calls(p, pc)
    BY <1>6 DEF SendAccepted, SendRejected
  <2>2. /\ worker'[q].n = worker[q].n /\ worker'[q].attempt = worker[q].attempt
        /\ worker'[q].pc = worker[q].pc \/ worker'[q].pc = pc
    BY <1>0, <2>1 DEF Calls, Goto, IInv, Types, Batches
  <2>3. row' = row
    BY <2>1 DEF Calls
  <2> QED
    BY <1>0, <2>2, <2>3 DEF Holder, Holds, Holding
<1>7. ASSUME NEW p \in Processes, MarkSent(p) \/ ReleaseForRetry(p) \/ MarkFailed(p)
      PROVE  worker'[q] = worker[q]
  <2>1. PICK status \in {"PENDING", "SENT", "FAILED"} :
          /\ row' = IF Holds(p)
                    THEN [row EXCEPT ![worker[p].n].status = status, ![worker[p].n].due = FALSE,
                                     ![worker[p].n].lease = FALSE]
                    ELSE row
          /\ \A o \in Processes : o # p => worker'[o] = worker[o]
    BY <1>7 DEF MarkSent, ReleaseForRetry, MarkFailed, Records, IInv, Types
  <2>2. p # q
    <3> SUFFICES ASSUME p = q PROVE FALSE
      OBVIOUS
    <3>1. row'[n].status = status /\ row[n].status = "SENDING"
      BY <1>0, <2>1 DEF Holds, IInv, Types, Rows
    <3> QED
      BY <3>1
  <2> QED
    BY <2>1, <2>2
<1> QED
  BY <1>1, <1>2, <1>3, <1>4, <1>5, <1>6, <1>7 DEF Next, Batch

\* No batch will close the notification, short of another claim.
Open(n) ==
    \/ row[n].status \in {"NONE", "PENDING"}
    \/ row[n].status = "SENDING"
       /\ (~row[n].lease \/ \A p \in Processes : Holder(p, n) => worker[p].pc = "release")

LEMMA ClaimCloses ==
    ASSUME IInv, NEW p \in Processes, NEW n \in Notifications, Claims(p, n)
    PROVE  Open(n) /\ ~Open(n)' /\ Holder(p, n)' /\ trouble' = trouble
<1>1. /\ row'[n] = Claimed(n) /\ row[n] \in Rows
      /\ worker'[p].pc = "send" /\ worker'[p].n = n /\ worker'[p].attempt = row'[n].attempt
  BY DEF Claims, IInv, Types, Batches
<1>2. Holder(p, n)'
  BY <1>1 DEF Holder, Holds, Claimed
<1>3. Open(n) /\ trouble' = trouble
  BY DEF Open, Claimable, Claims
<1>4. ~Open(n)'
  BY <1>1, <1>2 DEF Open, Claimed
<1> QED
  BY <1>2, <1>3, <1>4

\* What was in the hands of a batch is open again only through trouble.
LEMMA OpenStep ==
    ASSUME IInv, [Next]_vars, NEW n \in Notifications, Open(n)'
    PROVE  Open(n) \/ trouble' = trouble + 1
<1>0. row[n] \in Rows
  BY DEF IInv, Types
<1>1. CASE row'[n] = row[n]
  <2> SUFFICES ASSUME ~Open(n), trouble' # trouble + 1 PROVE FALSE
    OBVIOUS
  <2>1. PICK q \in Processes : Holder(q, n) /\ worker[q].pc # "release"
    BY <1>1 DEF Open
  <2>2. Holder(q, n)' /\ worker'[q].pc # "release"
    BY <1>1, <2>1, HolderStep
  <2> QED
    BY <1>1, <2>2 DEF Open
<1>2. CASE Prepared(n)
  BY <1>2 DEF Prepared, Open
<1>3. CASE EndsLease(n)
  BY <1>3 DEF EndsLease, Open
<1>4. CASE ClaimedBy(n)
  BY <1>4 DEF ClaimedBy, Claimable, Open
<1>5. CASE Recorded(n)
  <2>1. PICK p \in Processes : /\ Holder(p, n) /\ row'[n].attempt = row[n].attempt
                               /\ row'[n].status = "PENDING" => worker[p].pc = "release"
                               /\ row'[n].status \in {"PENDING", "SENT", "FAILED"}
    BY <1>5 DEF Recorded
  <2>2. worker[p].pc = "release"
    BY <2>1 DEF Open
  <2>3. \A q \in Processes : Holder(q, n) => q = p
    BY <2>1 DEF Holder, Holds, IInv, AttemptsDiffer, Holding
  <2>4. row[n].status = "SENDING"
    BY <2>1 DEF Holder, Holds
  <2> QED
    BY <2>2, <2>3, <2>4 DEF Open
<1> QED
  BY <1>1, <1>2, <1>3, <1>4, <1>5, RowStep

\* A call that is possible needs one that has not been made, or trouble.
Explained ==
    FewCallers /\ \A n \in Notifications : Load(n) + (IF Open(n) THEN 1 ELSE 0) <= 1 + trouble

LEMMA ExplainedStep == ASSUME IInv, Explained, IInv', [Next]_vars PROVE Explained'
<1> SUFFICES ASSUME NEW n \in Notifications
             PROVE  IsFiniteSet(Callers(n)') /\ (Load(n) + (IF Open(n) THEN 1 ELSE 0) <= 1 + trouble)'
  BY DEF Explained, FewCallers
<1>1. /\ Load(n) \in Nat /\ Load(n) + (IF Open(n) THEN 1 ELSE 0) <= 1 + trouble /\ trouble \in Nat
  BY LoadType DEF Explained, IInv, Types
<1>2. /\ IsFiniteSet(Callers(n)')
      /\ Load(n)' <= Load(n) \/ (Load(n)' = Load(n) + 1 /\ \E p \in Processes : Claims(p, n))
  BY LoadStep DEF Explained, IInv
<1>3. Load(n)' \in Nat
  <2>1. FewCallers'
    BY LoadStep DEF FewCallers, Explained, IInv
  <2> QED
    BY <2>1, FS_CardinalityType DEF Load, IInv, Types, FewCallers
<1>4. CASE \E p \in Processes : Claims(p, n)
  <2>1. Open(n) /\ ~Open(n)' /\ trouble' = trouble
    BY <1>4, ClaimCloses
  <2> QED
    BY <1>1, <1>2, <1>3, <2>1
<1>5. CASE Load(n)' <= Load(n)
  BY <1>1, <1>2, <1>3, <1>5, OpenStep, TroubleGrows
<1> QED
  BY <1>2, <1>4, <1>5

\* A message is sent again only after a retryable answer or a fault, however
\* many processes overlap, start and shut down.
THEOREM RepeatsExplained == Spec => []RepeatsAreExplained
<1>1. Init => Explained
  BY InitFew DEF Init, Explained
<1>2. IInv /\ Explained /\ IInv' /\ [Next]_vars => Explained'
  BY ExplainedStep
<1>3. IInv /\ Explained => RepeatsAreExplained
  <2> SUFFICES ASSUME IInv, Explained, NEW n \in Notifications PROVE sends[n] <= 1 + trouble
    BY DEF RepeatsAreExplained
  <2>1. Cardinality(Callers(n)) \in Nat /\ sends[n] \in Nat /\ trouble \in Nat
    BY FS_CardinalityType DEF Explained, FewCallers, IInv, Types
  <2>2. Load(n) + (IF Open(n) THEN 1 ELSE 0) <= 1 + trouble
    BY DEF Explained
  <2> QED
    BY <2>1, <2>2 DEF Load
<1> QED
  BY <1>1, <1>2, <1>3, Invariance, PTL DEF Spec

\* Every leased notification is held.
Held == trouble = 0 => \A n \in Notifications :
            row[n].status = "SENDING" => \E p \in Processes : Holder(p, n)

LEMMA HeldStep == ASSUME IInv, Held, [Next]_vars PROVE Held'
<1> SUFFICES ASSUME trouble' = 0, NEW n \in Notifications, row'[n].status = "SENDING"
             PROVE  \E p \in Processes : Holder(p, n)'
  BY DEF Held
<1>1. trouble = 0 /\ trouble' # trouble + 1
  BY TroubleGrows DEF IInv, Types
<1>2. CASE row'[n] = row[n]
  BY <1>1, <1>2, HolderStep DEF Held
<1>3. CASE Prepared(n) \/ Recorded(n)
  BY <1>3 DEF Prepared, Recorded
<1>4. CASE EndsLease(n)
  BY <1>1, <1>4 DEF EndsLease, Held
<1>5. CASE ClaimedBy(n)
  BY <1>1, <1>5, ClaimCloses DEF ClaimedBy
<1> QED
  BY <1>2, <1>3, <1>4, <1>5, RowStep

\* Without a fault no shutdown leaves a leased notification behind.
THEOREM NothingIsLeft == Spec => []NothingLeftBehind
<1>1. Init => Held
  BY DEF Init, Held, Absent
<1>2. IInv /\ Held /\ [Next]_vars => Held'
  BY HeldStep
<1>3. IInv /\ Held => NothingLeftBehind
  BY DEF IInv, LoopRuns, Held, NothingLeftBehind, Holder
<1> QED
  BY <1>1, <1>2, <1>3, Invariance, PTL DEF Spec
-----------------------------------------------------------------------------
(* The promise.                                                             *)

LEMMA StepKeepsPromise == ASSUME IInv, [Next]_vars PROVE [Promise!Next]_(Promise!vars)
<1>0. \A m \in Notifications : row[m] \in Rows
  BY DEF IInv, Types
<1>o. \A m \in Notifications : Outcome[m] = IF row[m].status \in {"PENDING", "SENDING"} THEN "OPEN"
                                           ELSE row[m].status
  BY DEF Outcome
<1>1. ASSUME got' = got, \A m \in Notifications :
             row'[m].status = row[m].status
               \/ (row[m].status \in {"PENDING", "SENDING"} /\ row'[m].status \in {"PENDING", "SENDING"})
      PROVE  [Promise!Next]_(Promise!vars)
  <2>1. Outcome' = Outcome
    BY <1>1 DEF Outcome
  <2> QED
    BY <1>1, <2>1 DEF Promise!vars
<1>2. CASE UNCHANGED vars
  BY <1>1, <1>2 DEF vars
<1>3. ASSUME NEW n \in Notifications, Create(n) PROVE Promise!PlanSome
  <2>1. Outcome[n] = "NONE" /\ {n} \in SUBSET {d \in Notifications : Outcome[d] = "NONE"}
    BY <1>3, <1>o DEF Create
  <2>2. \A m \in Notifications : row'[m].status = IF m = n THEN "PENDING" ELSE row[m].status
    BY <1>0, <1>3 DEF Create, IInv, Types, Rows
  <2>3. Outcome' = [d \in Notifications |-> IF d \in {n} THEN "OPEN" ELSE Outcome[d]]
    BY <2>2 DEF Outcome
  <2>4. got' = got
    BY <1>3 DEF Create
  <2> HIDE DEF Outcome
  <2> QED
    BY <2>1, <2>3, <2>4 DEF Promise!PlanSome
<1>4. ASSUME NEW n \in Notifications, BecomesDue(n) \/ LeaseEnds(n) PROVE [Promise!Next]_(Promise!vars)
  BY <1>0, <1>1, <1>4 DEF BecomesDue, LeaseEnds, IInv, Types, Rows
<1>5. ASSUME NEW p \in Processes, Claim(p) \/ ClaimFails(p) PROVE [Promise!Next]_(Promise!vars)
  <2>1. PICK n \in Notifications : Claimable(n) /\ row' = [row EXCEPT ![n] = Claimed(n)]
    BY <1>5 DEF Claim, ClaimFails
  <2>2. got' = got
    BY <1>5 DEF Claim, ClaimFails
  <2> QED
    BY <1>1, <2>1, <2>2 DEF Claimable, Claimed, IInv, Types
<1>6. ASSUME NEW p \in Processes,
             \/ Tick(p) \/ BeginShutdown(p) \/ EndShutdown(p) \/ Start(p) \/ Crash(p) \/ Check(p)
             \/ ClaimNothing(p) \/ BatchFails(p)
      PROVE  [Promise!Next]_(Promise!vars)
  BY <1>1, <1>6 DEF Tick, BeginShutdown, EndShutdown, Start, Crash, Check, ClaimNothing, BatchFails
\* A message that arrives belongs to a notification somebody claimed.
<1>7. ASSUME NEW p \in Processes, SendAccepted(p) \/ SendRetryable(p) \/ SendRejected(p)
      PROVE  [Promise!Next]_(Promise!vars)
  <2>1. /\ worker[p].n \in Notifications /\ row[worker[p].n].status # "NONE" /\ row' = row
        /\ got' \in {got, got \union {worker[p].n}}
    BY <1>7 DEF SendAccepted, SendRetryable, SendRejected, Calls, IInv, HandsTell, Holding
  <2>2. Outcome' = Outcome /\ Outcome[worker[p].n] # "NONE"
    BY <2>1 DEF Outcome
  <2>3. CASE got' = got
    BY <2>2, <2>3 DEF Promise!vars
  <2>4. CASE got' = got \union {worker[p].n}
    BY <2>1, <2>2, <2>4 DEF Promise!Next, Promise!Arrive
  <2> QED
    BY <2>1, <2>3, <2>4
\* Only the holder of a row closes it, as sent only what Telegram accepted.
<1>8. ASSUME NEW p \in Processes, NEW status \in {"PENDING", "SENT", "FAILED"}, NEW pc \in Holding,
             Records(p, pc, status), status = "SENT" => pc = "markSent"
      PROVE  [Promise!Next]_(Promise!vars)
  <2>1. /\ got' = got /\ worker[p].n \in Notifications
        /\ status = "SENT" => worker[p].n \in got
    BY <1>8 DEF Records, IInv, HandsTell
  <2>2. CASE ~Holds(p)
    BY <1>1, <1>8, <2>1, <2>2 DEF Records
  <2>3. CASE Holds(p)
    <3> DEFINE n == worker[p].n
    <3>1. /\ row[n].status = "SENDING"
          /\ \A m \in Notifications : row'[m].status = IF m = n THEN status ELSE row[m].status
      BY <1>0, <1>8, <2>1, <2>3 DEF Records, Holds, IInv, Types, Rows
    <3>2. CASE status = "PENDING"
      BY <1>1, <2>1, <3>1, <3>2
    <3>3. CASE status # "PENDING"
      <4>1. {n} \in SUBSET {d \in Notifications : Outcome[d] = "OPEN"}
        BY <2>1, <3>1, <1>o
      <4>2. Outcome' = [d \in Notifications |-> IF d \in {n} THEN status ELSE Outcome[d]]
        BY <1>8, <3>1, <3>3 DEF Outcome
      <4>3. status = "SENT" => {n} \subseteq got
        BY <2>1
      <4> HIDE DEF Outcome, n
      <4>4. Promise!CloseSome(status)
        BY <2>1, <4>1, <4>2, <4>3 DEF Promise!CloseSome
      <4> QED
        BY <1>8, <3>3, <4>4 DEF Promise!Next, Promise!Finals
    <3> QED
      BY <3>2, <3>3
  <2> QED
    BY <2>2, <2>3
<1>9. ASSUME NEW p \in Processes, MarkSent(p) \/ ReleaseForRetry(p) \/ MarkFailed(p)
      PROVE  [Promise!Next]_(Promise!vars)
  BY <1>8, <1>9 DEF MarkSent, ReleaseForRetry, MarkFailed, Holding
<1> QED
  BY <1>2, <1>3, <1>4, <1>5, <1>6, <1>7, <1>9 DEF Next, Batch, Promise!Next

\* The outbox implements the promise DeliveryOutcome makes of every message.
THEOREM OutboxKeepsPromise == Spec => KeepsPromise
<1>1. Init => Promise!Init
  BY DEF Init, Absent, Outcome, Promise!Init
<1>2. IInv /\ [Next]_vars => [Promise!Next]_(Promise!vars)
  BY StepKeepsPromise
<1> QED
  BY <1>1, <1>2, Invariance, PTL DEF Spec, KeepsPromise, Promise!Spec
=============================================================================
