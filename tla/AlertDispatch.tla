------------------------------ MODULE AlertDispatch ------------------------------
(***************************************************************************)
(* The shared-chat outbox: notifications written with their alerts, and    *)
(* the processes that claim them one by one under a lease, send them and   *)
(* record the answer, from their start to their shutdown.                  *)
(* Sources: alert-notifications (outbox repository, dispatcher, transport) *)
(* and alert-notification-scheduler in modules/.                           *)
(*                                                                         *)
(* Time is what it makes possible: a retry is due or not, a lease is in    *)
(* force or over.  Which due notification is the oldest is left open.  A   *)
(* lock token is new with every claim and so is the attempt number, which  *)
(* stands for both.                                                        *)
(***************************************************************************)
EXTENDS Naturals

CONSTANTS
    Notifications,  \* alert_notification_outbox ids
    Processes,      \* API processes: the one that is replaced and its successor
    BatchSize,      \* telegramNotifications.batchSize
    MaxTrouble,     \* bound: retryable answers, failed calls, stalls and crashes
    MaxShutdowns    \* bound: processes shut down in order

ASSUME DispatchAssumption ==
    BatchSize \in Nat \ {0} /\ MaxTrouble \in Nat /\ MaxShutdowns \in Nat

VARIABLES
    row,        \* the alert_notification_outbox rows
    process,    \* the scheduler of each process
    worker,     \* the batch of each process
    got,        \* notifications Telegram accepted
    sends,      \* calls made to Telegram, by notification
    trouble,    \* retryable answers and faults so far
    shutdowns   \* shutdowns so far

vars == <<row, process, worker, got, sends, trouble, shutdowns>>

Absent == [status |-> "NONE", due |-> FALSE, lease |-> FALSE, attempt |-> 0]

\* running is the status service's flag, aborted the signal of the batch.
Up == [phase |-> "up", running |-> FALSE, aborted |-> FALSE]

\* No notification has attempt 0.
NoBatch == [pc |-> "idle", claimed |-> 0, n |-> "none", attempt |-> 0]

Init ==
    /\ row = [n \in Notifications |-> Absent]
    /\ process = [p \in Processes |-> Up]
    /\ worker = [p \in Processes |-> NoBatch]
    /\ got = {}
    /\ sends = [n \in Notifications |-> 0]
    /\ trouble = 0
    /\ shutdowns = 0

Trouble == trouble < MaxTrouble /\ trouble' = trouble + 1

\* registerInTransaction, with the alert.
Create(n) ==
    /\ row[n].status = "NONE"
    /\ row' = [row EXCEPT ![n].status = "PENDING", ![n].due = TRUE]
    /\ UNCHANGED <<process, worker, got, sends, trouble, shutdowns>>
-----------------------------------------------------------------------------
(* The scheduler.                                                           *)

\* A tick while a batch runs is skipped, and one during the shutdown too.
MayStart(p) == process[p].phase = "up" /\ ~process[p].running

Tick(p) ==
    /\ MayStart(p)
    /\ process' = [process EXCEPT ![p] = [Up EXCEPT !.running = TRUE]]
    /\ worker' = [worker EXCEPT ![p] = [NoBatch EXCEPT !.pc = "check"]]
    /\ UNCHANGED <<row, got, sends, trouble, shutdowns>>

\* The batch resolves or rejects: its process is ready for the next tick.
Completes(p) ==
    /\ worker' = [worker EXCEPT ![p] = NoBatch]
    /\ process' = [process EXCEPT ![p].running = FALSE, ![p].aborted = FALSE]

\* destroy: the interval is deleted and the batch is told to stop.
BeginShutdown(p) ==
    /\ process[p].phase = "up" /\ shutdowns < MaxShutdowns
    /\ process' = [process EXCEPT ![p].phase = "stopping", ![p].aborted = process[p].running]
    /\ shutdowns' = shutdowns + 1
    /\ UNCHANGED <<row, worker, got, sends, trouble>>

\* Mutant: destroy does not wait.
AwaitedNobody(p) == process[p].phase = "stopping"

\* The active batch has ended.
Awaited(p) == process[p].phase = "stopping" /\ worker[p].pc = "idle"

\* destroy resolves, and the process is gone.
EndShutdown(p) ==
    /\ Awaited(p)
    /\ process' = [process EXCEPT ![p] = [Up EXCEPT !.phase = "down"]]
    /\ worker' = [worker EXCEPT ![p] = NoBatch]
    /\ UNCHANGED <<row, got, sends, trouble, shutdowns>>

\* onModuleInit of the next process.
Start(p) ==
    /\ process[p].phase = "down"
    /\ process' = [process EXCEPT ![p] = Up]
    /\ UNCHANGED <<row, worker, got, sends, trouble, shutdowns>>
-----------------------------------------------------------------------------
(* The dispatcher.                                                          *)

Goto(p, pc) == worker' = [worker EXCEPT ![p].pc = pc]

Enough(p) == worker[p].claimed >= BatchSize

\* The head of the loop.
Check(p) ==
    /\ worker[p].pc = "check"
    /\ IF process[p].aborted \/ Enough(p)
       THEN Completes(p)
       ELSE Goto(p, "claim") /\ UNCHANGED process
    /\ UNCHANGED <<row, got, sends, trouble, shutdowns>>

\* Mutant: a lease protects nobody.
ClaimableAlways(n) ==
    \/ row[n].status = "PENDING" /\ row[n].due
    \/ row[n].status = "SENDING"

\* Mutant: what was left behind is not taken up.
ClaimablePending(n) == row[n].status = "PENDING" /\ row[n].due

\* Mutant: what has failed is taken up with the rest.
ClaimableFailed(n) == row[n].status \in {"PENDING", "FAILED", "SENDING"} /\ ~row[n].lease

Claimable(n) ==
    \/ row[n].status = "PENDING" /\ row[n].due
    \/ row[n].status = "SENDING" /\ ~row[n].lease

\* Mutant: taking over what another left behind is not counted as an attempt.
ClaimedUncounted(n) ==
    [status |-> "SENDING", due |-> TRUE, lease |-> TRUE,
     attempt |-> IF row[n].status = "SENDING" THEN row[n].attempt ELSE row[n].attempt + 1]

\* A claim counts as an attempt, whatever becomes of it.
Claimed(n) == [status |-> "SENDING", due |-> TRUE, lease |-> TRUE, attempt |-> row[n].attempt + 1]

\* claimNextBatch of one; rows others are claiming are skipped.
Claim(p) ==
    /\ worker[p].pc = "claim"
    /\ \E n \in Notifications :
         /\ Claimable(n)
         /\ row' = [row EXCEPT ![n] = Claimed(n)]
         /\ worker' = [worker EXCEPT ![p].pc = "send", ![p].n = n, ![p].attempt = row'[n].attempt]
    /\ UNCHANGED <<process, got, sends, trouble, shutdowns>>

ClaimNothing(p) ==
    /\ worker[p].pc = "claim"
    /\ \A n \in Notifications : ~Claimable(n)
    /\ Completes(p)
    /\ UNCHANGED <<row, got, sends, trouble, shutdowns>>

\* The claim commits, but its answer is lost or cannot be used.
ClaimFails(p) ==
    /\ worker[p].pc = "claim"
    /\ \E n \in Notifications : Claimable(n) /\ row' = [row EXCEPT ![n] = Claimed(n)]
    /\ Completes(p)
    /\ Trouble
    /\ UNCHANGED <<got, sends, shutdowns>>

\* A call to Telegram, and where the batch goes from there.
Calls(p, pc) ==
    /\ worker[p].pc = "send"
    /\ sends' = [sends EXCEPT ![worker[p].n] = @ + 1]
    /\ Goto(p, pc)
    /\ UNCHANGED <<row, process, shutdowns>>

SendAccepted(p) ==
    /\ Calls(p, "markSent")
    /\ got' = got \union {worker[p].n}
    /\ UNCHANGED trouble

\* 429, 5xx, no network; or no answer in time to a message that arrived.
SendRetryable(p) ==
    /\ Calls(p, "release")
    /\ got' \in {got, got \union {worker[p].n}}
    /\ Trouble

\* Another 4xx, or an answer that says no.
SendRejected(p) ==
    /\ Calls(p, "markFailed")
    /\ UNCHANGED <<got, trouble>>

\* WHERE status and lock_token.
Holds(p) ==
    LET r == row[worker[p].n] IN r.status = "SENDING" /\ r.attempt = worker[p].attempt

\* The row gets its status, or the lease was lost and nothing changes; the loop
\* goes on in either case.
Records(p, pc, status) ==
    /\ worker[p].pc = pc
    /\ row' = IF Holds(p)
              THEN [row EXCEPT ![worker[p].n].status = status, ![worker[p].n].due = FALSE,
                               ![worker[p].n].lease = FALSE]
              ELSE row
    /\ worker' = [worker EXCEPT ![p] = [NoBatch EXCEPT !.pc = "check", !.claimed = worker[p].claimed + 1]]
    /\ UNCHANGED <<process, got, sends, trouble, shutdowns>>

MarkSent(p) == Records(p, "markSent", "SENT")
ReleaseForRetry(p) == Records(p, "release", "PENDING")
MarkFailed(p) == Records(p, "markFailed", "FAILED")

\* Another error ends the batch and leaves the row as it is.
BatchFails(p) ==
    /\ worker[p].pc \in {"send", "markSent", "release", "markFailed"}
    /\ Completes(p)
    /\ Trouble
    /\ UNCHANGED <<row, got, sends, shutdowns>>
-----------------------------------------------------------------------------
(* Time and faults.                                                         *)

BecomesDue(n) ==
    /\ row[n].status = "PENDING" /\ ~row[n].due
    /\ row' = [row EXCEPT ![n].due = TRUE]
    /\ UNCHANGED <<process, worker, got, sends, trouble, shutdowns>>

\* The batch that has the notification and its lock token.
Holder(p, n) ==
    worker[p].pc \in {"send", "markSent", "release", "markFailed"} /\ worker[p].n = n /\ Holds(p)

\* Five minutes pass.  A request to Telegram lasts ten seconds, so a holder
\* outlives its lease only when it is stalled.
LeaseEnds(n) ==
    /\ row[n].status = "SENDING" /\ row[n].lease
    /\ row' = [row EXCEPT ![n].lease = FALSE]
    /\ IF \E p \in Processes : Holder(p, n) THEN Trouble ELSE UNCHANGED trouble
    /\ UNCHANGED <<process, worker, got, sends, shutdowns>>

\* The process ends as it is and is started again.
Crash(p) ==
    /\ worker[p].pc # "idle"
    /\ worker' = [worker EXCEPT ![p] = NoBatch]
    /\ process' = [process EXCEPT ![p] = Up]
    /\ Trouble
    /\ UNCHANGED <<row, got, sends, shutdowns>>
-----------------------------------------------------------------------------
Batch(p) ==
    \/ Check(p) \/ Claim(p) \/ ClaimNothing(p)
    \/ SendAccepted(p) \/ SendRetryable(p) \/ SendRejected(p)
    \/ MarkSent(p) \/ ReleaseForRetry(p) \/ MarkFailed(p)

Next ==
    \/ \E n \in Notifications : Create(n) \/ BecomesDue(n) \/ LeaseEnds(n)
    \/ \E p \in Processes :
         \/ Tick(p) \/ BeginShutdown(p) \/ EndShutdown(p) \/ Start(p) \/ Batch(p)
         \/ ClaimFails(p) \/ BatchFails(p) \/ Crash(p)

Spec == Init /\ [][Next]_vars

\* Ticks come for ever, a batch runs on, a stopping process ends, another is
\* started in its place, and minutes pass.
FairSpec ==
    /\ Spec
    /\ \A p \in Processes : WF_vars(Tick(p)) /\ WF_vars(Batch(p))
                         /\ WF_vars(EndShutdown(p)) /\ WF_vars(Start(p))
    /\ \A n \in Notifications : WF_vars(BecomesDue(n)) /\ WF_vars(LeaseEnds(n))
-----------------------------------------------------------------------------
(* Properties.                                                              *)

\* The rows and the locals have their types, and the flag of the status service
\* says whether there is a batch.
TypeOK ==
    /\ row \in [Notifications -> [status : {"NONE", "PENDING", "SENDING", "SENT", "FAILED"},
                                  due : BOOLEAN, lease : BOOLEAN, attempt : Nat]]
    /\ \A p \in Processes :
         /\ process[p].phase \in {"up", "stopping", "down"}
         /\ process[p].running <=> worker[p].pc # "idle"
         /\ worker[p].claimed \in 0..BatchSize
    /\ got \subseteq Notifications

\* Every call to Telegram was counted before it was made, so that no crash, lost
\* answer or rival can hide one.
CallsAreCounted == \A n \in Notifications : sends[n] <= row[n].attempt

\* A message is sent again only after a retryable answer or a fault: a shutdown,
\* the overlap of two processes and the ticks of one never repeat it.
RepeatsAreExplained == \A n \in Notifications : sends[n] <= 1 + trouble

\* Without a fault every leased notification is in the hands of a batch: a
\* shutdown leaves none behind for the lease to run out.
NothingLeftBehind ==
    trouble = 0 => \A n \in Notifications :
        row[n].status = "SENDING" => \E p \in Processes : process[p].phase # "down" /\ Holder(p, n)

\* The notifications keep the promise of DeliveryOutcome: sent only when
\* Telegram accepted the message, and closed for good.
Outcome ==
    [n \in Notifications |->
        IF row[n].status \in {"PENDING", "SENDING"} THEN "OPEN" ELSE row[n].status]

Promise == INSTANCE DeliveryOutcome WITH
    Deliveries <- Notifications, delivered <- got, outcome <- Outcome

KeepsPromise == Promise!Spec

\* Once Telegram and the processes have stopped failing every notification is
\* sent or has failed for good, those left leased by a fault included.
EveryNotificationCloses ==
    \A n \in Notifications : row[n].status = "PENDING" ~> row[n].status \in {"SENT", "FAILED"}
=============================================================================
