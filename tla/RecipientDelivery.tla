---------------------------- MODULE RecipientDelivery ----------------------------
(***************************************************************************)
(* The per-user Telegram deliveries of confirmed alerts: the rows planned  *)
(* with an alert, the dispatchers that claim, recheck, send and settle     *)
(* them under a database lease, and the Telegram connections whose         *)
(* revision a delivery is bound to.  Sources: recipient-delivery.repository*)
(* .ts, recipient-delivery-dispatcher.service.ts, recipient-delivery-retry *)
(* .policy.ts and alert-notification-recipient-planner.service.ts in       *)
(* modules/alert-notifications, recipient-delivery-scheduler.service.ts    *)
(* and telegram-linking/telegram-linking.service.ts.                       *)
(*                                                                         *)
(* A dispatcher is one API process: its scheduler runs one batch at a time.*)
(* Two dispatchers are an old and a new process during a deployment, the   *)
(* case the lease exists for.  Every step is one database transaction or   *)
(* one Telegram call.                                                      *)
(***************************************************************************)
EXTENDS Integers, FiniteSets

CONSTANTS
    Alerts,        \* confirmed alert events
    Users,         \* recipients
    Dispatchers,   \* API processes
    Lease,         \* RECIPIENT_DELIVERY_LEASE_MS
    MaxAge,        \* RECIPIENT_DELIVERY_MAX_AGE_MS
    MaxAttempts,   \* RECIPIENT_DELIVERY_MAX_ATTEMPTS
    RetryDelay,    \* recipientDeliveryRetryDelayMs, by attempt number
    BatchSize,     \* telegramPerUserDispatch.batchSize
    NotBefore,     \* telegramPerUserDispatch.dispatchNotBefore
    LastPlan,      \* bound: alerts are planned up to this time
    MaxNow,        \* bound: the clock stops here
    MaxRevision    \* bound: connection revisions

Deliveries == Alerts \X Users

\* At MaxNow every planned delivery has reached its maximum age.
ASSUME DeliveryAssumption ==
    /\ Alerts # {} /\ Users # {}
    /\ Lease \in Nat \ {0} /\ MaxAge \in Nat \ {0} /\ MaxAttempts \in Nat \ {0}
    /\ RetryDelay \in [1..MaxAttempts -> Nat \ {0}]
    /\ BatchSize \in Nat \ {0} /\ NotBefore \in Nat
    /\ LastPlan \in Nat /\ MaxNow \in Nat /\ LastPlan + MaxAge <= MaxNow
    /\ MaxRevision \in Nat \ {0}

VARIABLES
    now,       \* the clock, in units of the scaled constants
    delivery,  \* the alert_notification_deliveries rows
    conn,      \* the telegram_connections row of each user
    allowed,   \* users every other condition of evaluate lets through
    worker,    \* each dispatcher's batch and the locals of its iteration
    claims,    \* how many lease tokens a delivery was ever given
    sends,     \* how many Telegram calls were made for a delivery
    got,       \* deliveries whose message Telegram accepted at least once
    refused    \* <<user, revision>> Telegram reported permanently gone

vars == <<now, delivery, conn, allowed, worker, claims, sends, got, refused>>

Closed == {"SENT", "FAILED", "SUPPRESSED"}

\* No row yet; token 0 is NULL and so is lease 0 next to it.
Unplanned == [status |-> "NONE", attempts |-> 0, next |-> 0, lease |-> 0,
              token |-> 0, created |-> 0, rev |-> 0]

NoClaim == CHOOSE d \in Deliveries : TRUE

Resting == [pc |-> "idle", claimed |-> 0, d |-> NoClaim, token |-> 0,
            attempts |-> 0, created |-> 0, lease |-> 0, next |-> 0]

Init ==
    /\ now = 1
    /\ delivery = [d \in Deliveries |-> Unplanned]
    /\ conn = [u \in Users |-> [status |-> "CONNECTED", rev |-> 1]]
    /\ allowed = Users
    /\ worker = [w \in Dispatchers |-> Resting]
    /\ claims = [d \in Deliveries |-> 0]
    /\ sends = [d \in Deliveries |-> 0]
    /\ got = {}
    /\ refused = {}
-----------------------------------------------------------------------------
\* plan, in the transaction that creates the alert event: one row for every
\* eligible user, bound to the revision of the connection it has now.
Plan(a) ==
    /\ now <= LastPlan
    /\ \A u \in Users : delivery[<<a, u>>].status = "NONE"
    /\ \E u \in allowed : conn[u].status = "CONNECTED"
    /\ delivery' = [d \in Deliveries |->
         IF d[1] = a /\ d[2] \in allowed /\ conn[d[2]].status = "CONNECTED"
         THEN [Unplanned EXCEPT !.status = "PENDING", !.next = now,
                                !.created = now, !.rev = conn[d[2]].rev]
         ELSE delivery[d]]
    /\ UNCHANGED <<now, conn, allowed, worker, claims, sends, got, refused>>

\* Mutant: only rows nobody holds expire.
ExpiredPending(d) ==
    /\ delivery[d].status = "PENDING"
    /\ delivery[d].created <= now - MaxAge

\* The scheduler's tick, dispatchBatch and its expireOverAge.
Expired(d) ==
    /\ delivery[d].status \in {"PENDING", "SENDING"}
    /\ delivery[d].created <= now - MaxAge

StartBatch(w) ==
    /\ worker[w].pc = "idle"
    /\ delivery' = [d \in Deliveries |->
         IF Expired(d) THEN [delivery[d] EXCEPT !.status = "FAILED", !.lease = 0, !.token = 0]
         ELSE delivery[d]]
    /\ worker' = [worker EXCEPT ![w] = [Resting EXCEPT !.pc = "claim"]]
    /\ UNCHANGED <<now, conn, allowed, claims, sends, got, refused>>

\* Mutant: the lease is not looked at.
ClaimableAtOnce(d) ==
    /\ delivery[d].created > now - MaxAge
    /\ \/ delivery[d].status = "PENDING" /\ delivery[d].next <= now
       \/ delivery[d].status = "SENDING"

\* Mutant: the status is not looked at.
ClaimableAnyStatus(d) ==
    /\ delivery[d].status # "NONE"
    /\ delivery[d].created > now - MaxAge /\ delivery[d].next <= now

\* claimNext: the candidates, oldest next attempt first, then oldest row.
Claimable(d) ==
    /\ delivery[d].created > now - MaxAge
    /\ \/ delivery[d].status = "PENDING" /\ delivery[d].next <= now
       \/ delivery[d].status = "SENDING" /\ delivery[d].lease < now

Before(d, e) ==
    \/ delivery[d].next < delivery[e].next
    \/ delivery[d].next = delivery[e].next /\ delivery[d].created < delivery[e].created

\* A row from before the cutover is not even rechecked.
Claim(w, d) ==
    /\ worker[w].pc = "claim" /\ worker[w].claimed < BatchSize
    /\ Claimable(d)
    /\ \A e \in Deliveries : Claimable(e) => ~Before(e, d)
    /\ delivery' = [delivery EXCEPT ![d] =
         [@ EXCEPT !.status = "SENDING", !.lease = now + Lease, !.token = claims[d] + 1]]
    /\ claims' = [claims EXCEPT ![d] = @ + 1]
    /\ worker' = [worker EXCEPT ![w] =
         [pc |-> IF delivery[d].created < NotBefore THEN "suppress" ELSE "recheck",
          claimed |-> worker[w].claimed + 1, d |-> d, token |-> claims[d] + 1,
          attempts |-> delivery[d].attempts, created |-> delivery[d].created,
          lease |-> now + Lease, next |-> 0]]
    /\ UNCHANGED <<now, conn, allowed, sends, got, refused>>

EndBatch(w) ==
    /\ worker[w].pc = "claim"
    /\ worker[w].claimed = BatchSize \/ \A d \in Deliveries : ~Claimable(d)
    /\ worker' = [worker EXCEPT ![w] = Resting]
    /\ UNCHANGED <<now, delivery, conn, allowed, claims, sends, got, refused>>
-----------------------------------------------------------------------------
\* The WHERE of recheck and of every transition.
Holds(w) ==
    /\ delivery[worker[w].d].status = "SENDING"
    /\ delivery[worker[w].d].token = worker[w].token

\* The dispatcher goes on to its next iteration.
NextIteration(w) == worker' = [worker EXCEPT ![w].pc = "claim"]

\* evaluate: every reason to suppress a delivery that is not the connection's
\* state is folded into allowed.
Deliverable(d) ==
    /\ d[2] \in allowed
    /\ conn[d[2]].status = "CONNECTED"
    /\ conn[d[2]].rev = delivery[d].rev

Recheck(w) ==
    /\ worker[w].pc = "recheck"
    /\ worker' = [worker EXCEPT ![w].pc =
         IF ~Holds(w) THEN "claim"
         ELSE IF Deliverable(worker[w].d) THEN "send" ELSE "suppress"]
    /\ UNCHANGED <<now, delivery, conn, allowed, claims, sends, got, refused>>

\* Mutant: one attempt too many.
ExhaustedLate(w) ==
    now - worker[w].created >= MaxAge \/ worker[w].attempts >= MaxAttempts

\* recipientDeliveryExhausted, from the values the claim returned.
Exhausted(w) ==
    now - worker[w].created >= MaxAge \/ worker[w].attempts + 1 >= MaxAttempts

\* sendAlertConfirmed answers at once or after the lease is over.  A retryable
\* failure may hide an accepted message (a timeout, a lost answer).
SendAccepted(w) ==
    /\ worker[w].pc = "send"
    /\ sends' = [sends EXCEPT ![worker[w].d] = @ + 1]
    /\ got' = got \cup {worker[w].d}
    /\ worker' = [worker EXCEPT ![w].pc = "markSent"]
    /\ UNCHANGED <<now, delivery, conn, allowed, claims, refused>>

SendRetryable(w) ==
    /\ worker[w].pc = "send"
    /\ sends' = [sends EXCEPT ![worker[w].d] = @ + 1]
    /\ got' \in {got, got \cup {worker[w].d}}
    /\ worker' = [worker EXCEPT ![w] =
         IF Exhausted(w) THEN [@ EXCEPT !.pc = "markFailed"]
         ELSE [@ EXCEPT !.pc = "releaseRetry", !.next = now + RetryDelay[worker[w].attempts + 1]]]
    /\ UNCHANGED <<now, delivery, conn, allowed, claims, refused>>

\* Neither retryable nor about the recipient.
SendRejected(w) ==
    /\ worker[w].pc = "send"
    /\ sends' = [sends EXCEPT ![worker[w].d] = @ + 1]
    /\ worker' = [worker EXCEPT ![w].pc = "markFailed"]
    /\ UNCHANGED <<now, delivery, conn, allowed, claims, got, refused>>

\* recipientPermanent: the chat of this revision is gone.
SendRefused(w) ==
    /\ worker[w].pc = "send"
    /\ sends' = [sends EXCEPT ![worker[w].d] = @ + 1]
    /\ refused' = refused \cup {<<worker[w].d[2], delivery[worker[w].d].rev>>}
    /\ worker' = [worker EXCEPT ![w].pc = "markBroken"]
    /\ UNCHANGED <<now, delivery, conn, allowed, claims, got>>
-----------------------------------------------------------------------------
\* transition: nothing is written when the lease was lost.
Settled(d, status, attempts, next) ==
    [status |-> status, attempts |-> delivery[d].attempts + attempts, next |-> next,
     lease |-> 0, token |-> 0, created |-> delivery[d].created, rev |-> delivery[d].rev]

Settle(w, status, attempts, next) ==
    LET d == worker[w].d
    IN  delivery' = IF Holds(w)
                    THEN [delivery EXCEPT ![d] = Settled(d, status, attempts, next)]
                    ELSE delivery

MarkSuppressed(w) ==
    /\ worker[w].pc = "suppress"
    /\ Settle(w, "SUPPRESSED", 0, delivery[worker[w].d].next)
    /\ NextIteration(w)
    /\ UNCHANGED <<now, conn, allowed, claims, sends, got, refused>>

MarkSent(w) ==
    /\ worker[w].pc = "markSent"
    /\ Settle(w, "SENT", 1, delivery[worker[w].d].next)
    /\ NextIteration(w)
    /\ UNCHANGED <<now, conn, allowed, claims, sends, got, refused>>

ReleaseRetry(w) ==
    /\ worker[w].pc = "releaseRetry"
    /\ Settle(w, "PENDING", 1, worker[w].next)
    /\ NextIteration(w)
    /\ UNCHANGED <<now, conn, allowed, claims, sends, got, refused>>

MarkFailed(w) ==
    /\ worker[w].pc = "markFailed"
    /\ Settle(w, "FAILED", 1, delivery[worker[w].d].next)
    /\ NextIteration(w)
    /\ UNCHANGED <<now, conn, allowed, claims, sends, got, refused>>

\* Mutant: the revision is not compared.
BreaksAnyRevision(w) == Holds(w) /\ conn[worker[w].d[2]].status = "CONNECTED"

\* markFailed with breakConnection: only the connection of the same revision.
Breaks(w) ==
    LET u == worker[w].d[2]
    IN  Holds(w) /\ conn[u].status = "CONNECTED" /\ conn[u].rev = delivery[worker[w].d].rev

MarkBroken(w) ==
    /\ worker[w].pc = "markBroken"
    /\ Settle(w, "FAILED", 1, delivery[worker[w].d].next)
    /\ conn' = IF Breaks(w) THEN [conn EXCEPT ![worker[w].d[2]].status = "BROKEN"] ELSE conn
    /\ NextIteration(w)
    /\ UNCHANGED <<now, allowed, claims, sends, got, refused>>

\* A restart of the process, or an error dispatchBatch does not catch: the
\* scheduler swallows it and the claimed row stays SENDING under its lease.
Abort(w) ==
    /\ worker[w].pc # "idle"
    /\ worker' = [worker EXCEPT ![w] = Resting]
    /\ UNCHANGED <<now, delivery, conn, allowed, claims, sends, got, refused>>
-----------------------------------------------------------------------------
\* consume of a valid link token: the user's connection, of any status.
Relink(u) ==
    /\ conn[u].rev < MaxRevision
    /\ conn' = [conn EXCEPT ![u] = [status |-> "CONNECTED", rev |-> conn[u].rev + 1]]
    /\ UNCHANGED <<now, delivery, allowed, worker, claims, sends, got, refused>>

Disconnect(u) ==
    /\ conn[u].rev < MaxRevision
    /\ conn[u].status # "DISCONNECTED"
    /\ conn' = [conn EXCEPT ![u] = [status |-> "DISCONNECTED", rev |-> conn[u].rev + 1]]
    /\ UNCHANGED <<now, delivery, allowed, worker, claims, sends, got, refused>>

\* An administrator or the user changes the account, a permission, a
\* preference or the vehicle's access.
Revoke(u) ==
    /\ u \in allowed
    /\ allowed' = allowed \ {u}
    /\ UNCHANGED <<now, delivery, conn, worker, claims, sends, got, refused>>

Tick ==
    /\ now < MaxNow
    /\ now' = now + 1
    /\ UNCHANGED <<delivery, conn, allowed, worker, claims, sends, got, refused>>

Iteration(w) ==
    \/ \E d \in Deliveries : Claim(w, d)
    \/ EndBatch(w)
    \/ Recheck(w)
    \/ SendAccepted(w) \/ SendRetryable(w) \/ SendRejected(w) \/ SendRefused(w)
    \/ MarkSuppressed(w) \/ MarkSent(w) \/ ReleaseRetry(w) \/ MarkFailed(w) \/ MarkBroken(w)

Next ==
    \/ Tick
    \/ \E a \in Alerts : Plan(a)
    \/ \E w \in Dispatchers : StartBatch(w) \/ Iteration(w) \/ Abort(w)
    \/ \E u \in Users : Relink(u) \/ Disconnect(u) \/ Revoke(u)

Spec == Init /\ [][Next]_vars

\* The clock advances, the interval keeps firing, and a running batch goes on.
FairSpec ==
    /\ Spec
    /\ WF_vars(Tick)
    /\ \A w \in Dispatchers : WF_vars(StartBatch(w)) /\ WF_vars(Iteration(w))
-----------------------------------------------------------------------------
\* The dispatchers' program counters; those of an iteration hold a claim.
Holding == {"recheck", "send", "suppress", "markSent", "releaseRetry",
            "markFailed", "markBroken"}

PCs == {"idle", "claim"} \cup Holding

Statuses == {"NONE", "PENDING", "SENDING"} \cup Closed

Rows == [status : Statuses, attempts : Nat, next : Nat, lease : Nat, token : Nat,
         created : Nat, rev : Nat]

Locals == [pc : PCs, claimed : Nat, d : Deliveries, token : Nat,
           attempts : Nat, created : Nat, lease : Nat, next : Nat]

Connections == [status : {"CONNECTED", "BROKEN", "DISCONNECTED"}, rev : Nat]

\* One type invariant for the module.
TypeOK ==
    /\ now \in Nat
    /\ delivery \in [Deliveries -> Rows]
    /\ conn \in [Users -> Connections]
    /\ allowed \subseteq Users
    /\ worker \in [Dispatchers -> Locals]
    /\ claims \in [Deliveries -> Nat]
    /\ sends \in [Deliveries -> Nat]
    /\ got \subseteq Deliveries
    /\ refused \subseteq Users \X Nat

\* A delivery is marked sent only when Telegram accepted its message, although
\* another dispatcher may have claimed it while the message was on its way.
SentWasDelivered == \A d \in Deliveries : delivery[d].status = "SENT" => d \in got

\* A lease in force is respected: until it runs out no other dispatcher has the
\* delivery, and only its age can close it under the holder's hands.
LeaseRespected ==
    \A w \in Dispatchers :
        worker[w].pc \in Holding /\ now <= worker[w].lease =>
            \/ Holds(w)
            \/ delivery[worker[w].d].status = "FAILED"

\* A connection is broken only because Telegram refused a message of that very
\* revision: a late refusal never breaks the connection of a user who linked
\* anew in the meantime.
BrokenWasRefused ==
    \A u \in Users : conn[u].status = "BROKEN" => <<u, conn[u].rev>> \in refused

\* Every counted attempt was a Telegram call, and a delivery that used its last
\* attempt is never offered again.
AttemptsBounded ==
    \A d \in Deliveries :
        /\ delivery[d].attempts <= sends[d]
        /\ delivery[d].attempts <= MaxAttempts
        /\ delivery[d].status \in {"PENDING", "SENDING"} => delivery[d].attempts < MaxAttempts

\* A closed delivery is never touched again, whatever late dispatchers do.
ClosedIsFinal ==
    [][\A d \in Deliveries : delivery[d].status \in Closed => delivery'[d] = delivery[d]]_vars

\* Every planned delivery gets its outcome, however often dispatchers fail.
EveryDeliveryCloses ==
    \A d \in Deliveries : delivery[d].status = "PENDING" ~> delivery[d].status \in Closed

\* The rows are an implementation of the promise.
Outcome ==
    [d \in Deliveries |-> CASE delivery[d].status = "NONE" -> "NONE"
                            [] delivery[d].status \in {"PENDING", "SENDING"} -> "OPEN"
                            [] OTHER -> delivery[d].status]

Promise == INSTANCE DeliveryOutcome WITH outcome <- Outcome, delivered <- got

\* Every step of the dispatchers keeps the promise.
KeepsPromise == Promise!Spec
=============================================================================
