------------------------- MODULE RecipientDelivery_proof -------------------------
(***************************************************************************)
(* Proofs about RecipientDelivery for any number of alerts, users and      *)
(* dispatchers and any lease, maximum age, retry policy and batch size.    *)
(***************************************************************************)
EXTENDS RecipientDelivery, TLAPS

-----------------------------------------------------------------------------
(* Type correctness.                                                       *)

\* The row and the locals that stand for "none" have their types.
LEMMA RestingType == Unplanned \in Rows /\ Resting \in Locals
<1>1. Deliveries # {}
  <2>1. PICK a \in Alerts : TRUE
    BY DeliveryAssumption
  <2>2. PICK u \in Users : TRUE
    BY DeliveryAssumption
  <2>3. <<a, u>> \in Deliveries
    BY DEF Deliveries
  <2> QED
    BY <2>3
<1>2. NoClaim \in Deliveries
  BY <1>1 DEF NoClaim
<1> QED
  BY <1>2 DEF Unplanned, Resting, Rows, Locals, PCs, Statuses, Closed

\* Moving a dispatcher to another program counter keeps its locals typed.
LEMMA MoveType ==
    ASSUME TypeOK, NEW w \in Dispatchers, NEW pc \in PCs,
           worker' = [worker EXCEPT ![w].pc = pc]
    PROVE  worker' \in [Dispatchers -> Locals]
<1>1. worker[w] \in Locals
  BY DEF TypeOK
<1>2. [worker[w] EXCEPT !.pc = pc] \in Locals
  BY <1>1 DEF Locals
<1> QED
  BY <1>2 DEF TypeOK

\* A transition rewrites one row or none and leaves every row well typed.
LEMMA SettleType ==
    ASSUME TypeOK, NEW w \in Dispatchers, NEW status \in Statuses,
           NEW attempts \in Nat, NEW next \in Nat, Settle(w, status, attempts, next)
    PROVE  delivery' \in [Deliveries -> Rows]
<1> DEFINE d == worker[w].d
<1>1. d \in Deliveries
  BY DEF TypeOK, Locals
<1>2. delivery[d] \in Rows
  BY <1>1 DEF TypeOK
<1>3. Settled(d, status, attempts, next) \in Rows
  BY <1>2 DEF Rows, Settled
<1> QED
  BY <1>1, <1>3 DEF TypeOK, Settle

\* Every step leaves every variable well typed.
LEMMA TypeStep == TypeOK /\ [Next]_vars => TypeOK'
<1> SUFFICES ASSUME TypeOK, [Next]_vars PROVE TypeOK'
  OBVIOUS
<1>1. CASE UNCHANGED vars
  BY <1>1 DEF vars, TypeOK
<1>2. CASE Tick
  BY <1>2 DEF Tick, TypeOK
<1>3. ASSUME NEW a \in Alerts, Plan(a) PROVE TypeOK'
  <2>1. ASSUME NEW d \in Deliveries, conn[d[2]].rev \in Nat
        PROVE  [Unplanned EXCEPT !.status = "PENDING", !.next = now, !.created = now,
                                 !.rev = conn[d[2]].rev] \in Rows
    BY <2>1 DEF TypeOK, Rows, Unplanned, Statuses
  <2>2. \A d \in Deliveries : conn[d[2]].rev \in Nat
    BY DEF TypeOK, Deliveries, Connections
  <2> QED
    BY <1>3, <2>1, <2>2 DEF Plan, TypeOK
<1>4. ASSUME NEW w \in Dispatchers, StartBatch(w) PROVE TypeOK'
  <2>1. \A d \in Deliveries : [delivery[d] EXCEPT !.status = "FAILED", !.lease = 0,
                                                  !.token = 0] \in Rows
    BY DEF TypeOK, Rows, Statuses, Closed
  <2>2. [Resting EXCEPT !.pc = "claim"] \in Locals
    BY RestingType DEF Locals, PCs
  <2> QED
    BY <1>4, <2>1, <2>2 DEF StartBatch, TypeOK
<1>5. ASSUME NEW w \in Dispatchers, Iteration(w) PROVE TypeOK'
  <2>a. {"claim", "recheck", "send", "suppress", "markSent", "releaseRetry",
         "markFailed", "markBroken"} \subseteq PCs
    BY DEF PCs, Holding
  <2>b. worker[w] \in Locals /\ worker[w].d \in Deliveries
    BY DEF TypeOK, Locals
  <2>1. ASSUME NEW d \in Deliveries, Claim(w, d) PROVE TypeOK'
    <3>1. claims[d] + 1 \in Nat /\ now + Lease \in Nat /\ delivery[d] \in Rows
      BY DeliveryAssumption DEF TypeOK
    <3>2. [delivery[d] EXCEPT !.status = "SENDING", !.lease = now + Lease,
                              !.token = claims[d] + 1] \in Rows
      BY <3>1 DEF Rows, Statuses
    <3>3. worker'[w] \in Locals
      BY <2>1, <2>a, <2>b, <3>1 DEF Claim, TypeOK, Locals, Rows
    <3> QED
      BY <2>1, <3>1, <3>2, <3>3 DEF Claim, TypeOK
  <2>2. CASE EndBatch(w)
    BY <2>2, RestingType DEF EndBatch, TypeOK
  <2>3. CASE Recheck(w)
    BY <2>3, <2>a, MoveType DEF Recheck, TypeOK
  <2>4. CASE SendAccepted(w)
    <3>1. worker' \in [Dispatchers -> Locals]
      BY <2>4, <2>a, MoveType DEF SendAccepted
    <3>2. sends' \in [Deliveries -> Nat] /\ got' \subseteq Deliveries
      BY <2>4, <2>b DEF SendAccepted, TypeOK
    <3> QED
      BY <2>4, <3>1, <3>2 DEF SendAccepted, TypeOK
  <2>5. CASE SendRetryable(w)
    <3>1. CASE Exhausted(w)
      <4>1. worker' \in [Dispatchers -> Locals]
        BY <2>5, <3>1, <2>a, <2>b, MoveType DEF SendRetryable, TypeOK
      <4> QED
        BY <2>5, <2>b, <4>1 DEF SendRetryable, TypeOK
    <3>2. CASE ~Exhausted(w)
      <4>1. worker[w].attempts + 1 \in 1..MaxAttempts
        BY <3>2, <2>b, DeliveryAssumption DEF Exhausted, TypeOK, Locals
      <4>2. now + RetryDelay[worker[w].attempts + 1] \in Nat
        BY <4>1, DeliveryAssumption DEF TypeOK
      <4>3. [worker[w] EXCEPT !.pc = "releaseRetry",
               !.next = now + RetryDelay[worker[w].attempts + 1]] \in Locals
        BY <2>a, <2>b, <4>2 DEF Locals
      <4> QED
        BY <2>5, <3>2, <2>b, <4>3 DEF SendRetryable, TypeOK
    <3> QED
      BY <3>1, <3>2
  <2>6. CASE SendRejected(w)
    <3>1. worker' \in [Dispatchers -> Locals]
      BY <2>6, <2>a, MoveType DEF SendRejected
    <3> QED
      BY <2>6, <2>b, <3>1 DEF SendRejected, TypeOK
  <2>7. CASE SendRefused(w)
    <3>1. <<worker[w].d[2], delivery[worker[w].d].rev>> \in Users \X Nat
      BY DEF TypeOK, Locals, Deliveries, Rows
    <3>2. worker' \in [Dispatchers -> Locals]
      BY <2>7, <2>a, MoveType DEF SendRefused
    <3>3. sends' \in [Deliveries -> Nat] /\ refused' \subseteq Users \X Nat
      BY <2>7, <2>b, <3>1 DEF SendRefused, TypeOK
    <3> QED
      BY <2>7, <3>2, <3>3 DEF SendRefused, TypeOK
  <2>8. worker[w].d \in Deliveries /\ delivery[worker[w].d].next \in Nat /\ worker[w].next \in Nat
    BY DEF TypeOK, Locals, Rows
  <2>9. CASE MarkSuppressed(w)
    BY <2>a, <2>8, <2>9, SettleType, MoveType DEF MarkSuppressed, NextIteration, TypeOK, Statuses, Closed
  <2>10. CASE MarkSent(w)
    BY <2>a, <2>8, <2>10, SettleType, MoveType DEF MarkSent, NextIteration, TypeOK, Statuses, Closed
  <2>11. CASE ReleaseRetry(w)
    BY <2>a, <2>8, <2>11, SettleType, MoveType DEF ReleaseRetry, NextIteration, TypeOK, Statuses, Closed
  <2>12. CASE MarkFailed(w)
    BY <2>a, <2>8, <2>12, SettleType, MoveType DEF MarkFailed, NextIteration, TypeOK, Statuses, Closed
  <2>13. CASE MarkBroken(w)
    <3>1. conn' \in [Users -> Connections]
      BY <2>8, <2>13 DEF MarkBroken, Breaks, TypeOK, Deliveries, Connections
    <3> QED
      BY <2>a, <2>8, <2>13, <3>1, SettleType, MoveType
         DEF MarkBroken, NextIteration, TypeOK, Statuses, Closed
  <2> QED
    BY <1>5, <2>1, <2>2, <2>3, <2>4, <2>5, <2>6, <2>7, <2>9, <2>10, <2>11, <2>12, <2>13
       DEF Iteration
<1>6. ASSUME NEW w \in Dispatchers, Abort(w) PROVE TypeOK'
  BY <1>6, RestingType DEF Abort, TypeOK
<1>7. ASSUME NEW u \in Users, Relink(u) \/ Disconnect(u) \/ Revoke(u) PROVE TypeOK'
  BY <1>7 DEF Relink, Disconnect, Revoke, TypeOK, Connections
<1> QED
  BY <1>1, <1>2, <1>3, <1>4, <1>5, <1>6, <1>7 DEF Next

\* Every variable keeps its type: a row stays a row whoever writes it.
THEOREM TypeCorrect == Spec => []TypeOK
<1>1. Init => TypeOK
  BY RestingType DEF Init, TypeOK, Connections
<1> QED
  BY <1>1, TypeStep, PTL DEF Spec
-----------------------------------------------------------------------------
(* Safety.                                                                 *)

\* The transitions that follow a Telegram call.
AfterCall == {"markSent", "releaseRetry", "markFailed", "markBroken"}

\* A row's status is backed by what was claimed, called and accepted for it.
RowJustified(d) ==
    /\ delivery[d].status = "NONE" => claims[d] = 0
    /\ delivery[d].status = "SENDING" => delivery[d].token \in 1..claims[d]
    /\ delivery[d].status = "SENT" => d \in got
    /\ delivery[d].attempts <= sends[d]
    /\ delivery[d].attempts <= MaxAttempts
    /\ delivery[d].status \in {"PENDING", "SENDING"} => delivery[d].attempts < MaxAttempts

\* What a dispatcher remembers of its claim is true while it holds the lease,
\* and what it is about to write is backed by its Telegram call.
HolderJustified(w) ==
    LET d == worker[w].d
    IN  /\ worker[w].token \in 1..claims[d]
        /\ Holds(w) => /\ worker[w].lease = delivery[d].lease
                       /\ worker[w].attempts = delivery[d].attempts
        /\ worker[w].pc = "markSent" => d \in got
        /\ worker[w].pc = "markBroken" => <<d[2], delivery[d].rev>> \in refused
        /\ worker[w].pc = "releaseRetry" => worker[w].attempts + 1 < MaxAttempts
        /\ worker[w].pc \in AfterCall /\ Holds(w) => delivery[d].attempts < sends[d]
        /\ now <= worker[w].lease => Holds(w) \/ delivery[d].status = "FAILED"

\* No two dispatchers remember the same lease token of a delivery.
TokensDiffer ==
    \A v, w \in Dispatchers :
        /\ v # w
        /\ worker[v].pc \in Holding /\ worker[w].pc \in Holding
        /\ worker[v].d = worker[w].d
        => worker[v].token # worker[w].token

\* The inductive invariant.
IInv ==
    /\ TypeOK
    /\ \A d \in Deliveries : RowJustified(d)
    /\ \A w \in Dispatchers : worker[w].pc \in Holding => HolderJustified(w)
    /\ TokensDiffer
    /\ BrokenWasRefused

\* The invariant holds initially.
LEMMA InitInv == Init => IInv
<1> SUFFICES ASSUME Init PROVE IInv
  OBVIOUS
<1>1. TypeOK
  BY RestingType DEF Init, TypeOK, Connections
<1>2. \A d \in Deliveries : RowJustified(d)
  BY DeliveryAssumption DEF Init, RowJustified, Unplanned
<1>3. \A w \in Dispatchers : worker[w].pc \notin Holding
  BY DEF Init, Resting, Holding
<1> QED
  BY <1>1, <1>2, <1>3 DEF Init, IInv, TokensDiffer, BrokenWasRefused

\* What a dispatcher remembers stays justified in a step that is not its own,
\* if its row keeps its revision and changes only by losing the lease: to its
\* age, or after the lease ran out.
LEMMA OthersKeep ==
    ASSUME TypeOK, TypeOK', NEW v \in Dispatchers, HolderJustified(v),
           worker'[v] = worker[v],
           now <= now', got \subseteq got', refused \subseteq refused',
           \A d \in Deliveries : claims[d] <= claims'[d] /\ sends[d] <= sends'[d],
           delivery'[worker[v].d].rev = delivery[worker[v].d].rev,
           \/ delivery'[worker[v].d] = delivery[worker[v].d]
           \/ /\ ~Holds(v)'
              /\ delivery'[worker[v].d].status = "FAILED" \/ now > worker[v].lease
    PROVE  HolderJustified(v)'
<1> DEFINE d == worker[v].d
<1>1. /\ d \in Deliveries /\ worker[v].token \in Nat /\ worker[v].lease \in Nat
      /\ now \in Nat /\ now' \in Nat /\ claims[d] \in Nat /\ claims'[d] \in Nat
      /\ sends[d] \in Nat /\ sends'[d] \in Nat /\ delivery[d].attempts \in Nat
  BY DEF TypeOK, Locals, Rows
<1>2. worker'[v].token \in 1..claims'[d]
  BY <1>1 DEF HolderJustified
<1>3. CASE delivery'[d] = delivery[d]
  <2>1. Holds(v)' = Holds(v)
    BY <1>3 DEF Holds
  <2> QED
    BY <1>1, <1>2, <1>3, <2>1 DEF HolderJustified
<1>4. CASE ~Holds(v)' /\ (delivery'[d].status = "FAILED" \/ now > worker[v].lease)
  BY <1>1, <1>2, <1>4 DEF HolderJustified
<1> QED
  BY <1>3, <1>4

\* A plan writes only rows nobody ever claimed.
LEMMA PlanInv ==
    ASSUME IInv, TypeOK', NEW a \in Alerts, Plan(a)
    PROVE  IInv'
<1> USE DEF IInv
<1>1. ASSUME NEW d \in Deliveries
      PROVE  \/ delivery'[d] = delivery[d]
             \/ /\ delivery[d].status = "NONE"
                /\ delivery'[d].status = "PENDING" /\ delivery'[d].attempts = 0
  <2>1. CASE d[1] = a
    <3>1. d = <<a, d[2]>> /\ d[2] \in Users
      BY <2>1 DEF Deliveries
    <3> QED
      BY <3>1 DEF Plan, Unplanned
  <2> QED
    BY <2>1 DEF Plan
<1>2. ASSUME NEW d \in Deliveries PROVE RowJustified(d)'
  <2>1. RowJustified(d) /\ claims'[d] = claims[d] /\ sends'[d] = sends[d] /\ got' = got
    BY DEF Plan
  <2>2. CASE delivery'[d] = delivery[d]
    BY <2>1, <2>2 DEF RowJustified
  <2>3. CASE delivery'[d].status = "PENDING" /\ delivery'[d].attempts = 0
    BY <2>1, <2>3, DeliveryAssumption DEF RowJustified, TypeOK
  <2> QED
    BY <1>1, <2>2, <2>3
<1>3. now' = now /\ got' = got /\ refused' = refused /\ conn' = conn
      /\ worker' = worker /\ claims' = claims /\ sends' = sends
  BY DEF Plan
<1>4. ASSUME NEW w \in Dispatchers, worker'[w].pc \in Holding PROVE HolderJustified(w)'
  <2>1. HolderJustified(w) /\ worker[w].d \in Deliveries
    BY <1>3, <1>4 DEF TypeOK, Locals
  <2>2. claims[worker[w].d] # 0
    BY <2>1 DEF HolderJustified, TypeOK
  <2>3. delivery'[worker[w].d] = delivery[worker[w].d]
    BY <1>1, <2>1, <2>2 DEF RowJustified
  <2> QED
    BY <1>3, <2>1, <2>3, OthersKeep DEF TypeOK
<1> QED
  BY <1>2, <1>3, <1>4 DEF TokensDiffer, BrokenWasRefused

\* Expiry closes rows without touching what was counted for them.
LEMMA StartBatchInv ==
    ASSUME IInv, TypeOK', NEW w \in Dispatchers, StartBatch(w)
    PROVE  IInv'
<1> USE DEF IInv
<1>1. ASSUME NEW d \in Deliveries
      PROVE  \/ delivery'[d] = delivery[d]
             \/ /\ delivery'[d].status = "FAILED"
                /\ delivery'[d].attempts = delivery[d].attempts
                /\ delivery'[d].rev = delivery[d].rev
                /\ delivery[d].status # "NONE"
  <2>1. delivery[d] \in Rows
    BY DEF TypeOK
  <2> QED
    BY <2>1 DEF StartBatch, Expired, Rows
<1>2. now' = now /\ got' = got /\ refused' = refused /\ conn' = conn
      /\ claims' = claims /\ sends' = sends
  BY DEF StartBatch
<1>3. ASSUME NEW d \in Deliveries PROVE RowJustified(d)'
  BY <1>1, <1>2 DEF RowJustified
<1>4. worker'[w].pc \notin Holding
  BY DEF StartBatch, Resting, Holding, TypeOK
<1>5. \A v \in Dispatchers : v # w => worker'[v] = worker[v]
  BY DEF StartBatch, TypeOK
<1>6. ASSUME NEW v \in Dispatchers, worker'[v].pc \in Holding PROVE HolderJustified(v)'
  <2>1. HolderJustified(v) /\ worker[v].d \in Deliveries /\ worker'[v] = worker[v]
    BY <1>4, <1>5, <1>6 DEF TypeOK, Locals
  <2>2. delivery'[worker[v].d].status = "FAILED" => ~Holds(v)'
    BY <2>1 DEF Holds
  <2> QED
    BY <1>1, <1>2, <2>1, <2>2, OthersKeep DEF TypeOK
<1>7. TokensDiffer'
  BY <1>4, <1>5 DEF TokensDiffer
<1> QED
  BY <1>2, <1>3, <1>6, <1>7 DEF BrokenWasRefused

\* A claim hands out a token nobody has, and only of a row whose lease is over.
LEMMA ClaimInv ==
    ASSUME IInv, TypeOK', NEW w \in Dispatchers, NEW d \in Deliveries, Claim(w, d)
    PROVE  IInv'
<1> USE DEF IInv
<1>1. /\ now' = now /\ got' = got /\ refused' = refused /\ conn' = conn /\ sends' = sends
      /\ claims'[d] = claims[d] + 1
      /\ \A e \in Deliveries \ {d} : claims'[e] = claims[e] /\ delivery'[e] = delivery[e]
  BY DEF Claim, TypeOK
<1>2. /\ claims[d] \in Nat /\ delivery[d] \in Rows /\ now \in Nat /\ Lease \in Nat \ {0}
      /\ \A v \in Dispatchers : worker[v].d \in Deliveries /\ worker[v].lease \in Nat
  BY DeliveryAssumption DEF TypeOK, Locals
<1>3. delivery'[d] = [delivery[d] EXCEPT !.status = "SENDING", !.lease = now + Lease,
                                         !.token = claims[d] + 1]
  BY DEF Claim, TypeOK
<1>4. /\ worker'[w].pc \in {"recheck", "suppress"}
      /\ worker'[w].d = d /\ worker'[w].token = claims[d] + 1
      /\ worker'[w].attempts = delivery[d].attempts /\ worker'[w].lease = now + Lease
      /\ \A v \in Dispatchers : v # w => worker'[v] = worker[v]
  BY DEF Claim, TypeOK
<1>5. ASSUME NEW e \in Deliveries PROVE RowJustified(e)'
  <2>1. RowJustified(e)
    OBVIOUS
  <2>2. CASE e = d
    <3>1. delivery[d].status \in {"PENDING", "SENDING"}
      BY DEF Claim, Claimable
    <3>2. /\ delivery'[d].status = "SENDING" /\ delivery'[d].token = claims'[d]
          /\ delivery'[d].attempts = delivery[d].attempts /\ claims'[d] \in Nat \ {0}
      BY <1>1, <1>2, <1>3 DEF Rows
    <3> QED
      BY <1>1, <2>1, <2>2, <3>1, <3>2 DEF RowJustified
  <2>3. CASE e # d
    BY <1>1, <2>1, <2>3 DEF RowJustified
  <2> QED
    BY <2>2, <2>3
<1>6. HolderJustified(w)'
  <2>1. /\ delivery'[d].status = "SENDING" /\ delivery'[d].token = claims[d] + 1
        /\ delivery'[d].lease = now + Lease /\ delivery'[d].attempts = delivery[d].attempts
    BY <1>2, <1>3 DEF Rows
  <2> QED
    BY <1>1, <1>2, <1>4, <2>1 DEF HolderJustified, Holds, AfterCall
<1>7. ASSUME NEW v \in Dispatchers, v # w, worker'[v].pc \in Holding
      PROVE  HolderJustified(v)'
  <2>1. HolderJustified(v) /\ worker'[v] = worker[v]
    BY <1>4, <1>7
  <2>2. delivery'[d].rev = delivery[d].rev /\ delivery'[d].token = claims[d] + 1
    BY <1>2, <1>3 DEF Rows
  <2>3. ASSUME worker[v].d = d PROVE ~Holds(v)' /\ now > worker[v].lease
    <3>1. worker[v].token \in 1..claims[d]
      BY <2>1, <2>3 DEF HolderJustified
    <3>2. ~Holds(v)'
      BY <1>2, <2>1, <2>2, <2>3, <3>1 DEF Holds
    <3>3. \/ delivery[d].status = "PENDING"
          \/ delivery[d].status = "SENDING" /\ delivery[d].lease < now
      BY DEF Claim, Claimable
    <3>4. now <= worker[v].lease => Holds(v) /\ worker[v].lease = delivery[d].lease
      BY <2>1, <2>3, <3>3 DEF HolderJustified
    <3>5. delivery[d].lease \in Nat /\ worker[v].lease \in Nat /\ now \in Nat
      BY <1>2 DEF Rows
    <3>6. ~(now <= worker[v].lease)
      BY <2>3, <3>3, <3>4, <3>5 DEF Holds
    <3> QED
      BY <3>2, <3>5, <3>6
  <2>4. \A e \in Deliveries : claims[e] <= claims'[e] /\ sends[e] <= sends'[e]
    BY <1>1 DEF TypeOK
  <2> QED
    BY <1>1, <1>2, <2>1, <2>2, <2>3, <2>4, OthersKeep DEF TypeOK
<1>8. TokensDiffer'
  <2>1. ASSUME NEW v \in Dispatchers, v # w, worker'[v].pc \in Holding, worker'[v].d = d
        PROVE  worker'[v].token \in 1..claims[d]
    BY <1>4, <2>1 DEF HolderJustified
  <2> QED
    BY <1>2, <1>4, <2>1 DEF TokensDiffer
<1> QED
  BY <1>1, <1>5, <1>6, <1>7, <1>8 DEF BrokenWasRefused

\* A step of a dispatcher that leaves the rows and the claims alone and goes on
\* with the same claim, or drops it.
LEMMA StepInv ==
    ASSUME IInv, TypeOK', NEW w \in Dispatchers,
           now' = now, delivery' = delivery, conn' = conn, claims' = claims,
           got \subseteq got', refused \subseteq refused',
           \A d \in Deliveries : sends[d] <= sends'[d],
           \A v \in Dispatchers : v # w => worker'[v] = worker[v],
           worker'[w].pc \in Holding =>
               /\ worker[w].pc \in Holding
               /\ worker'[w].d = worker[w].d /\ worker'[w].token = worker[w].token
               /\ HolderJustified(w)'
    PROVE  IInv'
<1> USE DEF IInv
<1>1. ASSUME NEW d \in Deliveries PROVE RowJustified(d)'
  <2>1. /\ delivery[d].attempts \in Nat /\ sends[d] \in Nat /\ sends'[d] \in Nat
        /\ sends[d] <= sends'[d]
    BY DEF TypeOK, Rows
  <2>2. RowJustified(d)
    OBVIOUS
  <2>3. delivery[d].attempts <= sends'[d]
    BY <2>1, <2>2 DEF RowJustified
  <2> QED
    BY <2>2, <2>3 DEF RowJustified
<1>2. ASSUME NEW v \in Dispatchers, worker'[v].pc \in Holding PROVE HolderJustified(v)'
  <2>1. CASE v = w
    BY <1>2, <2>1
  <2>2. CASE v # w
    <3>1. HolderJustified(v) /\ worker'[v] = worker[v]
      BY <1>2, <2>2
    <3> QED
      BY <3>1, OthersKeep DEF TypeOK
  <2> QED
    BY <2>1, <2>2
<1>3. TokensDiffer'
  BY DEF TokensDiffer
<1>4. BrokenWasRefused'
  BY DEF BrokenWasRefused
<1> QED
  BY <1>1, <1>2, <1>3, <1>4

\* A transition settles the row only while the lease is held, by at most the
\* attempts that were called for, and lets the claim go.
LEMMA SettleInv ==
    ASSUME IInv, TypeOK', NEW w \in Dispatchers, worker[w].pc \in Holding, NextIteration(w),
           NEW status \in {"SENT", "PENDING", "FAILED", "SUPPRESSED"},
           NEW attempts \in {0, 1}, NEW next \in Nat, Settle(w, status, attempts, next),
           status = "SENT" => worker[w].d \in got,
           status = "PENDING" => worker[w].attempts + 1 < MaxAttempts,
           attempts = 1 => worker[w].pc \in AfterCall,
           now' = now, claims' = claims, sends' = sends, got' = got, refused' = refused,
           BrokenWasRefused'
    PROVE  IInv'
<1> USE DEF IInv
<1>0. PICK d \in Deliveries : d = worker[w].d
  BY DEF TypeOK, Locals
<1>1. /\ d \in Deliveries /\ delivery[d] \in Rows /\ worker[w].token \in Nat
      /\ sends[d] \in Nat /\ MaxAttempts \in Nat
  BY DeliveryAssumption, <1>0 DEF TypeOK, Locals
<1>2. HolderJustified(w) /\ RowJustified(d)
  BY <1>1
<1>3. ~Holds(w) => delivery' = delivery
  BY DEF Settle
<1>4. Holds(w) => /\ \A e \in Deliveries : e # d => delivery'[e] = delivery[e]
                  /\ delivery'[d] = Settled(d, status, attempts, next)
  BY <1>0, <1>1 DEF Settle, TypeOK
<1>5. worker'[w].pc = "claim" /\ \A v \in Dispatchers : v # w => worker'[v] = worker[v]
  BY DEF NextIteration, TypeOK
<1>6. worker'[w].pc \notin Holding
  BY <1>5 DEF Holding
<1>7. ASSUME Holds(w) PROVE RowJustified(d)'
  <2>1. /\ delivery'[d].status = status /\ delivery'[d].token = 0
        /\ delivery'[d].attempts = delivery[d].attempts + attempts
    BY <1>4, <1>7 DEF Settled
  <2>2. /\ delivery[d].attempts \in Nat /\ delivery[d].attempts < MaxAttempts
        /\ delivery[d].attempts <= sends[d] /\ delivery[d].status # "NONE"
    BY <1>0, <1>1, <1>2, <1>7 DEF Holds, RowJustified, Rows
  <2>3. attempts = 1 => delivery[d].attempts < sends[d]
    BY <1>0, <1>2, <1>7 DEF HolderJustified
  <2>4. status = "PENDING" => delivery[d].attempts + 1 < MaxAttempts
    BY <1>0, <1>2, <1>7 DEF HolderJustified
  <2>5. delivery'[d].attempts <= sends[d] /\ delivery'[d].attempts <= MaxAttempts
    <3>1. CASE attempts = 0
      BY <1>1, <2>1, <2>2, <3>1
    <3>2. CASE attempts = 1
      BY <1>1, <2>1, <2>2, <2>3, <3>2
    <3> QED
      BY <3>1, <3>2
  <2>6. status = "PENDING" => delivery'[d].attempts < MaxAttempts
    BY <1>1, <2>1, <2>2, <2>4
  <2> QED
    BY <1>0, <2>1, <2>5, <2>6 DEF RowJustified
<1>8. ASSUME NEW e \in Deliveries PROVE RowJustified(e)'
  <2>1. CASE Holds(w) /\ e = d
    BY <1>7, <2>1
  <2>2. CASE ~(Holds(w) /\ e = d)
    <3>1. delivery'[e] = delivery[e]
      BY <1>3, <1>4, <2>2
    <3> QED
      BY <3>1 DEF RowJustified
  <2> QED
    BY <2>1, <2>2
<1>9. ASSUME NEW v \in Dispatchers, worker'[v].pc \in Holding PROVE HolderJustified(v)'
  <2>1. v # w /\ worker'[v] = worker[v] /\ HolderJustified(v) /\ worker[v].d \in Deliveries
    BY <1>5, <1>6, <1>9 DEF TypeOK, Locals
  <2>2. \A e \in Deliveries : claims[e] <= claims'[e] /\ sends[e] <= sends'[e]
    BY DEF TypeOK
  <2>3. CASE Holds(w) /\ worker[v].d = d
    <3>1. worker[v].token # worker[w].token
      BY <1>0, <1>5, <1>9, <2>1, <2>3 DEF TokensDiffer
    <3>2. ~Holds(v) /\ delivery[d].status # "FAILED"
      BY <1>0, <2>3, <3>1 DEF Holds
    <3>3. ~(now <= worker[v].lease)
      BY <1>0, <2>1, <2>3, <3>2 DEF HolderJustified
    <3>4. now > worker[v].lease
      BY <3>3 DEF TypeOK, Locals
    <3>5. delivery'[d].rev = delivery[d].rev /\ delivery'[d].token = 0
      BY <1>4, <2>3 DEF Settled
    <3>6. worker[v].token # 0
      BY <2>1 DEF HolderJustified, TypeOK
    <3>7. ~Holds(v)'
      BY <1>0, <2>1, <2>3, <3>5, <3>6 DEF Holds
    <3> QED
      BY <2>1, <2>2, <2>3, <3>4, <3>5, <3>7, OthersKeep DEF TypeOK
  <2>4. CASE ~(Holds(w) /\ worker[v].d = d)
    <3>1. delivery'[worker[v].d] = delivery[worker[v].d]
      BY <1>3, <1>4, <2>1, <2>4
    <3> QED
      BY <2>1, <2>2, <3>1, OthersKeep DEF TypeOK
  <2> QED
    BY <2>3, <2>4
<1>10. TokensDiffer'
  BY <1>5, <1>6 DEF TokensDiffer
<1> QED
  BY <1>8, <1>9, <1>10

\* The locals a dispatcher keeps when it only moves on.
LEMMA Moved ==
    ASSUME TypeOK, NEW w \in Dispatchers, NEW pc, worker' = [worker EXCEPT ![w].pc = pc]
    PROVE  /\ worker'[w] = [worker[w] EXCEPT !.pc = pc]
           /\ worker'[w].pc = pc
           /\ worker'[w].d = worker[w].d /\ worker'[w].token = worker[w].token
           /\ worker'[w].attempts = worker[w].attempts /\ worker'[w].lease = worker[w].lease
           /\ \A v \in Dispatchers : v # w => worker'[v] = worker[v]
  BY DEF TypeOK, Locals

\* After a Telegram call the dispatcher is about to write one more attempt than
\* the row has, and one call more was made for it.
LEMMA CallInv ==
    ASSUME IInv, TypeOK', NEW w \in Dispatchers, worker[w].pc = "send",
           NEW d \in Deliveries, d = worker[w].d,
           now' = now, delivery' = delivery, conn' = conn, claims' = claims,
           sends' = [sends EXCEPT ![d] = @ + 1],
           got \subseteq got', refused \subseteq refused',
           \A v \in Dispatchers : v # w => worker'[v] = worker[v],
           worker'[w].d = worker[w].d, worker'[w].token = worker[w].token,
           worker'[w].attempts = worker[w].attempts, worker'[w].lease = worker[w].lease,
           worker'[w].pc \in AfterCall,
           worker'[w].pc = "markSent" => d \in got',
           worker'[w].pc = "markBroken" => <<d[2], delivery[d].rev>> \in refused',
           worker'[w].pc = "releaseRetry" => worker[w].attempts + 1 < MaxAttempts
    PROVE  IInv'
<1> USE DEF IInv
<1>1. worker[w].pc \in Holding /\ HolderJustified(w) /\ RowJustified(d)
  BY DEF Holding
<1>2. /\ sends[d] \in Nat /\ sends'[d] = sends[d] + 1 /\ delivery[d].attempts \in Nat
      /\ \A e \in Deliveries : sends[e] <= sends'[e]
  BY DEF TypeOK, Rows
<1>3. delivery[d].attempts < sends'[d]
  BY <1>1, <1>2 DEF RowJustified
<1>4. Holds(w)' = Holds(w)
  BY DEF Holds
<1>5. HolderJustified(w)'
  BY <1>1, <1>3, <1>4 DEF HolderJustified
<1> QED
  BY <1>1, <1>2, <1>5, StepInv

\* Every step of a dispatcher's iteration keeps the invariant.
LEMMA IterationInv ==
    ASSUME IInv, TypeOK', NEW w \in Dispatchers, Iteration(w)
    PROVE  IInv'
<1> USE DEF IInv
<1>0. PICK d \in Deliveries : d = worker[w].d
  BY DEF TypeOK, Locals
<1>a. worker[w].pc \in Holding => HolderJustified(w)
  OBVIOUS
<1>1. ASSUME NEW e \in Deliveries, Claim(w, e) PROVE IInv'
  BY <1>1, ClaimInv
<1>2. CASE EndBatch(w)
  <2>1. worker'[w].pc \notin Holding /\ \A v \in Dispatchers : v # w => worker'[v] = worker[v]
    BY <1>2 DEF EndBatch, Resting, Holding, TypeOK
  <2> QED
    BY <1>2, <2>1, StepInv DEF EndBatch, TypeOK
<1>3. CASE Recheck(w)
  <2>1. PICK pc \in {"claim", "send", "suppress"} : worker' = [worker EXCEPT ![w].pc = pc]
    BY <1>3 DEF Recheck
  <2>2. worker[w].pc \in Holding
    BY <1>3 DEF Recheck, Holding
  <2>3. Holds(w)' = Holds(w)
    BY <1>3, <2>1, Moved DEF Holds, Recheck
  <2>4. HolderJustified(w)'
    BY <1>3, <1>a, <2>1, <2>2, <2>3, Moved DEF HolderJustified, Recheck, AfterCall
  <2> QED
    BY <1>3, <2>1, <2>2, <2>4, Moved, StepInv DEF Recheck, TypeOK
<1>4. CASE worker[w].pc = "send" /\ sends' = [sends EXCEPT ![d] = @ + 1]
           /\ UNCHANGED <<now, delivery, conn, claims>>
           /\ \/ SendAccepted(w) \/ SendRetryable(w) \/ SendRejected(w) \/ SendRefused(w)
  <2> HIDE DEF IInv
  <2>0. /\ worker[w].pc = "send" /\ sends' = [sends EXCEPT ![d] = @ + 1]
        /\ now' = now /\ delivery' = delivery /\ conn' = conn /\ claims' = claims
    BY <1>4
  <2>a. ASSUME NEW pc, worker' = [worker EXCEPT ![w].pc = pc]
        PROVE  /\ worker'[w].pc = pc
               /\ worker'[w].d = worker[w].d /\ worker'[w].token = worker[w].token
               /\ worker'[w].attempts = worker[w].attempts /\ worker'[w].lease = worker[w].lease
               /\ \A v \in Dispatchers : v # w => worker'[v] = worker[v]
    BY <2>a, Moved DEF IInv
  <2>1. CASE SendAccepted(w)
    <3>1. worker' = [worker EXCEPT ![w].pc = "markSent"] /\ d \in got'
          /\ got \subseteq got' /\ refused' = refused
      BY <1>0, <2>1 DEF SendAccepted
    <3> QED
      BY <1>0, <2>0, <2>a, <3>1, CallInv DEF AfterCall
  <2>2. CASE SendRetryable(w)
    <3>1. got \subseteq got' /\ refused' = refused
      BY <2>2 DEF SendRetryable
    <3>2. CASE Exhausted(w)
      <4>1. worker' = [worker EXCEPT ![w].pc = "markFailed"]
        BY <2>2, <3>2 DEF SendRetryable
      <4>2. /\ worker'[w].pc = "markFailed"
            /\ worker'[w].d = worker[w].d /\ worker'[w].token = worker[w].token
            /\ worker'[w].attempts = worker[w].attempts /\ worker'[w].lease = worker[w].lease
            /\ \A v \in Dispatchers : v # w => worker'[v] = worker[v]
        BY <2>a, <4>1
      <4>3. got \subseteq got' /\ refused \subseteq refused'
        BY <3>1
      <4> QED
        BY ONLY IInv, TypeOK', w \in Dispatchers, <1>0, <2>0, <4>2, <4>3, CallInv DEF AfterCall
    <3>3. CASE ~Exhausted(w)
      <4>1. worker' = [worker EXCEPT ![w] = [@ EXCEPT !.pc = "releaseRetry",
                                 !.next = now + RetryDelay[worker[w].attempts + 1]]]
        BY <2>2, <3>3 DEF SendRetryable
      <4>2. /\ worker'[w].pc = "releaseRetry"
            /\ worker'[w].d = worker[w].d /\ worker'[w].token = worker[w].token
            /\ worker'[w].attempts = worker[w].attempts /\ worker'[w].lease = worker[w].lease
            /\ \A v \in Dispatchers : v # w => worker'[v] = worker[v]
        BY <4>1 DEF IInv, TypeOK, Locals
      <4>3. worker[w].attempts \in Nat /\ MaxAttempts \in Nat
        BY DeliveryAssumption DEF IInv, TypeOK, Locals
      <4>4. worker[w].attempts + 1 < MaxAttempts
        BY <3>3, <4>3 DEF Exhausted
      <4>5. got \subseteq got' /\ refused \subseteq refused'
        BY <3>1
      <4> QED
        BY ONLY IInv, TypeOK', w \in Dispatchers, <1>0, <2>0, <4>2, <4>4, <4>5, CallInv
           DEF AfterCall
    <3> QED
      BY <3>2, <3>3
  <2>3. CASE SendRejected(w)
    <3>1. worker' = [worker EXCEPT ![w].pc = "markFailed"] /\ got' = got /\ refused' = refused
      BY <2>3 DEF SendRejected
    <3> QED
      BY <1>0, <2>0, <2>a, <3>1, CallInv DEF AfterCall
  <2>4. CASE SendRefused(w)
    <3>1. worker' = [worker EXCEPT ![w].pc = "markBroken"] /\ got' = got
          /\ refused \subseteq refused' /\ <<d[2], delivery[d].rev>> \in refused'
      BY <1>0, <2>4 DEF SendRefused
    <3>2. /\ worker'[w].pc = "markBroken"
          /\ worker'[w].d = worker[w].d /\ worker'[w].token = worker[w].token
          /\ worker'[w].attempts = worker[w].attempts /\ worker'[w].lease = worker[w].lease
          /\ \A v \in Dispatchers : v # w => worker'[v] = worker[v]
      BY <2>a, <3>1
    <3>3. got \subseteq got' /\ refused \subseteq refused'
      BY <3>1
    <3> QED
      BY ONLY IInv, TypeOK', w \in Dispatchers, <1>0, <2>0, <3>1, <3>2, <3>3, CallInv
         DEF AfterCall
  <2> QED
    BY <1>4, <2>1, <2>2, <2>3, <2>4
<1>5. SendAccepted(w) \/ SendRetryable(w) \/ SendRejected(w) \/ SendRefused(w) => IInv'
  BY <1>0, <1>4 DEF SendAccepted, SendRetryable, SendRejected, SendRefused
<1>b. d \in Deliveries /\ delivery[d].next \in Nat /\ worker[w].next \in Nat
  BY <1>0 DEF TypeOK, Locals, Rows
<1>6. CASE MarkSuppressed(w)
  BY <1>0, <1>b, <1>6, SettleInv DEF MarkSuppressed, Holding, BrokenWasRefused
<1>7. CASE MarkSent(w)
  <2>1. d \in got
    BY <1>0, <1>a, <1>7 DEF MarkSent, Holding, HolderJustified
  <2> QED
    BY <1>0, <1>b, <1>7, <2>1, SettleInv DEF MarkSent, Holding, AfterCall, BrokenWasRefused
<1>8. CASE ReleaseRetry(w)
  <2>1. worker[w].attempts + 1 < MaxAttempts
    BY <1>a, <1>8 DEF ReleaseRetry, Holding, HolderJustified
  <2> QED
    BY <1>0, <1>b, <1>8, <2>1, SettleInv DEF ReleaseRetry, Holding, AfterCall, BrokenWasRefused
<1>9. CASE MarkFailed(w)
  BY <1>0, <1>b, <1>9, SettleInv DEF MarkFailed, Holding, AfterCall, BrokenWasRefused
<1>10. CASE MarkBroken(w)
  <2>1. <<d[2], delivery[d].rev>> \in refused
    BY <1>0, <1>a, <1>10 DEF MarkBroken, Holding, HolderJustified
  <2>2. BrokenWasRefused'
    <3>1. CASE Breaks(w)
      BY <1>0, <1>10, <2>1, <3>1 DEF MarkBroken, Breaks, BrokenWasRefused, TypeOK
    <3>2. CASE ~Breaks(w)
      BY <1>10, <3>2 DEF MarkBroken, BrokenWasRefused
    <3> QED
      BY <3>1, <3>2
  <2> QED
    BY <1>0, <1>b, <1>10, <2>2, SettleInv DEF MarkBroken, Holding, AfterCall
<1> QED
  BY <1>1, <1>2, <1>3, <1>5, <1>6, <1>7, <1>8, <1>9, <1>10 DEF Iteration

\* Time and the changes users and administrators make keep the invariant.
LEMMA SurroundingsInv ==
    ASSUME IInv, TypeOK', Tick \/ \E u \in Users : Relink(u) \/ Disconnect(u) \/ Revoke(u)
    PROVE  IInv'
<1> USE DEF IInv
<1>1. /\ now <= now' /\ delivery' = delivery /\ worker' = worker /\ claims' = claims
      /\ sends' = sends /\ got' = got /\ refused' = refused
  BY DEF Tick, Relink, Disconnect, Revoke, TypeOK
<1>2. ASSUME NEW d \in Deliveries PROVE RowJustified(d)'
  BY <1>1 DEF RowJustified
<1>3. ASSUME NEW v \in Dispatchers, worker'[v].pc \in Holding PROVE HolderJustified(v)'
  <2>1. HolderJustified(v) /\ worker'[v] = worker[v]
    BY <1>1, <1>3
  <2>2. \A e \in Deliveries : claims[e] <= claims'[e] /\ sends[e] <= sends'[e]
    BY <1>1 DEF TypeOK
  <2> QED
    BY <1>1, <2>1, <2>2, OthersKeep
<1>4. BrokenWasRefused'
  <2>1. conn' = conn => BrokenWasRefused'
    BY <1>1 DEF BrokenWasRefused
  <2>2. ASSUME NEW u \in Users, Relink(u) \/ Disconnect(u) PROVE BrokenWasRefused'
    BY <1>1, <2>2 DEF Relink, Disconnect, BrokenWasRefused, TypeOK
  <2> QED
    BY <2>1, <2>2 DEF Tick, Revoke
<1> QED
  BY <1>1, <1>2, <1>3, <1>4 DEF TokensDiffer

\* Every step keeps the invariant.
LEMMA NextInv == IInv /\ [Next]_vars => IInv'
<1> SUFFICES ASSUME IInv, [Next]_vars PROVE IInv'
  OBVIOUS
<1>a. TypeOK'
  BY TypeStep DEF IInv
<1>1. CASE UNCHANGED vars
  BY <1>1 DEF vars, IInv, TypeOK, RowJustified, HolderJustified, Holds, TokensDiffer,
              BrokenWasRefused
<1>2. CASE Tick \/ \E u \in Users : Relink(u) \/ Disconnect(u) \/ Revoke(u)
  BY <1>a, <1>2, SurroundingsInv
<1>3. ASSUME NEW a \in Alerts, Plan(a) PROVE IInv'
  BY <1>a, <1>3, PlanInv
<1>4. ASSUME NEW w \in Dispatchers, StartBatch(w) PROVE IInv'
  BY <1>a, <1>4, StartBatchInv
<1>5. ASSUME NEW w \in Dispatchers, Iteration(w) PROVE IInv'
  BY <1>a, <1>5, IterationInv
<1>6. ASSUME NEW w \in Dispatchers, Abort(w) PROVE IInv'
  <2>1. worker'[w].pc \notin Holding /\ \A v \in Dispatchers : v # w => worker'[v] = worker[v]
    BY <1>6 DEF Abort, Resting, Holding, IInv, TypeOK
  <2>2. /\ now' = now /\ delivery' = delivery /\ conn' = conn /\ claims' = claims
        /\ got \subseteq got' /\ refused \subseteq refused'
        /\ \A d \in Deliveries : sends[d] <= sends'[d]
    BY <1>6 DEF Abort, IInv, TypeOK
  <2> QED
    BY <1>a, <2>1, <2>2, StepInv
<1> QED
  BY <1>1, <1>2, <1>3, <1>4, <1>5, <1>6 DEF Next

\* The invariant always holds.
LEMMA Invariance == Spec => []IInv
  BY InitInv, NextInv, PTL DEF Spec

\* A row says SENT only for a message Telegram accepted, for any number of
\* dispatchers racing under any lease.
THEOREM SentIsTrue == Spec => []SentWasDelivered
<1>1. IInv => SentWasDelivered
  BY DEF IInv, RowJustified, SentWasDelivered
<1> QED
  BY <1>1, Invariance, PTL

\* A dispatcher keeps its delivery as long as its lease is in force.
THEOREM LeaseIsRespected == Spec => []LeaseRespected
<1>1. IInv => LeaseRespected
  BY DEF IInv, HolderJustified, LeaseRespected
<1> QED
  BY <1>1, Invariance, PTL

\* A late refusal never breaks a connection that was linked anew.
THEOREM BrokenIsTrue == Spec => []BrokenWasRefused
<1>1. IInv => BrokenWasRefused
  BY DEF IInv
<1> QED
  BY <1>1, Invariance, PTL

\* Attempts are counted at most once per call and never beyond the maximum.
THEOREM AttemptsAreBounded == Spec => []AttemptsBounded
<1>1. IInv => AttemptsBounded
  BY DEF IInv, RowJustified, AttemptsBounded
<1> QED
  BY <1>1, Invariance, PTL
-----------------------------------------------------------------------------
(* What a step may never do, and the promise.                              *)

\* A closed delivery is never written again, by whichever dispatcher.
THEOREM ClosedStaysClosed == Spec => ClosedIsFinal
<1> DEFINE Final == \A d \in Deliveries :
                      delivery[d].status \in Closed => delivery'[d] = delivery[d]
<1>1. ASSUME TypeOK, [Next]_vars PROVE Final
  <2> SUFFICES ASSUME NEW d \in Deliveries, delivery[d].status \in Closed
               PROVE  delivery'[d] = delivery[d]
    OBVIOUS
  <2>1. CASE UNCHANGED vars
    BY <2>1 DEF vars
  <2>2. CASE Tick \/ \E u \in Users : Relink(u) \/ Disconnect(u) \/ Revoke(u)
    BY <2>2 DEF Tick, Relink, Disconnect, Revoke
  <2>3. ASSUME NEW a \in Alerts, Plan(a) PROVE delivery'[d] = delivery[d]
    <3>1. CASE d[1] = a
      <4>1. d = <<a, d[2]>> /\ d[2] \in Users
        BY <3>1 DEF Deliveries
      <4> QED
        BY <2>3, <4>1 DEF Plan, Closed
    <3>2. CASE d[1] # a
      BY <2>3, <3>2 DEF Plan
    <3> QED
      BY <3>1, <3>2
  <2>4. ASSUME NEW w \in Dispatchers, StartBatch(w) \/ Abort(w) PROVE delivery'[d] = delivery[d]
    BY <2>4 DEF StartBatch, Abort, Expired, Closed
  <2>5. ASSUME NEW w \in Dispatchers, Iteration(w) PROVE delivery'[d] = delivery[d]
    <3>1. ASSUME NEW e \in Deliveries, Claim(w, e) PROVE delivery'[d] = delivery[d]
      <4>1. d # e
        BY <3>1 DEF Claim, Claimable, Closed
      <4> QED
        BY <3>1, <4>1 DEF Claim, TypeOK
    <3>2. ASSUME NEW status, NEW attempts, NEW next, Settle(w, status, attempts, next)
          PROVE  delivery'[d] = delivery[d]
      <4>1. CASE Holds(w)
        <5>1. d # worker[w].d
          BY <4>1 DEF Holds, Closed
        <5> QED
          BY <3>2, <4>1, <5>1 DEF Settle, TypeOK
      <4>2. CASE ~Holds(w)
        BY <3>2, <4>2 DEF Settle
      <4> QED
        BY <4>1, <4>2
    <3> QED
      BY <2>5, <3>1, <3>2
         DEF Iteration, EndBatch, Recheck, SendAccepted, SendRetryable, SendRejected, SendRefused,
             MarkSuppressed, MarkSent, ReleaseRetry, MarkFailed, MarkBroken
  <2>6. CASE Next
    BY ONLY <2>2, <2>3, <2>4, <2>5, <2>6 DEF Next
  <2> QED
    BY <1>1, <2>1, <2>6
<1>2. TypeOK /\ [Next]_vars => [Final]_vars
  BY <1>1
<1> QED
  BY <1>2, TypeCorrect, PTL DEF Spec, ClosedIsFinal

\* Closing rows, one or many, keeps the promise when a SENT row was delivered.
LEMMA StepKeepsPromise ==
    ASSUME IInv, IInv', [Next]_vars
    PROVE  [Promise!Next]_(Promise!vars)
<1> USE DEF Outcome, Closed
<1>t. TypeOK /\ TypeOK'
  BY DEF IInv
<1>o. /\ \A d \in Deliveries : delivery[d].status \in Statuses
      /\ \A d \in Deliveries : (delivery[d].status)' \in Statuses
  BY <1>t DEF TypeOK, Rows
<1>s. \A d \in Deliveries : delivery'[d].status = "SENT" => d \in got'
  BY DEF IInv, RowJustified
\* A step that leaves the outcome and the deliveries alone is a stutter.
<1>1. ASSUME \A d \in Deliveries : delivery'[d].status = delivery[d].status, got' = got
      PROVE  [Promise!Next]_(Promise!vars)
  <2>1. Outcome' = Outcome
    BY <1>1
  <2> QED
    BY <1>1, <2>1 DEF Promise!vars
\* A step that settles only open rows, all the same way, closes them.
<1>2. ASSUME NEW final \in {"SENT", "FAILED", "SUPPRESSED"}, NEW D \in SUBSET Deliveries,
             got' = got,
             \A d \in D : /\ delivery[d].status \in {"PENDING", "SENDING"}
                          /\ delivery'[d].status = final,
             \A d \in Deliveries \ D : delivery'[d] = delivery[d]
      PROVE  [Promise!Next]_(Promise!vars)
  <2>1. D \in SUBSET {d \in Deliveries : Outcome[d] = "OPEN"}
    BY <1>2
  <2>2. final = "SENT" => D \subseteq got
    BY <1>2, <1>s
  <2>3. Outcome' = [d \in Deliveries |-> IF d \in D THEN final ELSE Outcome[d]]
    BY <1>2
  <2>4. Promise!CloseSome(final)
    BY <1>2, <2>1, <2>2, <2>3 DEF Promise!CloseSome
  <2> QED
    BY <2>4 DEF Promise!Next, Promise!Finals
\* A message that arrives belongs to a delivery somebody claimed.
<1>3. ASSUME NEW d \in Deliveries, delivery[d].status # "NONE", delivery' = delivery,
             got' \in {got, got \cup {d}}
      PROVE  [Promise!Next]_(Promise!vars)
  <2>1. Outcome' = Outcome /\ Outcome[d] # "NONE"
    BY <1>3
  <2>2. CASE got' = got
    BY <2>1, <2>2 DEF Promise!vars
  <2>3. CASE got' = got \cup {d}
    BY <2>1, <2>3 DEF Promise!Next, Promise!Arrive
  <2> QED
    BY <1>3, <2>2, <2>3
<1>4. CASE UNCHANGED vars
  BY <1>1, <1>4 DEF vars
<1>5. CASE Tick \/ \E u \in Users : Relink(u) \/ Disconnect(u) \/ Revoke(u)
  BY <1>1, <1>5 DEF Tick, Relink, Disconnect, Revoke
<1>6. ASSUME NEW a \in Alerts, Plan(a) PROVE Promise!PlanSome
  <2> DEFINE D == {d \in Deliveries : d[1] = a /\ d[2] \in allowed
                                      /\ conn[d[2]].status = "CONNECTED"}
  <2>1. ASSUME NEW d \in D PROVE Outcome[d] = "NONE" /\ delivery'[d].status = "PENDING"
    <3>1. d = <<a, d[2]>> /\ d[2] \in Users
      BY DEF Deliveries
    <3> QED
      BY <1>6, <3>1 DEF Plan, Unplanned
  <2>2. ASSUME NEW d \in Deliveries \ D PROVE delivery'[d] = delivery[d]
    BY <1>6 DEF Plan
  <2>3. D \in SUBSET {d \in Deliveries : Outcome[d] = "NONE"}
    BY <2>1
  <2>4. Outcome' = [d \in Deliveries |-> IF d \in D THEN "OPEN" ELSE Outcome[d]]
    <3> HIDE DEF D
    <3> QED
      BY <2>1, <2>2
  <2>5. got' = got
    BY <1>6 DEF Plan
  <2> HIDE DEF D, Outcome
  <2> QED
    BY <2>3, <2>4, <2>5 DEF Promise!PlanSome
<1>7. ASSUME NEW w \in Dispatchers, StartBatch(w) PROVE [Promise!Next]_(Promise!vars)
  <2> DEFINE D == {d \in Deliveries : Expired(d)}
  <2>1. \A d \in D : /\ delivery[d].status \in {"PENDING", "SENDING"}
                     /\ delivery'[d].status = "FAILED"
    BY <1>7, <1>t DEF StartBatch, Expired, TypeOK, Rows
  <2>2. \A d \in Deliveries \ D : delivery'[d] = delivery[d]
    BY <1>7 DEF StartBatch
  <2>3. got' = got /\ D \in SUBSET Deliveries
    BY <1>7 DEF StartBatch
  <2> HIDE DEF D
  <2> QED
    BY <1>2, <2>1, <2>2, <2>3
<1>8. ASSUME NEW w \in Dispatchers, Iteration(w) PROVE [Promise!Next]_(Promise!vars)
  <2>0. PICK d \in Deliveries : d = worker[w].d
    BY <1>t DEF TypeOK, Locals
  <2>1. ASSUME NEW e \in Deliveries, Claim(w, e) PROVE [Promise!Next]_(Promise!vars)
    <3>1. /\ delivery[e].status \in {"PENDING", "SENDING"} /\ delivery'[e].status = "SENDING"
          /\ \A f \in Deliveries \ {e} : delivery'[f] = delivery[f]
      BY <2>1, <1>t DEF Claim, Claimable, TypeOK, Rows
    <3>2. Outcome' = Outcome
      BY <3>1
    <3>3. got' = got
      BY <2>1 DEF Claim
    <3> QED
      BY <3>2, <3>3 DEF Promise!vars
  <2>2. CASE EndBatch(w) \/ Recheck(w)
    BY <1>1, <2>2 DEF EndBatch, Recheck
  <2>3. CASE SendAccepted(w) \/ SendRetryable(w) \/ SendRejected(w) \/ SendRefused(w)
    <3>1. worker[w].pc = "send" /\ delivery' = delivery /\ got' \in {got, got \cup {d}}
      BY <2>0, <2>3 DEF SendAccepted, SendRetryable, SendRejected, SendRefused
    <3>2. HolderJustified(w) /\ RowJustified(d)
      BY <3>1 DEF IInv, Holding
    <3>3. delivery[d].status # "NONE"
      BY <2>0, <3>2, <1>t DEF HolderJustified, RowJustified, TypeOK
    <3> QED
      BY <1>3, <3>1, <3>3
  <2>4. ASSUME NEW status \in {"SENT", "PENDING", "FAILED", "SUPPRESSED"}, NEW attempts, NEW next,
               Settle(w, status, attempts, next), got' = got
        PROVE  [Promise!Next]_(Promise!vars)
    <3>1. CASE ~Holds(w)
      BY <1>1, <2>4, <3>1 DEF Settle
    <3>2. CASE Holds(w)
      <4>1. /\ delivery[d].status = "SENDING" /\ delivery'[d].status = status
            /\ \A e \in Deliveries \ {d} : delivery'[e] = delivery[e]
        BY <2>0, <2>4, <3>2, <1>t DEF Settle, Settled, Holds, TypeOK
      <4>2. CASE status = "PENDING"
        <5>1. Outcome' = Outcome
          BY <4>1, <4>2
        <5> QED
          BY <2>4, <5>1 DEF Promise!vars
      <4>3. CASE status # "PENDING"
        BY <1>2, <2>4, <4>1, <4>3
      <4> QED
        BY <4>2, <4>3
    <3> QED
      BY <3>1, <3>2
  <2>5. CASE MarkSuppressed(w) \/ MarkSent(w) \/ ReleaseRetry(w) \/ MarkFailed(w) \/ MarkBroken(w)
    BY <2>4, <2>5 DEF MarkSuppressed, MarkSent, ReleaseRetry, MarkFailed, MarkBroken
  <2> QED
    BY <1>8, <2>1, <2>2, <2>3, <2>5 DEF Iteration
<1>9. ASSUME NEW w \in Dispatchers, Abort(w) PROVE [Promise!Next]_(Promise!vars)
  BY <1>1, <1>9 DEF Abort
<1>10. CASE Next
  BY ONLY <1>5, <1>6, <1>7, <1>8, <1>9, <1>10 DEF Next, Promise!Next
<1> QED
  BY <1>4, <1>10

\* The delivery rows implement the promise made to the recipient.
THEOREM DeliveryPromise == Spec => KeepsPromise
<1>1. Init => Promise!Init
  BY DEF Init, Unplanned, Outcome, Promise!Init
<1>2. IInv /\ IInv' /\ [Next]_vars => [Promise!Next]_(Promise!vars)
  BY StepKeepsPromise
<1> QED
  BY <1>1, <1>2, Invariance, PTL DEF Spec, KeepsPromise, Promise!Spec
=============================================================================
