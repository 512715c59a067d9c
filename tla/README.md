# A TLA+ development of fleet-gps

Fleet GPS is a monorepo: a NestJS API (`apps/api`) with a PostgreSQL database, a Next.js web
application (`apps/web`), a client of the external GPS provider (`packages/equgps`) and operations
scripts (`ops`). The API runs as exactly one replica (`docs/local-scheduler-operation.md:7`,
`docs/sync-scheduler.md:7`); two processes overlap only while one replaces the other.

This directory models the parts in which order, failure and retry matter, checks them with TLC on
small instances and proves the central results with TLAPS. Paths below are relative to
`apps/api/src/modules/` unless they begin with a top-level directory.

## 1. Inventory

| Component | State it keeps | Operations | What makes it correct |
|---|---|---|---|
| fleet sync (`fleet`) | vehicles, current positions | poll a snapshot, store it, hand every valid position to the alert ingestion | every pending fix is offered again; one failing vehicle does not stop the others |
| alert ingestion (`alert-ingestion`, `alert-evaluation`) | journal of fixes, speeding checkpoint (durable); per-vehicle queue, initialized set, replay frontier (memory) | journal a fix, drain pending fixes in order, bootstrap after a restart, complete a fix | a failure or restart is invisible in the durable result; no fix is lost, repeated or reordered |
| speeding detector | last time, streak, context, confirmation (memory) | detect, hydrate, seed ordering, checkpoint, invalidate on a settings change | a streak is consecutive samples of one policy |
| inactivity detector | window of fixes, active flag (memory) | detect, clear on a settings change, replay from the journal | a bounded replay rebuilds the same window |
| city geofence | polygon in the settings | classify a point; replaced by the operator's script | one settings snapshot decides zone and limit |
| alert events | events, confirmation receipts (durable) | register, update, resolve | at most one open event of a kind; a confirmation counts once |
| settings (`admin-settings`, `alert-settings`) | one row with a revision | update, then notify the detectors in process | two policies never mix in one alert |
| recipient deliveries (`alert-notifications`, `recipient-delivery-scheduler`) | one row per alert and user with status, lease, token, attempts, revision | plan, claim, recheck, send, settle, expire | at least once, a true outcome, leases respected, closed for good |
| Telegram linking | connections with a revision, link tokens, webhook receipts, link limiter | ask for a link, disconnect, handle a message and its repetitions | one account belongs to one user; a user has one usable token; a revision names one account |
| alert notification outbox and its scheduler | shared-chat outbox rows with leases; running flag, abort signal (memory) | claim, send, settle, tick, shut down | every call is counted; a repetition has a reason; a shutdown leaves nothing claimed |
| sync scheduler | active jobs, status (memory) | tick, run, finish, shut down | no overlap; a late answer after shutdown changes nothing |
| position history: cursors, continuous ingestion | per-vehicle cursor, observations; fences (memory) | plan a cycle over two lanes, fetch a range, store it, advance the cursor by compare-and-set | the cursor claims only what is stored; no vehicle starves another |
| position history: replay runs | generation, run lease, checkpoints; fences and narrower windows (memory) | claim, renew, persist a window, yield, complete, retire a prefix | a generation is whole when it completes, and it completes |
| position history: population runs | run with budget and lease, checkpoints of every vehicle and slice | create, claim, store windows, yield, succeed, fail; the operator's command | success is earned; a finished run stays so; a window is stored and charged once |
| position history: retention, execution lock | advisory lock | show a plan, confirm it, reconcile the floor, delete in bounded passes | nothing claimed is deleted; a confirmed pass deletes what it announced |
| workload coordinator | choice of the next work | poll, replay, backlog | no kind of work starves |
| authentication, users | accounts, sessions, login limiter | log in and out, create, change access, disable, enable, reset and change passwords; the operator's script creates accounts | an enabled administrator remains; sessions match their account |
| vehicle groups and access | groups, members | edit, resolve a scope | access decides what is planned and sent |
| audit | append-only rows | append in the transaction of the change | a row begins where the one before it ended |
| reports and queries (`dashboard`, `fleet-map`, `vehicle-track`, `trip-stop-analytics`, ...) | none | read | pure functions |
| web application, provider client, operations | sessions of a browser, provider session | proxy, render, fetch, back up | - |

Interactions. A fleet cycle polls the provider, stores the snapshot and calls the ingestion for every
vehicle; the ingestion queues one task per vehicle, journals the fix, evaluates it with both detectors
and writes alert events. Creating an event plans its deliveries in the same transaction. The
recipient scheduler claims deliveries under a lease in the database, rechecks the user, calls Telegram
and settles the row; the shared-chat outbox is planned beside it and has a scheduler of its own.
Settings changes reach the detectors twice: as the row they read for themselves and as a notification
after the commit. A Telegram webhook changes connections between any two steps. All work on the position
history, the continuous cycle, the replay, the population runs and retention, shares one advisory lock,
which belongs to a database session and is lost with it; what makes their results safe is therefore in
the transactions, which compare what they read with what they change.

Hard behaviours. Every `await` of a database call is a point where a settings change, a failure or a
restart may come in; a write may commit although its answer is lost; fixes may arrive late; a Telegram
answer may come after the lease is over; a process may stop between a call and its record; a worker may
go on although its lease or its lock is another's; the policy floor moves while a pass deletes what was
behind it; two requests decide on rows both have read. The list of
hazards with their lines and the properties that cover them is in `PROJECT.json`.

## 2. Modules

| Module | Models | Correspondence |
|---|---|---|
| `SpeedingDetector` | `speeding-detector.state-machine.ts`, its service and fingerprint, the zone of a point | `DetectSpeeding(state, observation, settings)` returns the next state and the status; `Invalidated`, `Blank`, `NoSpeeding` are invalidation, ordering seed and reset |
| `InactivityDetector` | `inactivity-detector.state-machine.ts` | `DetectInactivity` with `TrimHistory`, `TravelledReaches`, `StartWindow` |
| `AlertEvents` | lifecycle service and Prisma repository of the events | `Register`, `Update`, `Resolve` are transactions returning `[ok, alerts]`; a throw is `ok = FALSE` and changes nothing |
| `AlertIngestion` | ingestion service, observation repository, evaluation service, fleet hand-over, settings update and notifier | one action per stretch of code between two awaits |
| `AlertReplay` | - | the properties of the pipeline, with a reference run that never fails |
| `RecipientDelivery` | recipient repository, dispatcher, planner, scheduler | one action per transaction or Telegram call |
| `RetryPolicy` | `recipientDeliveryRetryDelayMs` | the delay by attempt |
| `DeliveryOutcome` | - | the abstract promise of a delivery: sent only if accepted, closed for good |
| `TelegramLinking` | linking service, controller and limiter | one action per statement that waits or reads what a later one relies on |
| `AlertDispatch` | outbox repository, dispatcher and scheduler of the shared chat | one action per transaction, call or timer |
| `PopulationRun` | state service, worker, poller and creation of population runs, horizon population, backfill, the operator's script | one action per transaction of the worker |
| `WindowLedger` | - | the abstract promise of a population: windows stored once and charged within a budget |
| `HistoryReplay` | replay worker, planning, run state, repository | one action per step of a quantum |
| `HistoryCoverage` | continuous worker and planning, cursor repository, retention, backfill repository | one action per step of a cycle, per batch of a pass |
| `Administration` | authentication, users, guards, vehicle groups, settings forms, audit rows, the operator's scripts for accounts and the geofence | one action per statement that reads before another writes |
| `MC...` | - | small instances of the modules for TLC |
| `..._proof` | - | theorems about `AlertReplay`, `RecipientDelivery`, `AlertDispatch`, `TelegramLinking`, `PopulationRun`, `HistoryReplay`, `HistoryCoverage`, `Administration` |

`map` in `PROJECT.json` names the lines of every definition.

**Alert pipeline.** `AlertIngestion` extends the two detectors and the events, and `AlertReplay` extends
it. `journal`, `checkpoint`, `alerts` and `settings` are the database; `memory` is `initializedVehicles`,
`replayFrontiers` and the states of both detectors; `task` is the running task of the vehicle's queue
with what its locals hold; `changed` holds the committed changes `SettingsChangeNotifier` has not
announced. `Deliver`/`Redeliver` journal a fix; `Drain` is `findPendingThrough`; `Bootstrap`, `Restore`,
`Prime` are the three parts of `bootstrapVehicleIfRequired`; `EvaluateSpeeding` and `EvaluateInactivity`
each read the settings; `WriteSpeeding` and `WriteInactivity` are the event transactions; `Complete` is
`completeObservation`. `Fail` is a failing database call at any of these steps; taken after a write it is
also the write that committed with its answer lost. `LoseInsertAnswer` is the same for the insert, which
lies before the `try` and so resets nothing. `Restart` forgets everything that is not durable.
Vehicles share nothing but the settings and `enqueueVehicle` serialises the tasks of one, so one vehicle
is modelled. Positions are points of a line, compared with the same clipping formula multiplied out.
`limit` stands for the effective threshold, limit plus tolerance. An event's speeds, coordinates and
distances belong to the immutable row of their time, so times stand for them. A replay of rows in time
order (`Primed`, and `Reference` and `Track` among the properties) is a recursive function of the time,
which at each time takes the row there is, if any.

**Recipient deliveries.** `delivery` holds the rows, `conn` the connections, `allowed` the users every
other condition of `evaluate` and of the planner lets through, `worker` each process's batch. The clock
is in scaled units. `claims`, `sends`, `got` and `refused` are history: tokens given (a UUID never comes
twice), calls made, messages accepted, refusals seen. `Relink` and `Disconnect` are what
`TelegramLinking` does to a connection, seen from here.

**Telegram linking.** Transactions run under READ COMMITTED. `BeginLink`, `RevokeLinks`,
`CreateLink` follow `createLink`, whose advisory lock neither disconnect nor the webhook takes;
`BeginDisconnect` and `Disconnect` are the two statements between which a message may connect the
account. A message (`Send`) is received, again while it is not answered (`Receive`), and handled by
`ReadToken`, `ReadUser`, `ReadOthers` and `Link`, where `LinkConflicts` is the unique key. What a transaction
does from its first write to a connection on is one step, as the rows it writes are locked until it ends.
A Telegram account stands for its user and its private chat. A connection that broke keeps its account,
so linking it to another user fails on the unique key until that user relinks or disconnects; this is in
the model. `named` and `decisions` are history.

**Shared-chat outbox.** Time is what it makes possible: a retry is due or not, a lease is in force or
over. A lock token is new with every claim and so is the attempt number, which stands for both. Which due
row is the oldest is left open. `Tick`, `BeginShutdown`, `EndShutdown`, `Start` are the scheduler:
timer, `destroy` that aborts the batch between two claims and awaits it, and the next process; `Check` to
`MarkFailed` are the dispatcher. A lease that ends under a holder counts as a fault, as a request times
out long before.

**Population runs.** A lease is valid or expired: the heartbeat renews it while its worker runs. A
process stands for its lock token. `Poll`, `Claim`, `Begin`, `InspectSlice`, `PrepareVehicle`,
`PersistWindow`, `FinishSlice`, `After` and `Succeed`, `Yield` or `Fail` are a quantum; `StartShort` begins a
short execution under the same lock, `StartCommand` and `CommandWindow` are the operator's script, which
takes none; `Maintain` creates the automatic run. A slice is left for the next one only when it is complete
for the whole fleet. Every vehicle has a device, as `vehicles.external_device_id` is not null and positive
(`apps/api/prisma/migrations/20260805_init_core/migration.sql:11,73`), so the code's branches for a vehicle
without one are left out.

**Replay.** Time is the number of the current generation of one kind. A checkpoint is
`<<generation, vehicle, slice start>>`, `next` its `next_from`, and `replayed` is history: what each
generation has stored. A window is read with the length its failures have left (`Windows`, the tiers
after timeouts) and stored by compare-and-set. `Reconcile` is what retention does to unfinished
checkpoints. Fences end with time: a fence is a minute at least, a poll comes every 30 seconds, and the
model keeps what follows from that. `Find` takes the oldest claimable run whose checkpoints are not all fenced
among the first `CandidateLimit` (`Listed`), which is 8 in the code; when all of these are exhausted there is no
work. Shared recovery of rolling slices and the eviction of the oldest of
its 500 entries are left out.

**Coverage.** An instant stands for the positions the provider has of it; `clock` is `safeNow`. `cursor`
has the two ends of each vehicle's guarantee. `StartCycle` is `ensureCursor` for all and `plan`: the slots
of a cycle take the first of the lane they prefer (`Plan`), caught-up backlogs are left alone
(`CaughtUp`). `Inspect` reads the cursor again under the lock, `Read`/`ReadFails` is the request with one
of the allowed durations, `PersistRecent` and `PersistBacklog` the transactions, the second with its
compare-and-set. `Begin`, `Reconcile`, `DeleteCheckpoint`, `CheckpointsDone`, `DeleteObservation`,
`EndPass` are a retention pass with its budgets; a batch is one row. `Prepare` and `BackfillWindow` are the
finite backfill, which need not hold the lock. What the capacity allocator and the coordinator hand out
is the constant `Preferences`. The slower cadence of disabled vehicles and the global cooldown only delay
a cycle and are left out.

**Administration.** Each request authenticates once (`AskAdministration`, `AskDeletion`, `AskWithPassword`) and
works with what it read: `LockAdminCardinality` and `ReadAccount` before a change of access or of the disabled
flag, `LoadSettings`, `PatchSettings`, `SaveSettings` for a form. A password is a number, as its material is salted
and never comes twice. `DeleteGroup` takes the grants of a vehicle group from every account; that a group is
created, edited or given members is left out, and so are the grants of single vehicles, which only `create`
and `updateAccess` write. Two of the operator's scripts write the same rows: `OperatorCreates` makes an account without a row of the
trail, and `ImportGeofence` writes the geofence and neither moves the revision nor leaves a row, so that the count
of imports in `settings` is history; an import of the polygon that is there changes nothing and is left out. `audit` is the sequence of rows in the order of the commits, each with what
the code puts in it: role and permissions before and after; mode and number of grants before and after; the one
field of the settings that changed, of a geofence the `Summary` of its rings and points; of a deleted group nothing
about its users. Sessions do not expire in the model and the login limiter is left out: both only take requests away.

## 3. Runs

| Run | Question | Bounds |
|---|---|---|
| `MCAlerts` | what survives failures, restarts, late fixes and settings changes, separately and together? | speeding: 4 times, 2 faults; inactivity: 6 times, window 3, 2 faults; both with late fixes: 4 times; everything together: 3 times, 2 faults, 1 change among 4 policies; in order: 4 times, 1 fault, 1 change |
| `MCAlertsEnds` | is every row processed under fixed settings? | 3 to 4 times, up to 2 faults |
| `MCLateDuringRetry` | and with a late fix while a failed row waits? | 3 times, 1 fault |
| `MCDelivery` | do racing dispatchers keep the promise of a delivery, and is it closed? | 2 dispatchers, lease 1, age 4, 2 attempts, 6 ticks, 2 revisions |
| `MCTelegramLinking` | what do overlapping links, disconnects and messages leave? | 2 users, accounts, messages, handlers and sessions, 2 tokens, 1 change of eligibility, 1 failure |
| `MCAlertDispatch` | does the outbox keep the same promise, through shutdowns, and count every call? | 2 processes, 2 notifications, 2 retryable answers or faults, 1 shutdown |
| `MCPopulation` | is success earned, is the ledger kept, does every run end? | 2 processes, 1 run with a budget of 2 or 4 windows, 2 slices of 2 vehicles, one of them disabled, short executions, the command, 1 fault |
| `MCHistoryReplay` | is anything skipped when leases, locks and workers are lost? | 2 processes, 2 generations, 2 vehicles, two window lengths, 2 faults |
| `MCHistoryReplayEnds` | does every generation complete? | 1 process, 3 generations, 2 candidates looked at, 1 failure, 1 toggle of a vehicle |
| `MCHistoryCoverage` | is what cursors and checkpoints claim stored? | 2 vehicles, one always failing, 3 ticks, 1 backfill, 1 population run, 1 fault, 1 plan shown |
| `MCHistoryCoverageEnds` | does every vehicle catch up, does the obsolete go? | the same without backfill and faults |
| `MCAdministration` | what do three requests and the operator leave of administrators, sessions, settings and audit? | 3 requests on 3 accounts, 2 of them administrators, 1 group, 2 fields, 1 import |

Why the bounds are enough. A streak of two, its confirmation, an update and a clear need four samples,
and a new zone or policy in between one of them; an inactivity window of 3 with an anchor before it and
a point after it fits in six times. Two faults include a failure during the recovery from the first.
The race of the dispatchers needs a lease that ends while its holder still sends, an age limit that comes
later, a retry and a last attempt and a relink during a refusal; `MaxNow` lies at `LastPlan + MaxAge`, so
every planned delivery reaches its age limit before the clock stops. Two handlers and two sessions on two
users are every pair of statements that can overlap on one row. A population with two vehicles in one
slice has an order to get wrong; an automatic run leaves the disabled one out and a run of an administrator may
not; a budget of 2 ends a run before all is stored, and one of 4 after all is, or never when a rival stores some of
it. Two generations overlap in range, which is what retirement and takeover can confuse. Three generations with two
candidates are the least in which one is behind the limit, and held up by as many as a quantum looks at. Three
requests are two that race and a third that sees what they left, with a deletion or an import at any point of them. In
`MCHistoryCoverage` the floor moves twice after the first cursor is created, so that a pass runs behind
the floor and a cursor falls behind a pass.
Deadlock checking is off because all these models stop at their bounds: fixes, ticks, requests and faults
run out. Symmetry is used in the safety runs of `TelegramLinking` and `Administration` only, whose
properties do not tell the permuted values apart.

Fairness.

* `AlertIngestion`: weak fairness of `Handler`, because a started task is a promise chain nothing
  suspends, and of `NotifySettings`, the statement after the commit; strong fairness of `Redeliver`,
  because the fleet interval polls for ever and the queue may be busy when a poll arrives. Failures are
  not fair and bounded: a database that fails for ever processes nothing.
* `RecipientDelivery`: the clock advances, `setInterval` keeps firing, a running batch goes on; `Abort` is
  not fair and not bounded.
* `AlertDispatch`: ticks, the running batch, the end of a shutdown and the next start; a retry becomes
  due and a lease ends with time. Retryable answers are bounded, as the code has no last attempt.
* `PopulationRun`: a worker's step, and the end of an expired lease; strong fairness of polling for some
  process, since the lock may be taken at any one poll.
* `HistoryReplay`: a quantum goes on, leases of gone workers end, a quantum starts again and again in every
  process (strong, as the lock is often taken), fences end.
* `HistoryCoverage`: the clock advances, population runs end, a pass goes on; strong fairness of the daily
  pass, of cycles with a slot that prefers the backlog (every other slot by default; the rates of the
  allocator leave starts over), of work that finds the lock free, and of fences ending.

What the passing runs show. Under fixed settings, with fixes in order, the alert pipeline is exactly once:
after any two failures the checkpoint, the events and the receipts are those of a run that never failed,
and the memory rebuilt from a bounded part of the journal is the reference's. Under everything at once the
checkpoint stands at the newest replayed row, confirmations precede the checkpoint that mentions them, a
streak counts consecutive rows of one policy, a receipt stays within its event, rows are completed in
order and events only advance. `ExactlyOnce` is not claimed for late fixes together with failures, nor
`EpisodesDisjoint`, a part of `EventsAreSound`, for late fixes together with a failure and a settings change: there a retry may apply a
row under a different history. Both delivery mechanisms implement the same abstract promise. Population
windows are stored and charged once although the operator's command takes no lock and a worker may have
lost its lease; a completed replay has replayed everything the policy still keeps; a cursor claims only
what is stored although the lock that orders its writers may be gone. `CheckpointIsTrue` and `EventsAreSound` are the names of what is said of the checkpoint and of the events.
The order of two administrators, two editors or a login and a reset never matters for what is left. A replay
generation is completed unless disabled vehicles hold it up, and the trail tells the state as far as its rows go.

### Disagreements found

`MCLateDuringRetry` ends in a violation and is a finding in `PROJECT.json`: under fixed settings, one
failure and a late fix before the retry make the retried update contradict the event
(`alert-events/prisma-alert-events.repository.ts:162`), on every retry. The row stays pending and, because
every later task of the vehicle drains it first, the vehicle's alerts stop. `docs/fleet-alert-ingestion.md:9`
promises recovery by a later cycle.

Reading the code beside the models showed more of the kind, which no run states:

* a late fix after a speeding settings change: the detector no longer equals the stored checkpoint at the
  same frontier and the completing upsert refuses it (`alert-ingestion/alert-observation.repository.ts:194`);
* a confirmation committed, its row failed, the settings changed: the retry presents other evidence than
  the receipt (`alert-events/prisma-alert-events.repository.ts:169`);
* an inactivity settings change clears the ordering of that detector
  (`inactivity-detector/inactivity-detector.service.ts:9`), so a late fix starts a window;
* a restart between a Telegram call and its record leaves a call no attempt counts
  (`alert-notifications/recipient-delivery.repository.ts:89`), while `docs/telegram-per-user-linking.md:103`
  counts attempts; the shared-chat outbox counts before it calls, and has no last attempt;
* eight replay generations that wait for a disabled vehicle keep every worker from the ninth, as no more are
  listed (`position-history-continuous-ingestion/position-history-replay-worker.service.ts:104`), while the
  comment at line 176 of that file says that other generations can still make progress;
* the import of a geofence moves no revision
  (`city-geofence/city-geofence.repository.ts:14`), so a form saved at the same time writes back the geofence its
  transaction read before and reverts the import in silence. `docs/city-geofence.md:33` knows that the import is
  outside the revision, the audit and the notifier.

## 4. Proofs

48 theorems in eight modules, 44 of them listed in `PROJECT.json` and the others steps towards these, for every value of the constants that their assumptions allow: any number of
processes, rows, vehicles, windows, faults, and any lease, age, budget or span. Each module has an
inductive invariant `IInv`, the facts `Init => IInv` and `IInv /\ [Next]_vars => IInv'` with a lemma for each
action or group of actions, and theorems that follow from it. What is proved need not be
checked again: the type invariants of the seven modules beside the alert pipeline, `SentWasDelivered`,
`ClosedIsFinal`, `FinishedIsFinal` and `CoverageAdvances` are theorems only.

* `AlertReplay_proof`, from `IngestionAssumption`: any fixes, policies, failures, restarts and settings
  changes. The argument has five parts. (1) What a transaction on the events may do to them is one
  relation, `Effect`: one event is opened or moves on while it is open, and its receipts follow it. Each of
  `Register`, `Update` and `Resolve` is shown to have it, and it gives `AlertsAgree` and `EventsOnlyAdvance`.
  (2) `TrueOf(state, rows, journal)` says that a detector state is the truth about the rows it counted: it
  stands at the latest, and its streak is those from its start on, each above the limit of one context. A
  sample, an invalidation and an ordering seed keep it (`CountsTrue`, `ForgetsTrue`, `InvalidatedTrue`,
  `BlankTrue`). (3) The invariant follows one state from memory to the checkpoint: `MemoryKnows` says that
  the detector is true of the processed rows, or of those and the row in progress between its evaluation and its
  completion (`Counted`), and that a confirmation it holds is registered or is the one about to be
  written (`Unwritten`); `CheckpointKnows` says the same of the checkpoint without these exceptions, which is what
  `CheckpointIsTrue` needs and what a restart may rely on. `TaskKnows` makes the row in progress the oldest
  pending one, hence `DrainInOrder`. With fixes in order, `InOrderKnows` adds that processed rows lie before
  pending ones and that the alerts tell of nothing after a pending row: so an event is never opened under
  a moving one (`EpisodesDisjoint`), and the samples between the start of a streak and its confirmation are
  exactly the counted ones, so the confirmation is justified under the settings the detector read, although
  they may have changed by the time it is written (`SpeedingJustified`).
  (4) That inactivity is justified (`AlertsJustified`) needs the window: `Track` is the sequence of all fixes up to
  a time, and with fixes in order the detector's history is always an end of it (`Tracks`, `EndOf`), also after it
  was trimmed, after a settings change cleared it, and after a replay of some of the rows. Trimming an end that
  reaches back to the cutoff gives what trimming the whole track gives (`TrimOfEnd`), so the distance the
  detector measured is that of the whole window; `WindowKnows` carries this from memory to the confirmation that
  is written, under the settings the detector read. (5) `ExactlyOnce` and `MemoryIsReference` follow from
  `SeenKnows`, which says that under fixed settings the pipeline stands where the reference stands:
  `SeenSound` the checkpoint, `SeenMemory` the detectors and what the task holds of their results,
  `SeenAlerts` the events, which may be ahead of the reference by the writes of the next row only. It needs three
  lemmas on the code: the rows of one window and the anchor before them rebuild the inactivity state that all rows
  build (`Near`: the replay has the same history, or a shorter one that will be trimmed to the same); a write
  repeated after its answer was lost finds itself done and changes nothing (`Repeats`); and the reference, which
  drops a row the rules refuse, never refuses one (`SoundAt`). The two theorems carry the hypothesis
  `FailuresOrLateFixes`: where the settings are fixed, an environment brings failures or late fixes, not both. It
  is about which environments the promise is made for, not about the code, and cannot be dropped: in the
  environment of `MCLateDuringRetry` `ExactlyOnce` does not hold, as an older fix that comes
  before the retry changes what the reference makes of the row whose event is already written.
* `RecipientDelivery_proof`, from `DeliveryAssumption`. What makes `SentWasDelivered` true is in the
  dispatcher's hands while it holds the row, so `IInv` adds to the types what rows (`RowJustified`) and
  holders (`HolderJustified`) know, and that no two dispatchers remember one token (`TokensDiffer`). The
  refinement maps planning to `PlanSome`, an accepted call to `Arrive`, expiry and settling to `CloseSome`.
* `AlertDispatch_proof`. `HandsTell` says what a batch has in its hands was claimed under an attempt that is
  not ahead of the row, and accepted when it is about to be marked; `AttemptsDiffer` that no two batches
  hold one attempt. `CallsAreCounted` and `RepeatsAreExplained` count the calls made together with those
  about to be made. The refinement is that of the deliveries.
* `TelegramLinking_proof`. `MakersHold` ties the advisory lock to the tokens its holder is about to revoke,
  `AccountsDiffer` is the unique key, broken connections included, which is stronger than the property and
  inductive, `HandlersWork` gives a message to one handler at a time, `NamesPast` keeps old names behind the
  current revision.
* `PopulationRun_proof`. `Passed` says that what a worker has left behind in its loops is complete for the
  vehicles it is to store; `Earned` that the charge of a run grows with the chunk its own worker has spent, as long as the run is still its
  own by token; `Accounts` that only one run is active. A worker that lost its run knows nothing of it
  and writes nothing to it. `LedgerKept` maps creation, a stored window, and the end of a run to `WindowLedger`.
* `HistoryReplay_proof`, from `ReplayAssumption`. `RowsSound` keeps a checkpoint in its slice and creates all
  of a vehicle's together, `RunsSound` says a lease belongs to a running run and a completed generation has no
  work left, `WorkersSound` that what a quantum read stays true: its checkpoint is of its generation, the
  instant it works from lies in the slice, the window it stores ends within it, and a prefix it retires was
  behind a floor that only rises. The compare-and-set makes this enough: a worker
  that lost its lease, its lock or its run writes at the watermark it read or not at all, which is
  `NothingSkipped` and `OnlyForward`; the fences and narrower windows only need their types.
* `HistoryCoverage_proof`. The floor of the policy is shown monotone in the clock (`FloorMonotone`, which
  needs the remainder by the week); `PassKeeps` says the cutoff of a pass is behind the floor and in front
  of it, after it has reconciled, every cursor begins; `Reading` that a request begins within what its
  cursor claimed and ends beyond it; with the compare-and-set this is all the coverage needs, and the lock
  appears nowhere. The plan of a cycle is sorted and what a sort returns is not proved: workers' plans may
  be anything in `WorkersTyped`.
* `Administration_proof`, from `AdministrationAssumption`. `LockHeld` and `RemovalsAllowed` give `SomeAdmin`: who
  counts administrators holds the lock until it has written. `Knows` says what a request may rely on of what it
  read; of the settings it is `Older`: at the same revision only the geofence may be another, and not even that when
  nothing was imported since, which is `NothingUnseenOverwritten`. `AuditTells` has an invariant of its own, `AInv`,
  on top of the first: `Remembers` says that what a request read of its account before its write is still so because
  it holds the lock, but for the grants a deleted group took away, and that the trail leads to what it read as well
  as to what is there now. A step of a request either deletes a group, and then leads on because `Follows` allows
  fewer grants across a deletion (`FollowsOn`), or what it appends is what it changes (`Records`), and then every
  trail leads on, that of its account by its rows and the others undisturbed (`RecordsTell`, `TellsOn`).

Recursion. `Reference`, `Primed`, `Track` and `TravelledReaches` are recursive functions, and the library's
induction theorems cannot be instantiated here. What is proved about a run over times is proved through a set:
the times at which the fact holds contain 0 and with each time the next, so they are all (`Climb`). It rests on the
least element of the times outside the set and gives, for a run, that it agrees with another over the same rows,
that a row appended is one more step (`ReferenceAppends`), and that it keeps an invariant. `TravelledReaches` is
never expanded: the proofs only need that equal windows travel equal distances.

Out of the prover's reach and model-checked only: liveness under fairness (`EveryRowProcessed`,
`EveryDeliveryCloses`, `EveryNotificationCloses`, `EveryRunEnds`, `EveryGenerationCompletes`,
`EveryVehicleCatchesUp`, `ObsoleteGoes`). Every invariant and action property a run checks is stated by a theorem.
What is not proved of the operators is what they compute: that `TravelledReaches` sums a distance, and that the
plan of a cycle in `HistoryCoverage` is sorted.

## 5. Not modelled

* Web application, provider client, operations and migrations: no state of the system is decided there. They
  are more than half of the code. Of the scripts, what they write is part of the modules whose rows these are (the
  backfill command in `PopulationRun`, the import of a geofence and the creation of an account in
  `Administration`); their options and reports are left out.
* Reports, dashboards, trips and stops, tracks: pure reads. Coverage, horizon and status of the history:
  read models around the runs; the floor of the policy and the partition of a horizon are operators of the
  modules that use them.
* Sync scheduler: overlap guards and shutdown of in-process timers; what they start is modelled where it
  changes durable state. Its sibling of the outbox is part of `AlertDispatch`.
* Workload coordinator and capacity allocator: their division of the opportunities enters `HistoryCoverage`
  as `Preferences` and both history modules as fairness. The allocator bounds the credit of one pause and not
  the sum of them: while cycles take a minute and no replay is due, the recent positions fall fifteen starts
  further behind each (`position-history-continuous-ingestion/position-history-capacity-planning.ts:33`), and a
  replay that becomes due afterwards waits until these are served.
* City geofence: the polygon arithmetic; a zone is a set of positions. Haversine distance likewise.
* Notification preferences, whose form may be loaded while a selection is dormant and saved when it is
  effective again (`telegram-linking/telegram-linking.service.ts:58`). The members of vehicle groups, their
  creation and the scope they resolve to: the revocation of an access is an event of `RecipientDelivery`.
* Login limiter and the expiry of sessions. Readers of the audit. The limiter evicts entries at its
  capacity, blocked ones among them (`auth/login-rate-limiter.ts:78`); it keeps no durable state.
