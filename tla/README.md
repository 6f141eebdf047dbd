# gps-tracker-api: specifications and proofs

TLA+ models of the school-transport tracking API in `src/`: nine components and
two abstract specifications, checked with TLC on small instances and, for all of
the components, proved with TLAPS for every instance. Paths below are relative to
`src/src/` unless they start with `docs/`, `test/` or `README.md`, which are relative
to `src/`.

    tlc -workers 2 -config MCPayments.cfg MCPayments.tla
    tlapm Payments_proofs.tla

Sections: 1 the system, 2 the modules and how they correspond to the code, 3 the
runs, bounds, fairness and findings, 4 the proofs, 5 what is not modelled, 6 what is
done and what is left.

## 1. The system

One NestJS process (docs/REFACTOR_REVIEW.md:62, one replica) on one PostgreSQL
database. Its operations are asynchronous functions of one event loop: between
two `await`s nothing else runs, at an `await` anything may. All shared state that
matters is in the database; multi-statement operations run in
`DatabaseService.transaction`, which is SERIALIZABLE and repeats the callback up
to three times after SQLSTATE 40001 or 40P01 (`database/database.service.ts:112`).

| Component | State it keeps | Operations | Works with |
|---|---|---|---|
| GT06 gateway (`gt06/`) | per socket: buffer, `processing`, `closed`, `imei`, `pendingLocation`, `publishing` | data, drain, login, heartbeat, position, close | locations, realtime |
| GT06 codec (`gt06/gt06.codec.ts`) | none | frame search, CRC, parsing | gateway |
| Latest locations (`locations/`) | table `devices` | `touch`, `savePosition`, queries, evaluation hooks | history, geofence, database |
| History ingestion (`history/history.ingestion.ts`, `history.repository.ts`) | table `gps_history` | classify, insert once | locations |
| History queries (`history/history.service.ts`, `history.math.ts`) | none (cursor in the client) | pages over a snapshot, route, summary | repository |
| Payments (`payments/`) | `bills`, `payment_submissions`, `guardian_credit_*`, `payment_accounts`, its history | generate bills, submit, pay with credit, correct evidence, review | transport, management, notifications |
| Transport (`transport/`) | `service_requests`, `subscriptions`, `stop_requests`, complaints, call notes, the schedule rules | request, review, stop, review a stop | payments' tables, notifications |
| Management (`management/`) | `student_profiles`, `route_schedules`, `drivers`, `maintenance`, `ledger`, `settings`, attendance, notices, banners | save a student, archive, restore, stop a service, shifts and schedules, drivers, maintenance, record keeping | the tables of transport, payments and vehicles |
| Notifications (`notifications/`) | `notifications`, `telegram_deliveries`, the running pass | create, claim, mark, retry | Telegram client |
| Telegram (`telegram/`) | `telegram_connections`, `telegram_link_tokens`, `telegram_webhook_updates`, polling offset | issue a link, poll, handle an update, disconnect, deliver | notifications, Bot API |
| Geofence (`geofence/`) | `geofence_trips`, `geofence_trip_states` | evaluate a saved fix, transition, notify | locations (hook), notifications |
| Admin recovery (`auth/recovery/`) | `admin_recovery_*`, mail outbox | request an OTP, confirm, deliver mail, clean up | auth, SMTP |
| Accounts and sessions (`auth/`) | `users`, `sessions`, login attempts | register, login, throttle, authenticate, logout | everything |
| Realtime (`realtime/`) | Socket.IO rooms | authorise viewers, publish | gateway, access service |
| Data transfer (`data-transfer/`) | the map of previews in memory | preview, confirm, export | tables of vehicles, drivers, routes, stops |
| Backup (`backup/`) | the running backup | run, retain | pg_dump, Drive, mail |
| Vehicles (`vehicles/`) | `vehicles` | save, with the driver shown; remove | drivers, maintenance |
| Health, configuration | none | probe, wiring | |

### What is hard in it, and what makes it correct

*Ingestion.* Two sockets can speak for one tracker (a device that reconnected
before its old socket died). Handlers of both interleave at every `await`, each
transaction sees a snapshot taken before it waited for the tracker's advisory
lock, COMMIT answers get lost, the process dies, devices retransmit. Correct
means: what the tracker was told is stored is stored; a newer fix is never lost;
viewers and the geofence see only committed positions, in order; every handler
ends.

*Money.* Guardians submit, correct and pay while admins review, change fares,
generate bills (possibly of past months), stop services and archive students.
Correct means: every poisha is accounted for, a bill is paid by one approved
submission, a submission under review stays decidable, a transfer is used once,
a bill charges the fare of its month or the agreed final fee, decisions stand.

*Deliveries.* A message leaves the system through an HTTP request that may time
out after it was accepted, from a worker that may die between the request and the
mark in the table, to a chat the guardian may leave meanwhile. Correct means:
duplicates and attempts are bounded by the failures that happened, the status is
true, every delivery settles.

*Links.* A guardian opens a one-time link in a chat, perhaps twice, perhaps in
someone else's chat, while a newer link replaces it or a disconnect deletes it; the
poller that works through the updates loses answers and its offset. Correct means:
a chat gets a guardian's notifications only after it presented that guardian's
token, a token connects once, no update is forgotten.

*Pickup alerts.* Evaluations of successive fixes overlap, each in a detached
promise; the decision and the notifications are separate transactions. Correct
means: one alert per student and pickup point of a trip (an admin may move a student
to another stop while the bus is on its way), no transition lost between overlapping
evaluations, no alert lost but by a failure.

*Recovery.* An administrator asks for one-time codes, guesses, uses one and has the
old password replaced, while a login derives its key from the old one, a worker mails
the codes and the notice from an outbox with leases, and a cleanup deletes what has
expired. Correct means: nobody stays signed in under the password that was replaced,
only the newest code works, codes do not stay in the database once they are useless,
the notice of no recovery is dropped, and the quotas count codes that were
already used up or deleted.

*Enrollment.* Guardians request shifts that admins approve, while other admins enter
enrollments of the same student directly, rename it, move it to another shift, stop
and archive it, and reconfigure the shifts. Correct means: a student has one claim on
a shift, an archived one none, a pending request can be approved, and the copies of
a name agree.

*Fleet.* The driver of a vehicle is kept twice, once on each side, and the status of a
vehicle follows its maintenance jobs; imports write the same tables with statements
of their own, from previews held in memory. Correct means: the two sides agree, saving a job leaves
the vehicles it concerns in maintenance exactly if a job is in progress there (an
administrator or an import may set any status in between), a preview is written once.

*Reading a growing history.* Pages and routes are several statements over a table to
which devices keep adding, also reports of long ago. Correct means: the answer is that
of one snapshot, complete and without repeats, and a reduced route keeps its ends.

## 2. Modules

| Module | Role |
|---|---|
| `TrackerLog` | abstract: a log of reports, the latest fix per tracker, confirmations |
| `DeviceIngestion` | gateway, location writes, history insert, the transaction around them |
| `Payments` | bills, submissions, advance balance, ends of services |
| `ChatLinks` | abstract: which chat belongs to which guardian |
| `TelegramLink` | link tokens, the poll loop, updates, disconnect; implements `ChatLinks` |
| `NotificationDelivery` | the Telegram delivery queue and the request it makes; built on `ChatLinks` |
| `GeofenceAlerts` | evaluation of committed fixes against the stops of a bus, and the alerts |
| `AdminRecovery` | one-time codes, password change, logins and sessions, mail outbox |
| `Enrollment` | requests, services, shifts, schedules and the archive of students |
| `Fleet` | vehicles, drivers, maintenance, and the imports into them |
| `HistoryQueries` | pages and routes read while reports are inserted |
| `MC...` | the instances for TLC, one module per component |
| `..._proofs` | the theorems about a component and their proofs; those about `HistoryQueries` are in `DeviceIngestion_proofs`, since that component writes the history |

Definitions named `...Unchecked`, `...Stale` and the like, each commented as a
mutation, are wrong variants of the definition after them; no behaviour uses them.
They document which bug each property would find.

### DeviceIngestion and the code

| State | Code |
|---|---|
| `sock`, `closed`, `imei`, `buffer`, `pending` | the socket and the fields of `Gt06Connection` (21-42) |
| `job` | the packet whose handler is at an `await`; `processing` is `job # NoJob` or a non-empty buffer |
| `inflight` | `publishing`: the location inside `realtime.publishLocation` |
| `tx` | the database transaction of the handler: waiting for the advisory lock, holding it, ended; `stale` says the row changed after the snapshot |
| `devices`, `history` | the tables; a row of `history` keeps its first quality |
| `evaluating` | detached promises of `emitPositionEvaluation` |
| `acked` | what `socket.write` told trackers (history variable) |

Actions: `HandleData`/`BufferData`/`Overflow` are `handleData`; `HandleData` and
`Drain` run `handleFrame` to its first `await`; `TxLock`, `TxCommit`,
`TxCommitUnknown`, `TxRetry`, `TxFail` are the transaction (`Apply` is everything
`touch`/`savePosition` write, in one step, because nothing is visible before
COMMIT); `Finish` is the rest of the handler with hook, publication and ACK;
`HandleFailure` is `drain`'s catch and finally; `PublishEnds` one turn of
`publishPending`; `Crash` a restart of the process.

Abstractions: a chunk of bytes is one complete packet (the search for its frame is
not modelled); contact time and modem status are left out of `devices`; the global
history lock 74523002, which exists for the pages, is in `HistoryQueries`;
waiting for a pool connection is merged with BEGIN; the receive time is any value
in `0..MaxClock`, since it comes from a wall clock; between `Finish` and `Drain`
the model lets other steps happen where the code runs one microtask chain, which
only adds behaviours. A report whose GPS time cannot be parsed behaves as one
whose time is never usable.

### Payments and the code

One action per service method; each is one SERIALIZABLE transaction, so one step.
`balance`, `entries`, `submissions`, `bills`, `recipients` are the tables of the
same names; `subs` keeps status, months, fare and final fee of `subscriptions`;
`stopRequests` the pending ones; `archived` the profiles with `archivedAt`. Dates
are months: the stop date must lie in the current month
(`transport.service.ts:494`, `management.service.ts:393`). `inForce` is a history
variable that records which fares a subscription had in each month. `txn = None`
is a submission whose evidence is a picture. `MaxBalance` stands for the INTEGER
width of the column: a change that would leave `0..MaxBalance` fails its
transaction. Archiving neither changes an issued bill nor asks for pending
payments; a subscription may be created already STOPPED (`saveStudent`). The
check for pending enrollment requests in `archiveStudent` is in `Enrollment`, and
notifications inside these transactions are rows of the
same commit.

### NotificationDelivery and the code

`deliveries` is `telegram_deliveries` with `nextAttemptAt` as `due` and the
30-second lease of a claim as `leased`; `worker` is the running `deliveryPass`
(`left` of its batch, `tries` of `requestTelegram`); `linked` is the connected
chat per guardian. `CheckRecipient` is the lookup in `deliver`, the `Request*`
actions are the answers an attempt can have (accepted, accepted with the answer
lost, not sent, refused), `Mark*` the statements after it. A single worker is
modelled, as the documentation demands one replica. `reached`, `lost`,
`abandoned` and `worker.moved` are history variables. The rows are claimed in any
order (the code takes the oldest). The integration is taken as enabled.

`AcceptsSurplus` says whether the database accepts a statement that is given more
values than it has parameters. The claim's UPDATE is such a statement
(`notifications.service.ts:229-237`). PostgreSQL refuses; the stub in
`test/telegram-delivery.test.ts` accepts. Run `delivery` takes it as accepted, to
check the queue as designed and tested; run `delivery_never_claimed` takes it as
refused.

### TelegramLink and the code

`linked`, `tokens`, `updates` are `telegram_connections` (the CONNECTED rows),
`telegram_link_tokens` (`live` is `expiresAt` in the future) and
`telegram_webhook_updates`. `inbox` is what Telegram keeps: its positions are the
update IDs, and it forgets those below `confirmed`. `poller` is `poll` with its
`offset` and the update inside `handleUpdate`; `leaving` are the requests between
the two statements of `disconnect`. `handleUpdate` is one step per statement:
`InsertUpdate` (and `InsertUnknown`, committed with the answer lost),
`LookupToken`, the transaction (`Connect`, `ConnectUnknown`, `ConnectRefused`,
`ConnectFails`), `MarkUpdate`. `PollFails` is any other failing request or
statement, all of which end in `poll`'s catch. A text that starts no connection is
the token `None`; messages without text or from groups are the same for every
property. Replies to the chat are left out. `NotificationDelivery` takes its `Link`
and `Unlink` from `ChatLinks`, which `TelegramLink` is shown to implement by the
identity mapping of `linked`.

### GeofenceAlerts and the code

`states` is `geofence_trip_states` (`inside` is the column `state`, `entries` is
`entryCount`; a missing row is an outside one without entries), one entry per
pickup point of one trip, i.e. of one shift on one day, with which stops share
nothing. `evals` are the detached promises of `emitPositionEvaluation`: `Evaluate`
starts one for a fix that `DeviceIngestion` has shown to be committed
(`EvaluatesCommitted`) and reads its riders; `TxRead`, `TxCommit`,
`TxCommitUnknown`, `TxRetry` are the transaction of `evaluateStop`; `Notify` and
`NotifyFails` the loop over `notifications.create`. A transaction whose row changed
since its snapshot (`stale`) cannot commit: two writers of one row conflict under
SERIALIZABLE whether `FOR UPDATE` found a row to lock or `ON CONFLICT` met a new
one. Conflicts may also happen without a cause, as the database allows itself.
`Zone` stands for the haversine distance compared with the two radii. The riders of an
evaluation are `Assignments`, the rows of its query: any students, each with one stop,
chosen anew by every `Evaluate`, because subscriptions, settings and pickup points may
change at any time. In particular `saveStudent` may give an active student another stop
during the trip (`management/management.service.ts:694`); the evaluations already under way
go on with the stop they read (`geofence/geofence.coordinator.ts:88`). Hence alerts are
counted per student and stop: the row of the new stop has no entries yet, and a student
alerted at the old stop is alerted at the new one too. `alerts` counts rows of
`notifications`; their deliveries are `NotificationDelivery`'s `Create`. `passed`,
`due`, `cut` are history variables. The integration is taken as enabled.

### AdminRecovery and the code

`challenge`, `created`, `attempts` are `admin_recovery_challenges` (`used` is a row
with `usedAt`, `deleted` one the cleanup removed); `recovered` is a history variable, the
challenges that set the password; `payload`, `born`, `tries`, `held`
are the outbox with its encrypted text, `createdAt`, tries and lease; `hash` names the
password by the challenge that set it; `login` is the hash a login has read while its
key derivation runs. `Request`, `Confirm` (`WrongCode`, `Recover`), `BeginLogin`,
`IssueSession` and `EndSession` are the requests, each one SERIALIZABLE transaction;
`CleanUp`, `Claim` and `WorkerStep` are the pass of the mail worker: claim under a
lease, SMTP, mark. `Release` is a lease or a waiting time that ends, `Restart` a
process that dies with mails held. Requests over the limit of an address are as good
as not made; expired sessions are honoured by nobody. One worker is modelled, as the
documentation demands one replica.

### Enrollment and the code

`requests`, `services`, `name`, `archived`, `configured`, `schedule` are
`service_requests`, `subscriptions`, the profiles, their `archivedAt`, the shifts in
the settings and `route_schedules`. `Request`, `Approve`, `Reject` are
`TransportService`'s; `Enroll` and `Update` are the two halves of `saveStudent`; `Stop`
is a stop by either way; `Archive`, `Restore`, `Configure` and `SetSchedule` are
`ManagementService`'s. Each is one SERIALIZABLE transaction and so one step, `Update`
with the renaming of every request and service of the student. A student is recognised
by name up to case and outer spaces, which is what a name is here. Only the existence
of a bill matters here; `Payments` has the money. Days, stops, fares and addresses are
left out.

### Fleet and the code

`vehicle` keeps the driver shown and the status, `driver` the name and the assigned
vehicle, `job` and `expense` the maintenance and its ledger row. `SaveVehicle` and
`SaveVehicleAndDriver` are `VehiclesService` with and without a driver's name;
`SaveDriver` and `SaveMaintenance` are `ManagementService`'s. An import is
`BeginPreview` (the file is decoded), `FinishPreview` (it enters the map, if there is
room), `ExpirePreview`, `BeginConfirm` (it leaves the map), `ApplyImport` or
`FailImport` (the transaction) and `Restart` (the map is gone). `touched` is a history
variable: the vehicles an import wrote since an administrator last saved their
driver. A file is one row, of vehicles or of drivers; a file of several rows is
several such steps in one transaction.

### HistoryQueries and the code

`rows` are the committed fixes of one device, `adding` the open inserts, `lastId` the
sequence of IDs. `Insert` and `Commit` hold the global lock 74523002 in between, which
is what makes the IDs commit in order. `OpenPages`/`ReadPage` are `points` with a
cursor, `OpenRoute`, `CountRoute` and `ReadBatch` are `route`: snapshot, count and
stride, the stream in batches with the split into segments, the sampling to the
budget. Places lie on a line, in metres, since only the distance of neighbours
counts.

## 3. Runs

| Run | What it shows | Bounds |
|---|---|---|
| `ingestion` | `PersistedBeforeAck`, `LatestCoversHistory`, `EvaluatesCommitted`, `ViewersInOrder`; refinement of `TrackerLog` | 2 sockets of 1 tracker, 2 fixes (the later one unusable at clock 0), 4 packets, 1 retry, buffer of 1 |
| `ingestion_progress` | `HandlersEnd` under fairness | 2 sockets, 2 identities of which 1 is allowed, 2 poor reports, 3 packets |
| `payments` | `TypeOK` (the balance column), `MoneyConserved`, `PaidOnce`, `PendingCovers`, `TransfersUsedOnce`, `ChargesKeepTheirFare`, `FinalFeeStands`, `DecisionsAreFinal` | 1 subscription, 2 months, 3 submissions (symmetric), fares and transfers 1 and 2, fees 0 and 1, balance 0..2 |
| `delivery` | `DuplicatesExplained`, `StatusTellsTruth`, `ObsoleteChatOnlyByRace`; `EveryDeliverySettles` under fairness | 2 notifications, 2 chats, 2 failures, 2 attempts of 2 tries |
| `delivery_never_claimed` | expected violation, see findings | 1 notification |
| `links` | `LinkedByConsent`, `TokensLinkOnce`, `RevokedNeverLink`; `EveryUpdateRecorded` under fairness; refinement of `ChatLinks` | 2 guardians, 2 chats, 2 tokens, 2 messages, 1 failure |
| `update_lost` | expected violation, see findings | as `links` |
| `pickup_alerts` | `AlertedOnce`, `StateFollowsFixes`, `LostAlertsExplained` | 3 fixes (symmetric), 2 stops, 2 students (symmetric) at either or none in each evaluation, 2 places, 1 retry, 1 failure |
| `recovery` | `SessionsFollowPassword`, `CodesErased`, `RequestsBounded`, `NoticeNotDropped`, `OnlyNewestRecovers` | 3 codes, 1 login at a time, clock 0..4, cooldown 1, quota 2 in 3, lifetime 2 and retention 1 of a code, 2 of a notice, 1 attempt, 2 tries |
| `enrollment` | `OneClaimPerShift`, `ArchivedIsIdle`, `PendingStaysApprovable`, `NamesAgree` | 2 students, 2 names, 2 shifts, 1 route, 3 requests (symmetric) |
| `fleet` | `DriftOnlyByImport`, `ImportedOnce`, `StatusFollowsJobs` | 2 vehicles, 2 drivers, 2 jobs, 1 name, 1 cost, 2 previews of which 1 fits the map, 2 confirmations |
| `history` | `PagesMatchSnapshot`, `RouteKeepsEnds` | up to 6 stored fixes, near or apart, and more up to ID 8 by 2 writers; pages of 2, batches of 3, budgets 2, 4, 5 |

Why these bounds. The hazards of ingestion need two sessions of one tracker, a
report that is newer and one that is older, a report whose classification changes,
one retry and one packet waiting in the buffer; four packets are two logins and two
reports, or one session's login, two reports and a repeat. Money needs a second month
(late bills, fares that changed), a rejected and a resubmitted payment beside an
advance, and amounts on both sides of the fare; a second subscription shares nothing
with the first but the balance. Deliveries need an attempt more than one failure can
use up, two failures on one message, and two messages in the queue. Links need two
guardians who want one chat, a token replaced by a second one, one link opened twice,
and a failure anywhere. Alerts need a bus that enters, leaves and enters again
(3 fixes), two evaluations in one transaction each, two students at one stop, and a
second stop a student can be moved to between fixes; of the two places one stop sees
near and far (enter, leave, enter again), the other near and between (no exit). Two
failures, and a third place that is far from one stop and between at the other, were run
one at a time and agreed. Recovery needs
a code replaced by another and a third request that meets the quota, after codes were
used up and the first was deleted: the spans are the smallest in the order of the
code's (cooldown below hour, hour within lifetime and retention). Enrollment needs two
students who might claim one name and a student with an open request, a service and
one more claim. The fleet needs two vehicles and two drivers to swap, two jobs on one
vehicle, and two confirmations of one preview. A history needs three pages, three
batches of which the last is not full, a break in the line, and late reports between
any two statements; larger instances than the one kept were run and agreed.

`MaxPackets`, `MaxClock`, `MaxMonth`, `MaxUpdates`, `MaxFaults`,
`MaxRequests`, `MaxTime`, `MaxId` and the finite sets of identities cap what is
unbounded. Deadlock is checked except in `pickup_alerts` (the trip is over after
the given fixes), `recovery` (time ends at `MaxTime`) and `history` (no IDs are left
after `MaxId`); no other bound stops a model completely.

Fairness: `Handler`, `Transaction` and `PublishEnds` of each connection are weakly
fair, because the event loop runs every continuation and the pool ends every
statement (`statement_timeout` 15 s, `query_timeout` 20 s); `Pass` is weakly fair
because its timer fires every 5 s and requests time out after 10 s; due times and
leases pass; `Poll` is weakly fair because its requests time out and its pauses are
at most 30 s. Failures are finitely many in the liveness runs: with a process that
dies for ever nothing is delivered. `AdminRecovery`, `Enrollment`, `Fleet` and
`HistoryQueries` state safety only: their clients may stop at any time, and the mail
worker promises nothing but its tries.

### Findings

With a run that shows it:

* **No Telegram delivery is ever claimed.** `notifications/notifications.service.ts:229-237`
  passes three values to a statement with two parameters; PostgreSQL rejects it,
  the claim rolls back in every pass. `test/telegram-delivery.test.ts:57` asserts a
  delivery against a stub that ignores values.
* **An update recorded by a run that died is never processed.** `handleUpdate`
  inserts the row first and treats an existing row as handled
  (`telegram/telegram.service.ts:150`); after a crash or a failed statement the
  refetched update is skipped and confirmed. The comment at 139 says each update is
  processed "exactly once"; the model shows at most once.

Met while modelling, described by a guard or a history variable of the models
instead of a run of their own:

* **A report before the login is acknowledged and dropped.** `handlePositionReport`
  returns at `gt06/gt06.connection.ts:175`, `handleFrame` acknowledges at 135;
  README.md:323 says "GPS reports are persisted before acknowledgements are sent".
  For reports of a session that has logged in the sentence is proved
  (`PersistenceBeforeAck`).
* **The latest fix can lack a valid history row.** A report classified
  `invalid-time` (its clock is ahead) keeps that row for ever
  (`history/history.repository.ts:24`), but a retransmission is classified anew
  for the latest fix; the comment at `locations/locations.service.ts:71` has both
  "commit atomically". `LatestCoversHistory` speaks of the rows there are.
* **A decided alert can be lost for the whole trip.** The coordinator commits the
  state with `entryCount` 1 and creates the notifications afterwards
  (`geofence/geofence.coordinator.ts:222`); the comment at
  `geofence/geofence.service.ts:20` demands both atomically. `LostAlertsExplained`
  says that only a failure in between, which `cut` records, does this.
* **A student moved during the trip can be alerted twice,** at the old stop and at the
  new one: the row that remembers an alert belongs to the pickup point
  (`geofence/geofence.coordinator.ts:149`), not to the student. Nothing in the repository
  promises otherwise (test/geofence.test.ts:152 speaks of one stop), so `AlertedOnce` is
  stated per student and stop.
* **An import takes vehicles and drivers apart.** docs/MANAGEMENT_API.md:83 says the
  driver fields are kept in sync; the statements of an import
  (`data-transfer/data-transfer.service.ts:178`) write one side. `DriftOnlyByImport`
  says that nothing else does, and `touched` says where.
* **A change of the operating days can make a pending request impossible to
  approve,** since a review checks the days of the request again. Days are not
  modelled; `PendingStaysApprovable` shows that the shifts, which are protected while
  in use, do not have this problem.

## 4. Proofs

All from the named assumptions on the constants (`ConstantsOK`, or the
`...Assumption`s of a module); none is about the data of the environment except
`RetentionAssumption`, below. `NoneAssumption` says that NULL is not a row.

`DeviceIngestion_proofs`, for any number of connections, trackers, reports, packets,
retries and any buffer size:

| Theorem | Statement |
|---|---|
| `TypeCorrect` | `Spec => []TypeOK` |
| `PersistenceBeforeAck` | `Spec => []PersistedBeforeAck` |
| `LatestFixCoversHistory` | `Spec => []LatestCoversHistory` |
| `EvaluationsCommitted` | `Spec => []EvaluatesCommitted` |
| `ViewersSeeOrder` | `Spec => []ViewersInOrder` |
| `Refinement` | `Spec => ImplementsTrackerLog` |
| `PagesAreTheSnapshot` | `QueriesSpec => []PagesMatchSnapshot` (of `HistoryQueries`) |
| `RoutesKeepTheirEnds` | `QueriesSpec => []RouteKeepsEnds` (of `HistoryQueries`) |

`TypeInv` adds to `TypeOK` that a handler at an `await` for a session has a name
(`SessionsNamed`), without which `devices[imei[c]]` has no type. `Safe` is the
conjunction of the four invariants and three more that make it inductive.
`SnapshotsFresh`: a transaction whose row was not changed since its snapshot still
has the value of the table in `tx.fix`, so a commit decides on the current row; this
is where snapshot isolation and the advisory lock meet. `CommittedWork`: a transaction
that is done has its report in the history and its fix not ahead of the table, which
carries the truth from COMMIT to the ACK and the hook. `ViewsCommitted`: waiting and
published locations are not ahead of the table. `Apply` is treated once (`ApplyLog`,
`ApplySafe`) for `TxCommit` and `TxCommitUnknown`; every other action has its own step.

`PagesAreTheSnapshot` holds for any table, number of writers, page and batch size. Its
definitions have names of their own (`QueriesSpec`, `QueriesNext`), so that one module
can extend both components. The argument has three parts. Rows are totally ordered, so
that counting the rows before one gives each position once (`EarlierOnto`,
`OrderedRows`): the row numbers are 1 to n, and what lies after row k is the rest of the
sequence (`LaterRows`). Hence a statement that continues from the cursor reads the rows
that come next (`NextRows`). That those rows are still the same is `Unseen`: at most one
transaction has an ID that is not committed, all committed IDs are below it, and so is
every snapshot. Without the lock around the sequence two transactions could commit in the
other order and a row would appear inside a snapshot already read. `QueryInv` says that
the pages are the first k rows of the snapshot and the cursor is row k. It needs
`TablesAssumption`: the stored rows are finitely many, with distinct IDs the sequence has
given out. A route shares the queries' state, so `BatchQueries` shows that a whole batch,
a fold over its points, leaves the stage and the snapshot alone (`TakesKeep`).

`RoutesKeepTheirEnds` holds for any gap, speed, budget of two points or more and batch
size; its invariant `RouteInv` is kept next to `QueriesInv`. Two loops make a route, one
over the points and one over the segments, both folds in the model. The folds of the
community modules are recursive functions on finite sets; `FoldSteps` derives what one
more element does, and where a claim has to climb from 0 to n, `StepsUpto` takes it there
over the numbers.

* While the stream is read, `RouteTo(route, W, k)` says that the first k rows `W` of the
  snapshot are taken. `Split` is the heart of it: segment j begins at row `cut[j]`, the
  values of `cut` are exactly the rows where one begins (`Starts`), and each segment is a
  `Line`, an ordered choice of rows from `cut[j]` on. Every segment but the last ends at
  the row before the next cut; the last has come to some row b, which the stride may have
  left behind k. `TakeRoute` takes one point: at a gap `keepPrevious` first brings the open
  segment to row k (`SplitKept`) and only then a new one begins (`SplitBegins`). Without
  it the segment would end early, which is the bug of the mutant. `BatchRoute` does this
  for a batch, so where the stream is cut makes no difference.
* At the end of the stream `Sampled` reduces the segments. The indices of a thinned
  segment increase strictly (`Strides`, from the division), so it is still a `Line` with
  the same ends (`LineThinned`). Its share is at most its interior and at most the budget
  that is left, so along the fold the points chosen and the budget left add up to the
  budget and the ends; at the end they are within it.
* `Connected` joins the segments to one line over the whole snapshot, and `Borders` shows
  that cuts and stops are exactly its `Ends`.
* A refusal is justified by counting. Rows differ, so the ends are as many as their
  positions (`EndsCounted`); segments begin at different ends (`SegmentsCounted`), and a
  segment must show no more points than the ends it has (`MandatoryCounted`). Hence if the
  segments, or their ends, are more than the budget, so are the ends of the snapshot.

`Payments_proofs`, for any number of guardians, services, months and submissions and
any fares, fees and amounts:

| Theorem | Statement |
|---|---|
| `TypeCorrect` | `Spec => []TypeOK` |
| `MoneyIsConserved` | `Spec => []MoneyConserved` |
| `PendingStaysPayable` | `Spec => []PendingCovers` |
| `PaidOnlyOnce` | `Spec => []PaidOnce` |
| `TransfersOnce` | `Spec => []TransfersUsedOnce` |
| `FaresKept` | `Spec => []ChargesKeepTheirFare` |
| `FeesStand` | `Spec => []FinalFeeStands` |
| `DecisionsFinal` | `Spec => DecisionsAreFinal` |

`Inv` has two halves. `ServiceInv` speaks of one service at a time. `FareKept` is what
makes late bills right: a month that is not billed yet still has the present fare
among the fares it had, which `EditFare` keeps by refusing while an earlier month is
unbilled. `Known` says that bills belong to months up to the present, so that nothing
is billed beyond the stop when a service ends, and that only a stopped service has a
waived bill, so that a settlement cannot revive one. `EndedService` treats the three
ways to end a service at once. `PaymentInv` relates bills and submissions; it needs
nothing of `ServiceInv` but the types. The two meet in `BillsRevised` (a step on
services leaves paid bills and bills under review alone, and pays none) and
`BillsPaid` (a payment turns an unpaid bill into a paid one of the same amount). Each
step lemma also shows what `DecisionsAreFinal` says of its step.

`MoneyIsConserved` is about sums over sets of bills and submissions, which are folds of
the community modules. That the recursion of a fold has a solution, and that a sum takes
its elements in any order, is proved by induction over the subsets of a finite set,
stated without an operator parameter (`SubsetSteps`, from the well-founded order on
finite subsets). `SumChanges` then says what a sum gains when elements enter, leave or
change. It needs finitely many services and submissions (`FiniteAssumption`), as in any
table. A step changes an account by a bill that gets paid (`BillCounts`), a submission
that waits or is decided (`SubmissionCounts`) and the advance (`CreditCounts`);
`NextConserves` adds these up action by action. A step that writes none of them keeps
the account because `PaidOnce` ties what is paid to the approved submissions
(`AccountsUntouched`).

`NotificationDelivery_proofs`, for any number of notifications, chats, attempts, tries
and failures:

| Theorem | Statement |
|---|---|
| `TypeCorrect` | `Spec => []TypeOK` |
| `Duplicates` | `Spec => []DuplicatesExplained` |
| `StatusIsTrue` | `Spec => []StatusTellsTruth` |
| `RaceOnly` | `Spec => ObsoleteChatOnlyByRace` |

`Holding` says that the worker holds a row that is SENDING; any other row that is
SENDING was left by a failure, which `abandoned` counts. `Arrivals` and `Attempts` then
let each failure pay for one more arrival and one more attempt: an arrival happens
only while the delivery has not been answered, and the answer is what the mark
records. `Current` says that the chat found by `CheckRecipient` is still linked
unless `moved` noticed a change.

`TelegramLink_proofs`, for any number of guardians, chats, tokens, messages and
failures:

| Theorem | Statement |
|---|---|
| `TypeCorrect` | `Spec => []TypeOK` |
| `Consent` | `Spec => []LinkedByConsent` |
| `LinksOnce` | `Spec => []TokensLinkOnce` |
| `RevokedUseless` | `Spec => []RevokedNeverLink` |
| `Refinement` | `Spec => ImplementsChatLinks` |

`LinkInv` relates a token's row to its history: the row names the owner (`Owners`), an
unused row has made no connection (`Once`), a deleted unused one never will
(`Revoked`, which holds because a token is never issued twice). `PollInv` relates the
update in the poller's hands to the message it came from, so that `Connect` joins the
chat that presented the token. The refinement needs `FreeChat`, the partial unique
index, to show that a connection is `Link` of `ChatLinks`.

`GeofenceAlerts_proofs`, for any number of students, stops, fixes, retries and failures:

| Theorem | Statement |
|---|---|
| `TypeCorrect` | `Spec => []TypeOK` |
| `AlertedAtMostOnce` | `Spec => []AlertedOnce` |
| `AlertsLostOnlyByFailure` | `Spec => []LostAlertsExplained` |
| `StatesFollowFixes` | `Spec => []StateFollowsFixes` |

`AlertedOnce` is not inductive: nothing in it says that a student who waits for an
alert has none yet. `Inv` adds that (`Waiting`: who waits, waits in one evaluation
only, without an alert at that stop, and the stop's row already counts the entry), that
an alert implies a counted entry there (`Counted`), and that a transaction able to commit has read the
current row (`Snapshots`). A second decision for the same stop would need a row with
no entries, which `Counted` and `Waiting` exclude for everyone alerted or waiting.
Nothing relates the stop of a student in one evaluation to its stop in another.
`StatesFollowFixes` compares the row of a stop with the evaluations committed there, one
after the other. `OneMore` says that a further evaluation changes nothing about those
before it and `OneEntry` that it adds at most one entry; `Snapshots` that the row a commit
builds on is the present one, without which two overlapping evaluations would both count.

`AdminRecovery_proofs`, for any number of codes and logins and any limits:

| Theorem | Statement |
|---|---|
| `TypeCorrect` | `Spec => []TypeOK` |
| `SessionsFollow` | `Spec => []SessionsFollowPassword` |
| `CodesAreErased` | `Spec => []CodesErased` |
| `NewestRecovers` | `Spec => OnlyNewestRecovers` |
| `NoticeKept` | `Spec => []NoticeNotDropped` |
| `RequestsAreBounded` | `Spec => []RequestsBounded` |

`CodesInv` says that codes are made in order, that a pending one is the newest, and
where the text of a code can be. `SessionsFollow` needs no strengthening: a recovery
deletes the sessions it outdates and a login compares the hash under a lock.
`NoticeInv` follows the notice of every recovery, also past later ones (`recovered`), to
one of its three ends.
`QuotaInv` is about windows of time: the rows counted in a window that ends now are
those created in it, because what `CleanUp` deletes is older than any window
(`RetentionAssumption`: cooldown <= hour <= lifetime + retention, as in the code, where
they are 60 s, an hour, and 5 minutes plus a day). `QuotaTick` carries the bound to
every later window, with the cardinality lemmas of the library.

`Enrollment_proofs`, for any number of students, names, shifts, routes and requests:

| Theorem | Statement |
|---|---|
| `TypeCorrect` | `Spec => []TypeOK` |
| `OneClaim` | `Spec => []OneClaimPerShift` |
| `ArchivedStaysIdle` | `Spec => []ArchivedIsIdle` |
| `NamesStayEqual` | `Spec => []NamesAgree` |
| `ApprovableUntilReview` | `Spec => []PendingStaysApprovable` |

`Linked` says that a service has a request and a schedule lists active services,
`ArchivedNamed` that an archived student keeps its name and so cannot be entered anew,
`PendingConfigured` that the shift of a pending request is configured, which is why
`Configure` looks at requests too. `ClaimsKept` states once why one claim per shift
survives a change of a single request.

`Fleet_proofs`, for any number of vehicles, drivers, jobs, previews and confirmations:

| Theorem | Statement |
|---|---|
| `TypeCorrect` | `Spec => []TypeOK` |
| `ImportedAtMostOnce` | `Spec => []ImportedOnce` |
| `InSyncUntilImport` | `Spec => []DriftOnlyByImport` |
| `StatusFollows` | `Spec => StatusFollowsJobs` |

`FleetInv` adds that drivers and jobs refer to vehicles that exist (`Placed`) and that
a vehicle has one driver at most (`OneDriver`, the UNIQUE column), without which "the
driver shown" would be ambiguous. `ImportInv` says that a preview being confirmed has
left the map and is held by one confirmation.

The strengthened invariants were checked by TLC before they were proved.

Only model-checked: `HandlersEnd`, `EveryDeliverySettles` and `EveryUpdateRecorded`
(liveness, beyond the prover). Every other property of the passing runs has its theorem.

## 5. Not modelled, and why

* Backup: a straight line of external I/O (pg_dump, Drive, mail) behind a flag.
* The codec's bytes: frame search, CRC, coordinates. The decision a parsed packet
  leads to is in `DeviceIngestion`.
* The daily summary of a history and the display status of a device: readings of rows
  that `HistoryQueries` and `DeviceIngestion` already describe, with the wall clock.
* Fares by route, operating days, pickup points, call notes and complaints: fields of
  the rows `Enrollment` and `Payments` keep, or single rows nobody else writes.
* Attendance, notices, banners, the other settings, manual ledger rows, reports: single
  rows or reads that meet no other operation.
* The limits per address, the check of the owner's account at start and the
  cryptography of recovery; registration, the login throttle and the guard of requests;
  the authorization of viewers.
* The datasets of routes and stops in an import, the export, CSV and XLSX conversion.
* Startup migrations (once, under a lock, before anything is served), health, wiring,
  REST validation and presentation.
* `lastSeen` can regress by the time a session waited for its lock
  (`locations/locations.service.ts:79`): contact times are abstracted.

## 6. Done and left

Done: nine component models, two abstract specifications with refinements, twelve runs,
theorems about all nine.

Left, in the order of what they would add: the frame search over chunked input
against a reference definition; operating days in `Enrollment`, with the finding above
as a run; the composition of `DeviceIngestion` with `GeofenceAlerts` over one sequence of
fixes; the daily summary over the batches of `HistoryQueries`; the limits per address
of `AdminRecovery`.
