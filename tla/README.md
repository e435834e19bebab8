# A verification project for ITCS

ITCS imports spreadsheets of maintenance tasks, assigns the tasks to the managers of the
stores, follows their work and announces what happens in a Matrix room. It is a FastAPI
application and a separate `notifier` process over one PostgreSQL database. This directory
holds TLA+ models of the parts that run concurrently, can fail halfway or have to happen
eventually, TLC runs over small instances of them, and TLAPS proofs for every size.

Files: one module per component, `MC<module>.tla` with the values of its constants, one
`.cfg` per run, `<module>_proofs.tla` with its theorems, and `PROJECT.json`, which lists
components, runs, mutants, hazards, findings, theorems and, for each definition, the lines
of the source it stands for.

## 1. Inventory

| Component | State | Operations | Interacts with | Hard behaviour | What makes it correct |
|---|---|---|---|---|---|
| **Outbox notifier** `app/notifier/__main__.py` | `notification_outbox` (status, attempts, next_retry_at, sending_started_at), `outbox_guard_state` | watchdog, guard read / half open, claim, send, mark_sent, mark_failed, guard open / close | reads rows of every producer; PUTs to Matrix; restarted by docker | crash between request and record, lost answers, several processes, retries, circuit breaker | sent implies delivered; copies only after faults; one owner per row; no row stays 'sending'; every row ends once Matrix accepts; the guard gates claims and recovers |
| **Task upload** `app/api/tasks_uploads.py`, `app/services/l4_import.py`, `app/services/notifications.py` | `uploads`, `tasks`, `notification_outbox` | store the upload, import a row, commit, enqueue digests and new-task notices, commit | writes rows the notifier sends; reads `stores.assigned_user_id` | overlapping uploads, unique indexes, deadlocks, swallowed row errors, crash between two commits | a stored upload is complete; nothing of a failed one stays; a task is announced once |
| **Excel import** `app/importer/service.py` | `uploads`, `tasks`, `import_errors`, `upload_metrics` | check for an earlier upload, insert, one statement per row, totals | used by the UI; sets `tasks.status='open'`, which the SLA monitor reads | every statement commits by itself: crash midway, then "idempotent" answer; two calls with one file | an upload reported ok has its rows in `tasks`; totals add up |
| **SLA monitor** `app/jobs/sla_monitor.py` | `task_activity`, `notification_outbox` | scan overdue open tasks, record the activity, enqueue | tasks of the Excel import; rows for the notifier | two runs at once; SLA moved after the alert | one alert per task |
| **Task workflow** `mobile_task_workflow_service.py`, `tasks_ui_service.py`, `ops_tasks_workspace.py`, `ops_actions.py`, `task_single.py` | columns of `tasks`, `task_internal_state`, `task_comments`, `task_events` | accept, comment, close, claim, set status | the importers reset `tasks.status` | endpoints that write different stores of one state; accept against close; reassignment between check and write | the state is one its log explains; an owner stays |
| **Managers, stores, accounts** `admin_managers.py`, `bootstrap.py`, `import_managers_from_excel.py` | `users`, `stores` | create, update, delete a manager; assign a store; bootstrap the admin | decides who is notified and who may act | check then write; delete against assign | a store's manager exists and is a manager |
| **Login and sessions** `auth.py`, `ui_login.py`, `auth_ui.py` | session cookie (12 h), `users` | login, logout, role checks | every endpoint | role copied into the cookie | a role is only used while it is held |
| **Alternative notifier** `app/notifier/main.py` | `notification_outbox`, `device_subscriptions` | requeue, claim, send by Matrix / web push / email | not started by `docker-compose.yml` | rows taken back by `created_at`; digest sent in parts | sent implies delivered in full; copies only after requeues |
| **Risk engine** `ops_risk_engine.py` | `task_risk_state`, `task_risk_events` | scan | router not mounted | two scans at once | the events are the history of the state |
| **Pure functions** `trust.py`, `_calc_backoff_seconds`, `compute_risk`, `_trust_level` | none | | | boundaries | not modelled: none of them takes effect on what the models are about |
| **Dashboards** `dashboard_service.py`, `command_center.py`, `director_dashboard.py`, `director_landing.py` | none | a row of statements on one session | read every table | the tables change between statements; a failed one aborts the rest | what a page shows was so while it was read |
| Templates, superseded modules, scripts | none, or unreachable | templates, patches | | | not modelled |

The components meet in the database. Producers (uploads, the SLA monitor) insert rows into
`notification_outbox`, each with a unique `dedupe_key`; the notifier is the only reader.
`stores.assigned_user_id` decides who is notified and who may act on a task.

## 2. Modules, and what is left

| Module | Models | Run | Proved in |
|---|---|---|---|
| `OutboxNotifier`, `AtLeastOnce` (abstract) | `app/notifier/__main__.py` | `notifier_race`, `notifier_pair`, `notifier_single`, two violations | `OutboxNotifier_proofs` |
| `TaskUpload`, `AtomicUpload` (abstract) | `api/tasks_uploads.py`, `services/l4_import.py`, `services/notifications.py` | `task_upload`, one violation | `TaskUpload_proofs` |
| `ExcelImport` | `importer/service.py` and its three doors | `excel_import` | `ExcelImport_proofs` |
| `TaskWorkflow` | mobile, desktop and workspace handlers of a task | `task_workflow` | `TaskWorkflow_proofs` |
| `Accounts` | `admin_managers.py`, `bootstrap.py`, `import_managers_from_excel.py` | `accounts` | `Accounts_proofs` |
| `LegacyNotifier`, again `AtLeastOnce` | `app/notifier/main.py` | `legacy_notifier` | `LegacyNotifier_proofs` |
| `SlaMonitor`, composed into `Dashboards` | `jobs/sla_monitor.py`; the JSON pages | `dashboards` | `Dashboards_proofs` |

`LeastElement` holds two lemmas the proof modules share: a set of numbers has a least
element, and where each of finitely many waits for one of them, some wait in a circle (the
second from the first, applied to the sizes of the sets in which everybody waits).

Abstract specifications. `AtLeastOnce` is what an outbox promises its producers: a message is
transmitted any number of times, confirmed only after a copy went out, and never reopened. Both
notifiers are held against it. It has no liveness: neither of them is sure to end a message that
keeps failing (section 3). `AtomicUpload` is what an upload promises its users: the rows of a file
enter `tasks` in one step, as if no other upload ran, and the notices follow in a second step, all
or none.

Interactions. The components meet in tables, so a module that reads another's table carries
the other's writes as actions of its own: `process_l4_row` of the other importer in
`ExcelImport`, the changes of assignments in `TaskUpload` and `TaskWorkflow`, the imports and
status changes of tasks in `SlaMonitor`. `Dashboards` extends `SlaMonitor`, so that the
monitor's and the pages' notion of an overdue task are those of one state.

What could still be added: the risk engine, once a migration says what its tables are; an
abstract specification of the Excel import, which commits statement by statement and so has no
single step to be compared with.

## 3. OutboxNotifier

### State and actions

| TLA+ | Code |
|---|---|
| `status`, `attempts`, `due`, `sendingFor` | the columns of a row; `due` is `next_retry_at - now()`, `sendingFor` is `now() - sending_started_at` (`Null` when it is NULL) |
| `guard`, `openFor` | `outbox_guard_state.state`, `open_until - now()` |
| `pc`, `seen`, `todo`, `cur`, `reply` | the place of each process in `run()`, the `state` it read, the rest of `batch`, the row in hand and what `matrix_send` returned or raised |
| `delivered`, `sends`, `charged`, `slips`, `faults` | what the room holds, and counters only the properties read |
| `watchdog_sending_stuck`, `guard_get`, `guard_half_open`, `SendingDisabled`, `claim_batch` | the head of an iteration, one action per statement that commits |
| `Refuse` | a row with another channel or without a room: `mark_failed` without a request |
| `matrix_send` | the request: accepted; refused (429, 5xx, other); or accepted with its answer lost |
| `RecordSent`, `RecordFailed` | the transaction after the answer, with the guard's change in it |
| `FailureRolledBack` | the same transaction when a statement of it raises: the row stays 'sending' |
| `IterationFails`, `RecordSentFails`, `Crash` | the `except` branches, and the death of the process |
| `Enqueue`, `Tick` | a producer's insert; the database's clock |

One committed transaction is one step. The request is a step apart from the transaction that
records its outcome, because the process may die between them. `RecordSentFails` leads to the
`except Exception` branch with the room already holding the message; `mark_failed` is called
there in the transaction that has just failed, raises too, and nothing is recorded.

**What cannot be recorded.** Two statements bind a Python `int` to `(:b || ' seconds')::interval`
(`mark_failed`, line 281) and `(:s || ' seconds')::interval` (`guard_open`, line 105). PostgreSQL
infers `text` for such a parameter, and asyncpg 0.29, which `requirements.txt` pins, refuses an
`int` for it. So both always raise, and are `FALSE` in the model (`set_next_retry_at`, `guard_open`).
`mark_failed` returns before line 281 only if the row has gone dead by the failure: with a limit
above one, no failure of a row is ever counted, the row stays 'sending' with the attempts it
had, and the watchdog gives it back. The guard is never opened by this build; `GuardAsFound` lets a
behaviour start with one that is open, which migration 0002 would keep, for at most `MaxWindow`.
`CannotRecord` names the condition, `FailureRolledBack` is the step, and it costs no fault.

### Runs

| Run | Instance | Shows |
|---|---|---|
| `notifier_race` | 2 rows (one that cannot be sent), 3 processes (one disabled), limit 1, watchdog limit 0: it takes rows back from running batches | what holds in any deployment: `TypeOK`, `WatchdogSeesSending`, `RetryBudget`, `SentWasDelivered` |
| `notifier_pair` | 2 rows, 2 processes, limit 1, batches shorter than the watchdog's limit, 2 faults | `OwnedOnce`, `DuplicatesNeedAFault`, `RequestsAccounted`, `SettledIsFinal` |
| `notifier_single` | 2 rows, the deployed single process, limit 2, no bound on a batch's length, 2 faults, fairness | `ImplementsAtLeastOnce`, `SendingEnds`, `SettledOnceMatrixAnswers`, `GuardRecovers`, `GuardGatesClaims` |
| `notifier_one_copy` | 1 process, 1 fault | README.md:11 and :83 do not hold (violation) |
| `notifier_ten_attempts` | 1 process, no fault | README.md:12 does not hold (violation) |

`SendingEnds`: a row leaves 'sending' whatever Matrix answers and whoever abandoned it, through
the watchdog. `SettledOnceMatrixAnswers`: if from some time on Matrix accepts every request, every
row in the table is sent or dead in the end, the abandoned ones included. Without that premise
nothing of the kind holds, as the last run shows. `RequestsAccounted` is an equation: the requests
that were not rolled back or lost with the process (`charged`) are those counted in `attempts`,
the success, and the one in flight.

Bounds. Two rows are enough for a batch with a row in hand and a row waiting, which is what
`break` after a 429 and a crash leave behind; two processes for any conflict over a row, the
third shows a disabled one. With `MaxAttempts = 1` a failure is the last one and is recorded,
with 2 it is not; a row has no other attempts to go through, since the counter does not move
below the limit. Guard windows and the watchdog's delay are one or two ticks, so that each can
end before or after any other. `MaxOverdue` caps how long past its time a row is told apart (the
order of the claim query), `MaxFaults` how many crashes, accidental failures of a transaction and
lost answers occur; failures Matrix reports, and those that cannot be recorded, are not bounded.
Symmetry is used only in runs without liveness.

Fairness. `WF(Tick)`: the clock advances. `WF(PollOnce \/ HandleRow)` for each process: the
event loop runs and docker restarts it (`restart: unless-stopped`). Nothing is assumed of
producers, of Matrix's answers (but for the premise of `SettledOnceMatrixAnswers`), or of faults
other than that they are finitely many (`MaxFaults`).

### Findings

* `notifier_one_copy`: README.md:11 "Matrix dedupe: `txnId = outbox_id`" against
  `__main__.py:300`, which draws a fresh id per request. A repeated request is a new message.
* `notifier_ten_attempts`: README.md:12 "Ретраи с backoff до 10 попыток → потом `dead`" against
  `__main__.py:281`: the outcome of a failure below the limit cannot be recorded, so the attempt
  is not counted, the backoff is not set, and the row is requested again and again at the
  pace of the watchdog. The run needs no fault.

### Proofs (`OutboxNotifier_proofs.tla`)

For any sets of rows and processes and any values of the parameters that satisfy
`NotifierAssumption`: `TypeOK`, `WatchdogSeesSending`, `RetryBudget` and `SentWasDelivered`
in every deployment; `OwnedOnce`, `SettledIsFinal`, `DuplicatesNeedAFault`,
`RequestsAccounted` and the refinement of `AtLeastOnce` (`ImplementsAtLeastOnce`) when `Exclusive`
holds (one process, or timely batches); `GuardGatesClaims` for a single process.

The argument rests on inductive invariants, each on the one before. `TypeInv` adds to the type
what a place in the loop implies: in "reply" there is an answer and a row in hand that is no
longer to do, elsewhere neither, and outside the batch nothing is left to do.
`WatchdogSeesSending` and the attempt bound are inductive over it; `MarkFailedEnds` is what is
left of `mark_failed` once its last UPDATE raises. `SentWasDelivered` needs that an accepted reply
is of a delivered row. Ownership is strengthened with: held rows are 'sending', batches are
disjoint, and, for a single process, a held row is only held past the head of the loop, where the
watchdog does not run; finality and the two accountings follow from it. For the guard, a process
past its read knows the guard it saw. The refinement maps `none`, `sent` and `dead` to `absent`,
`confirmed` and `abandoned`, everything else to `pending`. (`AtLeastOnce` may start with messages
that are already posted, which `LegacyNotifier` does and this module does not.)

## 4. TaskUpload

### State and actions

| TLA+ | Code |
|---|---|
| `uploads`, `tasks`, `outbox`, `assigned` | the committed tables: stored `file_hash`es, `portal_task_id`s, notices by their `dedupe_key`, `stores.assigned_user_id` |
| `pc`, `file`, `at`, `created`, `drafts` | a handler's place, its file, the row it is at, `created_task_ids`, the notices in its session |
| `writes` | the keys its open transaction has written. Another handler that needs one of them waits (`Waits`), as on a unique index entry or a locked row of PostgreSQL |
| `StoreUpload` | `session.add(upload)`, `flush`, `read_excel` |
| `LookUpRow`, `InsertTask`, `UpdateTask` | `process_l4_row`: its checks and SELECT, then the flush of the new or the found task |
| `BreakDeadlock` | PostgreSQL refuses a statement of a cycle of waiting transactions |
| `CommitUpload` | the first commit |
| `_enqueue_manager_digests`, `_enqueue_new_tasks`, `CommitNotices` | the two queries, each with its own snapshot of the assignments, and the second commit |
| `Interrupted`, `assign_store` | a lost connection or a dead process; the dispatcher's reassignment |

A flush that fails inside `process_l4_row` is caught there and counted as an invalid row,
but it has rolled the session back: every later statement raises, and so does the commit, so
the request as a whole is refused. `Refuse` is that whole path. A row of an unknown store
counts as invalid and stores nothing: the `Anomaly` built at l4_import.py:73 has arguments
the model class does not have, so its constructor raises and the row's `except` returns.

### Runs

`task_upload`: three requests over four files: two that share tasks in opposite orders (one
with an unusable row, one with a repeated row), one with a value its column cannot hold, one
unreadable; the store of the shared tasks changes hands between nobody and two managers
(together, so that a second announcement is not hidden by a `dedupe_key` of the other task),
the other store keeps its manager; one fault. Checks `TypeOK`, `StoredUploadIsComplete`,
`AnnouncedOnce`, `DedupeKeysAreFresh`, the refinement `ImplementsAtomicUpload` and, under weak
fairness of each handler, `CallsEnd`. Three
requests are a deadlock and a bystander, or two uploads and a retry. Fairness is that of the
event loop and of a database that answers; without `BreakDeadlock`, which PostgreSQL's
detector performs, `CallsEnd` would not hold.

`ImplementsAtomicUpload` maps `uploads`, `tasks` and `outbox` to themselves and the requests
between their two commits to `pending`, each with its `created_task_ids`. `CommitUpload` is
then `Store`: the file it stores is new, the tasks become exactly the old ones and the usable
rows of the file, and the tasks the handler believes to have created are exactly those that
were not there, although it looked each of them up at a moment of its own. `CommitNotices` is
`Announce`, an interrupted second transaction is `Forget`, and all else is invisible: nothing
of a request that waits, is refused or dies before its commit is ever seen. That every task
comes from a stored upload (`TasksComeFromUploads`) and that a notice is about a stored row
(`NoticesNameStoredRows`) follow, and are proved besides; the run no longer lists them.

`upload_one_record` (violation): README.md:61 says that a record appears in the outbox after
a successful commit. A handler lost after `CommitUpload` leaves the upload without a digest,
and the unique `file_hash` refuses the retry.

### Proofs (`TaskUpload_proofs.tla`)

For any requests, files, rows, stores, reassignments and faults that satisfy `UploadAssumption`:
`TypeOK`, `StoredUploadIsComplete`, `TasksComeFromUploads`, `NoticesNameStoredRows`,
`AnnouncedOnce`, `DedupeKeysAreFresh` and the refinement `ImplementsAtomicUpload`. None of the
invariants but the first is inductive. `UploadInv` adds what a handler holds at each step: in the
first transaction it has locked its upload and every usable row before `at`, nothing that is not a
row of its file, and its new tasks are locked and not stored (`FirstInv`); in the second
everything it speaks of is stored and its drafts are about its own upload and its own new tasks
(`SecondInv`); locks, new tasks and, in the second transaction, uploads of two requests are apart
(`ApartInv`). The last one is where waiting matters: a key is written only when nobody else has it
locked (`KeyIsFree`), so two requests cannot both count a task as new. `NoticeInv` follows on top
of it: no notice in the outbox is about a new task or the upload of a request that still runs
(`OutboxInv`). Each part has its own lemma; `Kinds` sorts the steps, so that the refusals and
losses, which all end a call without a trace, are one case.

The refinement needs `SerialInv`, the one thing a serial execution would know and an
interleaved one has to keep: a row in update is stored or the handler's own, a handler writes
usable rows only, and what it has written it has created or found stored. It survives the
commits of others because `tasks` never shrinks and no other request may write what this one
has locked. `AtomicStep` then matches each kind of step with one of `AtomicUpload`.

Two theorems carry what `CallsEnd` rests on. `NobodyWaitsForEver`: while requests are under way,
one of them is not held up, or stands in a set of requests that all wait in it, whose deadlock
PostgreSQL breaks (`SomeoneGoesOn`); if all waited, `WaitInCircle` would find such a set. It
assumes finitely many requests, which the connections of a database are. `CallsAreBounded`: a
number falls with every step of a request and with no step of another does it rise
(`StepsRunOut`). What is left of `CallsEnd` is that a request which can go on does, and that is
fairness.

`CallsEnd` itself is liveness and `CommitCreatesOneRecord` is violated: both are only
model-checked.

## 5. ExcelImport

| TLA+ | Code |
|---|---|
| `uploads`, `totals`, `metrics`, `tasks`, `errors` | the tables; every statement of this importer commits by itself |
| `pc`, `file`, `left`, `n` | a call of `process_excel_upload`, the rows it has still to import and its counters |
| `Door` | the API, the form that calls the API with a timeout of 60 s, or the button that ignores the outcome |
| `parsed`, `total`, `dropped` | `parse_portal_l4_xlsx`: rows without a store are dropped, an empty id becomes a hash of the row |
| `CheckUpload`, `StoreUpload` | the idempotency SELECT, then the INSERT that the unique `file_hash` may refuse |
| `LookUpRow`, `InsertTask`, `UpdateTask` | one row: its SELECT, then one write and its commit. A refused write is a row of `import_errors` |
| `StoreTotals`, `StoreMetrics` | the counters of the upload, then its row of `upload_metrics` |
| `FormTimesOut`, `LoseConnection`, `Crash`, `process_l4_row` | the form gives up; faults; the other importer |

Run `excel_import`: three calls, one through each door, over four files; two share a task that one
names by id and the other by the hash of its row, and the others have an unknown store, a row
without a store, an id too long, a wrong name, and nothing readable; one fault. Two calls are what
a race for a file or a task needs, the third is the retry. It shows that a finished upload
accounts for each row once (`RowsAccounted`), that a task never mixes two files' rows
(`TaskMatchesItsUpload`), that the loop's error handling skips no usable row
(`CompleteUnlessInterrupted`: a crash midway does leave an incomplete upload that is answered
"idempotent" ever after, and the property excepts exactly those), and that a file is imported by
one call (`ImportedOnce`).

Proof. All five, for any files, rows, calls and faults, and `FinishedIsFinal`: once an upload has
its metrics no step takes them away, changes its totals or adds an error to it, because a call
that still imports a file works on one without metrics (`CountInv`). `ImportInv` ties each call to
its file: the rows it has taken are counted, stored or in error; what its counters say adds up
with `errors`; one call owns an upload from its INSERT on. `Quiet` steps, which touch none of the
tables, are one lemma. That the next row is the least one left needs `LeastElement`.

Two observations. A row of an unknown store is counted in `skipped` and `bad` and so twice in
`invalid_rows`; and a row refused because a rival import has just stored the same task is an
error although the task is there. Neither contradicts a stated promise.

## 6. TaskWorkflow

| TLA+ | Code |
|---|---|
| `internal`, `comments`, `events` | `task_internal_state`, `task_comments`, `task_events` (both logs are sets) |
| `columns` | `internal_status`, `assigned_user_id`, `completed_at` of `tasks`, the second record of the same thing |
| `pc`, `call`, `draft` | a mobile or desktop transaction: check, upsert (which locks the row), event, commit |
| `before` | observation: which calls had committed when the transaction began |
| `_assert_manager_access` | the mobile manager must have the store at the check, the desktop must only find the task |
| `InsertEvent` | the mobile payload is put together as text; a line break or backslash makes the cast fail and rolls back |
| `ack`, `visit`, `add_task_comment` | `ops_actions.py`, `task_single.py`, `mobile_manager_service.py`: one statement each |
| `claim_task_auto`, `set_work_status`, `manager_claim_task`, `manager_set_status` | one UPDATE of `tasks` |

The order of the log. Every event is dated `now()`, the moment its transaction began
(`mobile_task_workflow_service.py:127-128`), and a card lists them by that date
(`tasks_ui_service.py:185`), while the upsert of an overlapping call waits for the row's lock and
takes effect later. An accept that began before a close and got the lock after it is logged
first and decides the state. So replaying the log in the order it is read does not give the
state, and nothing here claims that it does: `events` is a set, and what the model keeps of time is
`before`. A mobile manager's transaction begins with the check of his store, a
dispatcher's with the upsert; a desktop one after `_ensure_workflow_schema` has committed.

Run `task_workflow`: one task (the handlers never touch two), two managers, a dispatcher, three
calls, each of any of six kinds (the calls are interchangeable: `Callers`), the single statements at
any moment. Three calls are two that overlap and one that began before, between or after
their commits. `StateFollowsItsLog`: what a column of the row says was written by an event of the
log after whose commit no call began that wrote it too, and is as new if no event writes it. So every
logged call has had its effect, no state is without its call in the log, and no call brings back a
value it read before another committed. `CommentsAreLogged`: a comment and its event are stored
together. `OwnerIsPinned`: no later write takes a task from its owner.

Proof. All four, for any tasks, stores, calls and requests. `WorkflowInv` adds `LockInv`: the
draft of a transaction past its upsert is the event's effect on the row as it is, because no
other writer passes the lock; `BeforeInv`, that whatever a call found committed is over; and
`OneEventPerCall`. Two of the theorems say that the log is
an audit trail: a call has one event at most, in one log, and only when it is over
(`CallsAreLoggedOnce`), and no step takes out or changes an event (`LogOnlyGrows`).

The accept, comment and close functions of `tasks_ui_service.py` are the "desk" door. No mounted
route calls them today (only `list_tasks` is imported); they share tables and payloads with the
mobile ones and are modelled as a caller would use them. Its card, which no route
reads either, and the summary, which reads `tasks` alone, are not modelled.

The two records are never compared by the code, so nothing relates `internal` to `columns`:
a task may be resolved in one and new in the other, and an import opens it again in a third
(`tasks.status`). The model shows them side by side and states what each keeps.

## 7. Accounts

| TLA+ | Code |
|---|---|
| `users`, `assigned` | `users`, `stores.assigned_user_id`; uuids are drawn once (`Absent`, a row, `Gone`) |
| `pc`, `call`, `held` | an endpoint between its check and its write; the stores a delete has locked |
| `script`, `printed` | the transaction of `import_managers_from_excel.py`, with the rows it has written, and what it prints after its commit |
| `changed` | observation: accounts somebody else wrote since the script looked at them |
| `CheckEmail`, `create_manager`, `update_manager`, `update_manager_password`, `UnassignStores`, `DeleteUser`, `CheckManager`, `assign_store` | `admin_managers.py`, check and write apart |
| `CheckBoot`, `PromoteAdmin`, `InsertAdmin` | `ensure_bootstrap_admin`, run at each start |
| `LookUpManager` ... `Commit`, `Rollback` | the script, row by row, in one transaction |
| `Taken`, `Awaited`, `UserLocked`, `StoreLocked` | the unique index, which tells cases apart, and the waits for open transactions |

Run `accounts`: two calls and the script, over four uuids, one store, an account seeded in
capitals, a sheet that names one manager twice and the bootstrap account once. Two calls are
a check and a write between it and its own write; a third would repeat one of the two.
Deadlock checking is off because every call and the script end. Shown:
`OneAccountPerEmail` (case ignored, although the index compares exactly: the checks ignore case
and new emails are written in lower case), `StoresHaveManagers` (the foreign key decides the
race of a delete with an assignment) and `PrintedPasswordsWork`.

Proof. All four, for any users, emails, stores, calls and spreadsheets. An endpoint's step is
a `Move` of the users (whoever the script has written stays, emails stay, but one account may
get a fresh one) and keeps everything at once (`EndpointKeeps`). `Ready` is what a
call knows at its write: whoever has its email by then has it in lower case, so that the index
will tell. `ScriptOK` says the same of the script's draft: merged with the committed users it
has no two accounts of one email, and each password it will print is in the draft,
superseded by a later one, or its account was deleted. `DeletedOnce` follows: a deleted user
stays deleted, although the script may have read him before and commits after, because the rows
of its draft are of users that exist or of new uuids (`DraftsOK`, kept by the row locks); and
whoever goes was a manager and leaves no store behind.

## 8. LegacyNotifier

A claim commits at once and is only a status; the batch is worked off without a transaction.
`status`, `attempts` are columns; `old` says whether `created_at` is beyond the limit of
`_requeue_stuck_sending`, which measures by it and not by the claim, so a row is taken
back from a live worker. `batch`, `seen` are what a worker remembers of its claim: it writes
`seen + 1` attempts whatever the row holds. `SendPart` sends a digest in parts, `Push` to
devices, and switches off expired ones. `MarkSentRaises` and `Crash` are the faults.

`_mark_failed` records the last failure only (`main.py:213`). Below the limit the UPDATE of line
216 binds an `int` to `($4 || ' seconds')::interval` and raises, inside the `except` branch of
`run_once`: the row stays 'sending', the rest of the batch is forgotten with it, and `run_forever`
begins anew. So `next_retry_at` is never set and is no variable; a row that always fails, of an
unknown channel for one, is requeued for ever once its import is a minute old, and each time takes
down the rest of the batch it was claimed with.

Run `legacy_notifier`: a digest of two parts, a push to two devices, a message of an unknown
channel; two workers on one message or one on two (`MaxLoad`), two faults, limits of one attempt
(every failure is recorded) and of two (none is). `MaxCredit` caps how many copies the requeues of
a row, which do not end, are counted to allow; the cap only makes the property stricter, and is
above the number of workers, each of which may hold a claim. Shown: `SentWasDelivered` although
rows change hands in the middle, `CopiesAreRetries` (each further copy of a part is owed to a
requeue), and, under fairness, `EveryMessageEnds`: if failures that cannot be recorded stop
(`FailuresAreRecorded`), every message is sent or dead in the end. Without that premise it does
not hold. Fairness: `WF` of each worker that was started (`run_forever` never returns and goes on
after exceptions) and of `created_at` growing old; no fairness of the answers. Faults are finitely
many. `TypeOK`, `SentWasDelivered` and `CopiesAreRetries` are proved for any workers and messages;
`LegacyInv` says that what a worker has got through plus what it has still to do covers the
message, and that each claim in hand is paid for by a copy that is owed.

Against `AtLeastOnce`. With two workers the promise is broken: a row taken back by its age from a
worker that is alive may be sent by one and then marked dead by the other. With one it is kept:
`LoneWorkerKeepsPromise` says that where `Cardinality(up) = 1` every step is a step of
`AtLeastOnce`, a message counting as transmitted when all it needs has gone out (`Complete`: all
parts of a digest, or one device). The run checks it on its behaviours with one worker, and
`LoneWorkerIsFaithful` proves it for any number of messages, parts, devices and faults;
`LoneWorkerRefinesAtLeastOnce` adds the initial state, which makes it the refinement of
`AtLeastOnce`. The invariant it needs, `HeldInv`, is that what the only worker holds is 'sending':
the requeue runs at the head of its loop, when it holds nothing, and a crash forgets the batch.
`up` is fixed at the start: how many workers a deployment has does not change.

## 9. SlaMonitor and Dashboards

`SlaMonitor` is one transaction: the list of open overdue tasks, then for each a check of
`task_activity`, an insert there and one into `notification_outbox`, which waits for a rival
run's uncommitted row of the same `dedupe_key`. Two runs may deadlock; PostgreSQL fails one.
`NotedIsAlerted`: a note without an alert would silence a task for good, an alert without a note
would repeat the work.

`Dashboards` reads a page a statement at a time while tasks and anomalies change. A
helper that catches an error goes on with a default, but the transaction is aborted and all
later statements of the page fail too (`aborted`); the director's pages are an error as a whole.

`Lacking` is the set of statements that name a column or table the database has not. It contains
at least `NoSuchColumns`, which no schema of the repository can answer, be it the migrations,
`models.py` or the SQL files: `last_upload_at` and `upload_row` put `created_at` and `uploaded_at`
of `uploads` together (`dashboard_service.py:82`), `invalid_metric` names three shares of invalid
rows of which at most one exists, `latest_upload` of the command center names `profile_code`
(`command_center.py:98`). So `/api/dashboard` never knows a last upload and is always RED with a
warning that there is none, and the command center, whose first statement fails, shows zeros and
defaults throughout. `health_state.trust_level`, which the director's pages read, and a
`tasks.sla` that is a time are in no schema of the repository either; with those in `Lacking` as
well, the director's pages are errors and the page of the deadlines shows zeros. The run takes the
smallest `Lacking`, which has the most behaviours; the theorem is for any.

`PagesTellWhatWasSo`: when a page is read to its end, an alarm on it (tasks overdue, anomalies
open) was true at some moment since it was asked for, on every page; and that no task is overdue
was true at some moment if the page is a director's, or that of the deadlines with no statement
failed. What it does not claim is as much part of it: elsewhere a zero may stand for a table
nobody read. The trust level is not modelled, because its inputs are among the statements that
always fail.

Run `dashboards`: two runs of the monitor over two tasks, or (`running`) a page over a changing
task; two faults, so that a statement may fail on a page and a run be cut. A page never reads what
a run of the monitor writes, which is why a behaviour has one or the other. All three properties
are proved for any tasks, runs and faults and any `Lacking`. Two theorems more are about runs that
overlap, of which there are finitely many at a time (`IsFiniteSet(Monitors)`).
`OverdueNotesAreBounded`: nothing is unique in `task_activity`, so two runs may both note a task,
but a task is noted no more often than there are runs at a time, for ever: its notes and the runs
that have noted it or are about to are never more than the runs (`NotesInHand`), and once a note
is committed no further run starts one. `MonitorsAreNotStuck`: while runs are under way one of
them can go on, or stands in a deadlock PostgreSQL breaks; by `WaitInCircle` again.

What the monitor does besides, and no property claims otherwise: it alerts once per task for
ever, also after an import has moved the deadline, and only while `status` is 'open', whereas
the director's page counts every unresolved task as overdue.

## 10. What is proved, and from what

Each proof module shows its properties as `Spec => []P` (or `[][A]_vars`) for every value of the
constants that satisfy the module's named `ASSUME`, which TLC evaluates in each run. The
assumptions are about the shape of inputs (emails in a request are in lower case, since the
endpoints lower them; a path names one user) and that bounds are numbers; they bound no size.
Every strengthened invariant was first checked by TLC.

The theorems are of four kinds: invariants, among them every invariant the passing runs check;
action properties (`SettledIsFinal`, `GuardGatesClaims`, `OwnerIsPinned`, `FinishedIsFinal`,
`LogOnlyGrows`, `DeletedOnce`); refinements (`RefinesAtLeastOnce`, `UploadsAreAtomic`,
`LoneWorkerIsFaithful` and `LoneWorkerRefinesAtLeastOnce`); and the safety half of termination
(`NobodyWaitsForEver`, `CallsAreBounded`, `MonitorsAreNotStuck`). Those of the last kind, and the
properties only the proof modules state, were checked by TLC on the instances of their modules'
runs before they were proved; the runs do not repeat them.

Only model-checked: liveness (`SendingEnds`, `SettledOnceMatrixAnswers`, `GuardRecovers`,
`CallsEnd`, `EveryMessageEnds`), because ENABLED and fairness are beyond the prover, and the
three violations. TLC checks these on the instances above only.

## 11. Not modelled

* Contents: texts, HTML, payloads, error messages, log lines, and the task attributes no
  property is about.
* Of the notifier: `consecutive_failures` (never read), the skew between `utcnow()` and the
  database's `now()`, a missing guard row (the migration inserts it), the numbers of the backoff
  and of Retry-After (the statement that would use them raises), and claims that skip rows
  locked by another claim that later rolls back (the batch would only be smaller).
* The risk engine `ops_risk_engine.py`: `main.py` does not mount its router, and no migration
  creates `task_risk_state` and `task_risk_events`, so their constraints, on which any
  property of two scans rests, are unknown.
* Sessions: the role is copied into a signed cookie and trusted for 12 hours, and nothing
  reads `users` again meanwhile. A model of it would have no interaction but the expiry.
  The login's test of an account is `CanLogIn` of `Accounts`.
* `/comments` of `ops_actions.py`, which writes a column of another version of
  `task_comments`; attachments; cards, summaries, lists and filters.
* The trust level of the dashboard, which is RED whatever happens (section 9).
* `admin_users.py` and other modules no mounted router reaches: `notifications/outbox.py`,
  `notifications/sender.py`, `app/api.py`, `worker.py`, `services/trust.py`, the daily health
  message (which refers to an undefined name), one-off patch scripts.
* Templates, the HTML of `ui_*.py`, CSS and JavaScript: they hold no state of the system.
