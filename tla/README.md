# A TLA+ model of the SmartMonitor back end

The repository is the back end of SmartMonitor: a FastAPI service over
PostgreSQL that talks MQTT to power meters.  This directory models its state
and its concurrency in TLA+, checks small instances with TLC and proves the
central theorems with TLAPS.  All paths below are relative to `src/app/`.

## 1. Inventory of the system

One process runs the HTTP routes (a thread pool; each request has its own
SQLAlchemy session), the MQTT client with its network thread, one ingestion
worker thread and a few background workers.  They share PostgreSQL (isolation
level READ COMMITTED, `with_for_update` on the device row as the mutex of a
device) and the in-memory state of `mqtt_manager`.

| Part | State | Operations | What is hard | What makes it correct |
|---|---|---|---|---|
| Device transfer (`device_transfer_*.py`, `factory_reset_proof.py`) | reset challenges, transfers, broker receipts, notices | issue a challenge, stage a verified transfer, complete it from the broker worker | clocks read before the lock, the broker asked without a lock, retries, three parties acting at once | one chain of owners, each reset used once, the switch is atomic, the device is frozen meanwhile |
| Association and memberships (`devices.py`) | device row, memberships, channels | claim, invite, remove, list | races with a staging; in-memory proof against a database commit | one owner; nothing moves while a transfer is pending |
| Association proofs (`claim_proof_store.py`) | proof per device, consumed digests | register, reserve, release, commit | reservation lost between reserve and commit; clock read before the lock | a proof associates a device at most once |
| Attribution (`measurement_ownership.py`) | owner and epoch per measurement | resolve, check age, attach | late MQTT delivery across a transfer | epochs do not overlap |
| Alarm-rule configuration (`device_alarm_configuration.py`, `alarm_rule_recovery.py`) | the owner's rules, verified flags | adopt, set, restore after a reset | device call in the middle of a read-modify-write | rules never outlive their owner; device and back end agree |
| MQTT ingestion (`mqtt_client.py`) | queue, statuses, last data, pending outage | enqueue, process, connect, disconnect | network thread against worker; bounded queue; reconnects | events match what was observed |
| Commands (`commands.py`, `command_security.py`, `mqtt_client.send_command`) | pending table by command id | send, acknowledge, answer, time out | late, duplicated or malformed answers | the caller and the audit are told what the device did; no entry left behind |
| Local-history recovery (`local_history_recovery.py`) | sequence ledger, cursor | request a page, import, acknowledge | crash between import and acknowledgement | each record imported once |
| Alarm occurrences (`alarm_service.py`) | occurrences, signature of the last snapshot | ingest a snapshot, acknowledge | repeats, reboots, partial snapshots | occurrences follow the device's alarms |
| Power ingestion (`ingestion_cache.py`, `mqtt_client._persist_channel_measurement`) | last measurement per channel, cache | ingest a sample | cache against database, duplicates of imported samples, routing that changes | spacing of samples, the channel of the right device |
| Accounts (`auth.py`, `auth_sessions.py`, `email_verification.py`, `rate_limit.py`) | users, sessions, codes, counters | register, verify, resend, log in, refresh, log out | a mail inside a transaction, two refreshes at once, guesses over resendings | a usable code was mailed, guesses are bounded, a refresh token is used once |
| Live state (`device_live_state.py`) | last snapshots in memory | update, read, expire | held values | freshness |
| Summaries and retention (`power_daily_summary.py`, `data_retention.py`) | daily rows | summarise, rebuild, delete | two writers of one summary, deletion before summary, midnight | a summary counts the samples of its day; nothing deleted unsummarised |
| History and energy queries (`history_service.py`, `energy_consumption.py`) | none | read | | |
| Tariffs (`device_tariffs.py`) | one row per device | upsert | | |
| Shell (`main.py`, `settings.py`, `database.py`, ...) | none | wiring | | |

## 2. Plan

Most important behaviour first.

| # | Modules | Subject | State |
|---|---|---|---|
| 1 | `OwnershipEpochs` (abstract), `DeviceTransfer` | the ownership of one device | done, proved |
| 2 | `ClaimProof` | the proof store and the two routes that use it | done, proved |
| 3 | `AlarmRules` | owner's changes against the recovery worker | done, proved |
| 4 | `MqttIngestion` | connection, queue, worker, status cache, events, stop | done, proved |
| 5 | `HistoryImport` (abstract), `HistoryRecovery` | pages, ledger, acknowledgement | done, proved |
| 6 | `AlarmIngestion` | snapshots, signature cache, occurrences | done, proved |
| 7 | `RemoteCall` (abstract), `CommandDispatch` | pending table of `send_command`, late, repeated, stray and malformed answers, audit | done, proved |
| 8 | `Accounts` | verification codes, guesses, refresh rotation, revocation | done, proved |
| 9 | `PowerIngestion` | samples, cache, daily summaries, recovered pages, retention | done, proved |
| 10 | `TransferHistory` | former owner's readers over `DeviceTransfer` | planned |

Each `M` that is proved has its theorems in `MProofs`, which section 14
describes; those of `CommandDispatch` and `MqttIngestion`, the two halves of
`MqttManager`, which share `_connected` through the module `MqttManager`, are in
`MqttManagerProofs`.  What comes next is `TransferHistory`.

Each module covers one device (or one account): no transaction of the code
relates rows of two devices, except the unique routing identity, which
`DeviceTransfer` and `ClaimProof` treat as a refusal.  The modules meet where
one uses the promise of another: `ClaimProof` ends where a challenge of
`DeviceTransfer` begins; `AlarmRules` is what happens between two changes of
owner, and `DeviceTransfer` has the adoption that crosses one; `AlarmRules` and
`HistoryRecovery` both send commands and know of `send_command` what
`CommandDispatch` shows of it: it ends with the answer to this command, a
refusal or a timeout, and after a timeout the command may still be executed.
`MqttIngestion` ends where a message is handled; `AlarmIngestion` and
`PowerIngestion` begin there, and what `HistoryRecovery` imports is the page that
`PowerIngestion` commits.

## 3. DeviceTransfer: the ownership of one device

**State.** `role`, `challenges`, `transfers`, `notices`, `alarmOwner`,
`measurements` and `mqttId` are the rows of one device; `generation` and
`proofs` are the device itself (completed physical resets, signed proofs);
`issuing`, `staging`, `worker` and `adopting` are requests that have read
something and do not hold the lock yet.  Rows of other devices are never read
by these transactions.

**Actions.** A transaction that holds the device row's lock is one action
(`CommitIssue`, `CommitStage`, `CompleteTransfer`, `ClaimDevice`,
`AddDeviceMember`, `RemoveDeviceMember`, `PersistMeasurement`).  Whatever the
code does before the lock is an action of its own: `BeginIssue` and
`BeginStage` read the clock (`device_transfer_store.py:75`, `:136`) and the
challenge row, `StartAttest` reads clock, transfer and identity and asks the
broker, `BeginAdoptRules` asks the device for its rules.  A rejected request is
the second disjunct of its commit; `AbandonTransfer` is the rollback of the
worker, for a refusal and for a crash.  `PhysicalReset` and `SignChallenge` are
the device's firmware, known from `verify_reset_proof`; `Tick` is the clock.

**Abstract specification.** `OwnershipEpochs` knows owner, epoch, heir and log
only: an heir is designated, the device is frozen until the heir takes over,
and every record of a later epoch is newer than every record of an earlier one.
`ImplementsEpochs` maps the owner row, the latest completed transfer, the
pending transfer and the attributed measurements to them.

### Runs

| Run | Instance | Shows |
|---|---|---|
| `core` | 3 accounts, 2 requests, 2 challenges, 2 transfers, 2 resets, lock wait 1 | `TypeOK`, `OwnershipChain`, `LatestIsLast`, `ResetUsedOnce`, `NoticesMatchTransfers` |
| `freeze` | 2 accounts, 2 workers, 2 routing identities, 1 transfer, measurements at 2, 4, 5, adoption by both accounts | `EpochsDisjoint`, `AlarmConfigurationOfOwner`, `FrozenWhilePending`, `ImplementsEpochs` |
| `staleclock` | as `core` with one more unit of time | `ArchiveConsistent` is violated (finding 1) |

**Bounds.** Two transfers are the least for which an order of transfers, a
reused reset or a chain of owners exists; three accounts let the second
transfer go to somebody who was not part of the first.  Time is counted in
abstract units; lifetime and delay are 2 or 3 so that a challenge can expire
before, during and after a transfer, and `LockWait` is 1 so that a clock value
can be stale.  `freeze` gives up the second transfer for the actors that race
with the first.  The guards on `MaxChallenges`, `MaxTransfers`,
`MaxGeneration` and `MaxTime` bound the model (section 15 lists all guards that are not in the code).
Deadlock is not checked because a run ends when these are used up.

**Fairness.** None.  The finalizer is called by "deliberately no public route
or scheduler" (`device_transfer_finalizer.py:3`), so nothing obliges a due
transfer to complete and no liveness is claimed.

## 4. ClaimProof: the association proof

**State.** `proof` is the entry of `_proofs`, `consumed` the map
`_consumed_proofs`, `row` the device row with its owner; `window`, `opened` and
`routing` are the device's last pairing window; `request` holds the HTTP
requests that are between two of their steps.

**Actions.** `Register`, `Reserve`, `Release` and `Commit` are the methods of
`ClaimProofStore`, each with the pruning it starts with and a clock that may be
`LockWait` old, because `self._clock()` is evaluated before the lock.
`Publish` is the MQTT handler.  `BeginClaim`, `StoreClaim`, `ClaimFails`,
`ConfirmClaim` and `ReleaseAndAnswer` are `claim_device` cut at the store's lock
and at the database commit; `BeginChallenge`, `ReserveForChallenge` and
`ConfirmChallenge` are `create_transfer_challenge` cut in the same way.

**Bounds.** Two windows let a new nonce replace one that is reserved; three
requests let a third one meet the proof after one has released or lost it;
`MaxTime` of 5 with a lifetime of 3 lets a reservation and a remembered digest
expire.

**Assumption.** `WindowAssumption`, `WINDOW + LockWait < TTL`: the device stops
publishing the digest of a window before a proof of that window can expire
(60 s against `CLAIM_PROOF_TTL_SECONDS` of 120 s).  The device is not part of
the repository; without the assumption a digest that has been forgotten could be
registered again and `SingleUse` fails.

| Run | Shows |
|---|---|
| `proof` | `TypeOK`, `SingleUse`, `AnswersAgree` |

`SingleUse` says of a nonce that one request at most holds its reservation or has
succeeded with it.  `AnswersAgree` has two halves: a reservation always has a
request that will release or commit it, and whoever was told that a claim
succeeded, or that the proof was lost after the database commit
(`devices.py:1022`), owns the device.

## 5. AlarmRules: owner against recovery worker

**State.** `device` and `boot` are the device's rules and boot counter, `wire`
the commands it has not executed yet, `stored` the row in
`device_alarm_configurations`, `request` the owner's requests, `worker` the
recovery worker with its job, `verified` the entry of `_verified`.  Three history
variables follow the owner: `confirmed` is what the owner was told, `missing[q]`
the confirmed rules that are not in the list which request `q` has read, and
`lost` those that are not in the stored list after such a request has written it.

**Actions.** A route reads the row (`BeginRequest`), sends a command, and when
the answer is there writes the row (`Adopt`, `CommitSet`) and then calls
`invalidate` (`Invalidate`).  The worker reads the row and asks the device
(`StartReconcile`), compares (`CompareRules`), reads the row again
(`CheckIntent`), sends one rule (`RestoreRule`), goes on (`RuleRestored`), asks
once more (`AskAgain`, `ConfirmRules`) and records the boot (`RecordVerified`).
`Execute` is the device; `GiveUp` is the timeout of `send_command`, after which
the command may still be executed.  `VerificationExpires` is the age of 300 s.

**Bounds.** Two rules and two contents are the least for which writing the
whole list can lose a change of another rule; two boots give one reset; one
lost command (`MaxDisturbances`) is enough for a late execution in the middle of
another exchange.  The owner has two requests, which may overlap; the first of
them can adopt the row and set a rule as well.  The device begins with the
factory's rules but for rule 0 (`MCSpec`), so that a reset may change a rule
the owner has never set.  That a third request can bring a lost rule back is covered by the
theorems of section 14 only.

**Fairness.** The worker thread and the request threads run, the device
executes what reaches it, a caller gives up when nothing answers
(`send_command` has a timeout), state messages keep coming and a verification
ages.  The owner's requests, resets and losses are not fair.  Weak fairness is
enough because each of these stays possible until it happens.

| Run | Shows |
|---|---|
| `alarmrules` | `TypeOK`, `ConfirmedKept`, `RestoresIntended`, `Reconciled` |

`ConfirmedKept` names the one way to lose a rule that was confirmed: a request
that had read its list before writes that list back (`lost`, section 13).  The
rule stays lost until a list with it is written, and nothing else may lose
one: no adoption, timeout, late command, reset or recovery.

`RestoresIntended` is about the moment the worker decides to write a rule, after
its second read of the row; the command leaves later.  `Reconciled` is what makes
up for the rest: whatever was overtaken in between, device and back end agree in
the end.

## 6. MqttIngestion: connection, queue and status cache

**State.** `retained` is the device's status at the broker; `connection`,
`connected`, `inbox` and `receiving` are the paho client with its network
thread; `queue` and `accepting` are `_ingestion_queue` and
`_ingestion_accepting`; `worker` is the ingestion thread; `cached` is
`_device_statuses` of the device; `stopping` is how far `stop()` has come.
`missed` (the last status was dropped), `events` and `changes` are history.

**Actions.** The network thread connects and clears the cache (`OnConnect`),
disconnects and clears it (`OnDisconnect`), takes a message (`Receive`) and puts
it into the queue or drops it (`Enqueue`).  The worker takes (`Take`), updates
the cache under its lock (`UpdateStatus`) and writes the event after the lock
(`RecordEvent`, which may fail).  An outage that the device reports when it is
back (`Report`, `_handle_outage_message`) only becomes an event.  `stop()` is
`StopNetwork`, `RefuseMessages` and `Poison` or `PoisonTimesOut`.  State
messages only take up room here.

**Bounds.** Three connections let a message of an old connection meet two
clears; three changes let the status return to a former value; a queue of 2
fills up.  The safety properties are proved for all bounds (section 14).

**Fairness.** paho reconnects by itself (`reconnect_delay_set`) and both threads
run.  Losses of the connection, changes and `stop()` are not fair.

| Run | Shows |
|---|---|
| `events` | `IngestionTypeOK`, `EventsAreChanges`, `WorkerEnds`, `StatusRebuilt` |

`StatusRebuilt` names the one exception of the comment at `mqtt_client.py:239`:
a retained status that arrives while the queue is full is dropped (`:328`), and
nothing asks for it again before the next connection or change.  `WorkerEnds`
includes that nothing received is left in the queue, which holds because `stop()`
ends the network thread before it tells the worker (`:1919`).

## 7. HistoryRecovery: importing what a device recorded on its own

**State.** `newest`, `acked`, `outages`, `online` are the device; `message` is a
state message in the queue, `late` the acknowledgements whose sender gave up;
`ledger` is the set of sequences in `local_history_records`; `job` is the
pending request and the run on it, `completed` the entry of
`_completed_markers`, `waiting` the retry delay of 30 s.

**Actions.** `Schedule` is `handle_device_state`; `FetchPage`, `PersistPage`
and `AckPage` are one turn of the loop over pages, cut at its two commands and
at its database commit; `RunFails`, `RunTooLong` and `RetryDelayEnds` are its
errors and the retry; `RestartBackend` forgets everything but the ledger;
`LateAck` is an acknowledgement executed after its timeout.

**Bounds.** Pages of 2 and at most 2 pages per run: five records need three
pages and therefore two runs, and a page can be partly imported.  The code has
pages of `HISTORY_PAGE_LIMIT` and 256 pages per run.  One outage gives two
counter values, so that it can begin while an earlier backlog is recovered; one
failure and one restart let a run be repeated from each of its steps.

**Fairness.** A device that lost its connection reconnects and publishes its
state periodically; both threads run; a command to a device that is offline
times out; the retry delay ends.  Failures and restarts are not fair and are
bounded.

**Abstract specification.** `HistoryImport`: records are produced, the
imported ones are always a prefix that only grows, and only imported records
are acknowledged.  `ImplementsImport` maps `newest`, `ledger` and `acked` to it.

| Run | Shows |
|---|---|
| `import` | `TypeOK`, `AckFollowsCommit`, `ImplementsImport`, `BacklogImported` |

Left out: a device that overwrites records before they are acknowledged and a
device that starts its sequence again, which only its firmware decides (the
ledger of its earlier records, `local_history_recovery.py:323`, would then take
new records for imported ones); a record that the validation refuses, which ends
a run like a database failure.

## 8. AlarmIngestion: alarm occurrences

**State.** `boot`, `ready` and `rule` are the device; `message` is a state
message that was not handled yet; `signature` is
`_alarm_snapshot_signatures` of the routing identity; `status` and `acked` are
the rows of `alarm_occurrences`, addressed by the columns of their unique
constraint; `ack` holds acknowledgements that have read their row.  `happened`
(activations the device had) and `taken` (how complete the snapshot was that set
the signature) are history.

**Actions.** `PersistAlarmSnapshot` is `_persist_alarm_snapshot` with the whole
of `ingest_alarm_snapshot`: the repeat, the unknown device, the transaction, its
failure.  `BeginAcknowledge` and `CommitAcknowledge` are the route, cut between
its read and its commit.  `Claim` makes the device known, `RestartBackend` loses
the signature.  `RuleMoves`, `RuleDisabled`, `Reboot` and `BecomeReady` are the
firmware as the snapshots and the tests show it: the counter moves with
activations and clearances and starts again at a reboot.  An item that does not
validate only makes a snapshot incomplete, which a snapshot that is not ready
stands for.

**Bounds.** One alarm: items of different alarms only meet in the signature.
Three transitions give two activations in one boot, two boots an activation with
an old counter value; one disturbance (a failed transaction or a restart) is
enough to part signature and rows.

**Fairness.** The device finishes its self test and publishes its state
periodically; of the snapshots some arrive, hence strong fairness of the
handling; failures and restarts are bounded.

| Run | Shows |
|---|---|
| `occurrences` | `TypeOK`, `RowsFaithful`, `Followed` |

`RowsFaithful` is one action property: one open occurrence per alarm, a new row
only for an activation the device had, and no row moves back.

`Followed` carries the condition that the snapshot behind the signature was
complete and found the device row.  The second half matters too: a device that
publishes before its first claim leaves a signature behind, and an alarm that was
active then is recorded only when its items change.

## 9. CommandDispatch: commands to a device

**State.** `connected` and `status` are what the network thread and the worker
keep; `pc`, `asked`, `read` and `outcome` are the threads that call
`send_command`; `pending` is `_pending_responses`, with the event, response and
`contract_error` of each entry; `wire` and `answers` are messages on their way;
`did` (what the device did with a command) is history, `audit` the
command events.  A call is named by its `request_id`, which the code draws
as a fresh UUID.

**Actions.** `Authorize` is everything before `send_command`: the roles of
`device_authorization.py`, the allowlist of the services and the confirmation of
critical commands.  `CheckConnected`, `CheckOnline`, `Register`, `Publish`,
`RecordDispatch`, `WakeUp` or `TimeOut`, `CheckContract`, `ReadResponse`,
`RecordResult` and `Leave` are `send_command` cut wherever the network thread can
run in between; `Leave` includes its `finally` and the answer of the route.
`Deliver` is the response branch of `_on_message` under `_pending_lock`.
`Disconnect`, `Connect` and `GoesOffline` are the callbacks and the last will.  A
command that had reached the broker when the connection is lost may still be
executed; the session is a clean one (`mqtt_client.py:162`), so that answers sent
meanwhile are lost.
`Execute` and `Stray` are the device: it answers, or not, once or twice, soundly
or malformed, and another device may use the same `request_id`.

**Abstract specification.** `RemoteCall` is the promise to a caller.  The 403, 409
and 503 answers map to "refused" (the command never runs and may be sent again), the
504 and the contract errors to "unknown".

| Run | Instance | Shows |
|---|---|---|
| `commands` | 2 calls to one device (`restart`, `get_config`) or to two (`get_history`, `ping`), 1 loss, 1 stray answer | `TypeOK`, `AuditAgrees`, `TableIsCalls`, `PromiseKept`, `CallsEnd` |

**Bounds.** The four commands have the four kinds of policy
(`COMMAND_POLICIES`: critical, protected, of low risk, allowed to a service).  Two
calls are the least for which an answer can meet the entry of another call, and
one stray answer can come before, between or after every step of its call.

**Fairness.** Every thread runs, and `event.wait` ends by its timeout.  Neither the
wire nor the device owes an answer, and nobody has to call.

## 10. Accounts: codes and sessions of one account

**State.** `account` and `active` are the `users` row, `row` the
`email_verifications` row with its counters and windows, `sessions` the
`auth_sessions` rows by order of insertion; `holder` and `rowLock` are the row
locks of open transactions; `mailed` is the mailbox; `guesses` (wrong codes since
the registration) and `parent` are history.

**Actions.** A transaction is cut where another one can run: `register` is
`BeginRegister`, `InsertAccount`, `MailSent` or `MailFails`, and `CommitCode`;
`resend_verification` is `BeginResend`, `LockRow` or `InsertRow`, and goes on with
the mail in the same way; `verify_email` is `BeginVerify` and `CommitVerify`;
`login` is `BeginLogin` and `CommitLogin`; `refresh` is `LockSession` and
`Rotate` or `RevokeAll`; `Logout` is one statement and its commit.  `now` is
read when a request begins and used after the lock was granted.  A mail service
may deliver and fail all the same (`MailFails`).  `RevokeAll` follows READ
COMMITTED: the rows the `UPDATE` found when it started (`live`), looked at again
when their locks are free.  `Abort` is any statement or commit that fails, a
process that stops, and a deadlock that PostgreSQL breaks.

| Run | Instance | Shows |
|---|---|---|
| `accounts` | 5 requests, 3 codes, 5 sessions, 4 moments | `TypeOK`, `CodeWasMailed`, `GuessesBounded`, `TokensUsedOnce` |

**Bounds.** Five requests let a registration be followed by a guess, a resending
and a second guess with one request to race them; or two logged-in devices, a
rotation, a second use of the old token and a login.  The limits are
scaled down (two guesses in a window of 2, two mails in a window of 3, a cooldown of
1, a code valid for 2) so that each of them ends within the run;
the code has 5 guesses in 15 min, 5 mails in 60 min, 60 s and 10 min.  The
requests are interchangeable (`Symmetry`), and no liveness is checked.

**What the bound on guesses is.**  A window of failures starts with a wrong code
and lasts `FAILED_WINDOW` from that code, so that an arbitrary interval of that
length can see the end of one window and all of the next: no interval has the
bound `MAX_FAILED`.  `GuessesBounded` says what the code does ensure over the whole
life of a registration: every `FAILED_WINDOW` that has begun allows `MAX_FAILED`
wrong codes, over all resendings and with clocks that were read before a lock.

## 11. PowerIngestion: samples, summaries, retention

**State.** `route` gives the devices their routing identities; `cache` is
`_power_ingestion_cache` by routing identity and `checked`
`_daily_summary_checked_date`; `stored` and `summary` are the tables
`power_measurements` and `power_daily_summaries` of each channel; `worker` is the
ingestion worker in its pass over the completed days, `page` the recovery worker
with its uncommitted page.  A sample is its timestamp and a summary the set of
samples it was computed from, so that a summary that lacks a sample is visible.
`sampled`, `straddled`, `foreign` and `left` (identities that devices gave up since
the last start) are history.

**Actions.** `StateMessage` is `_persist_channel_measurement`: the sample is too
close or too old (`SkipSample`), stored (`StoreSample`), already imported
(`DuplicateSample`, SQLSTATE 23505), or its transaction fails or commits without
an answer (`StoreFails`).  The first sample of a new date starts the pass:
`ReadDay` and `InsertSummary` are one turn of `summarize_completed_days`, `Clean`
is `cleanup_channel_history`, `PassFails` its errors.  `InsertPage`, `RebuildDays`
and `CommitPage` or `PageConflicts` are `persist_page` and
`rebuild_completed_day_summary` in their one transaction; the rows of the page
are invisible, but locked by their unique key, until the commit.  `Claim` gives
a device the routing identity it has proved.  `RestartBackend` forgets what is in
memory.

| Run | Instance | Shows |
|---|---|---|
| `power` | 1 device, 7 moments in days of 2, 1 page of 2, 1 fault | `TypeOK`, `SummariesCount`, `SamplesSpaced`, `SummarisedBeforeDeleted` |
| `rerouted` | 2 devices, 2 routing identities, 3 moments | `MeasuredByDevice` is violated (finding 2) |

**Bounds.** Three complete days are the least for which a day is summarised,
kept, and outlives its samples; days of two moments let a message or
a page begin on one day and end on the next.  Two days of retention stand for 90
(samples) and 365 (summaries), an interval of 2 for 60 s.  One page is enough to meet
the worker in each of its steps.

A page whose samples of a completed day are all gone when it rebuilds that day
deletes the summary (`power_daily_summary.py:377`).

**Assumption.** `RetentionAssumption`: messages, passes and pages are short against
the retention.  `Delay` is the age a state message can have when it is handled,
`Duration` the time a pass or a page can take.  A message is handled, and its
pass ends, before samples of its age are deleted; two passes or pages one after the
other are shorter than the retention without its last day; none of them takes
longer than a day.  The code has 90 days against a queue that a worker
empties in seconds, but it bounds none of these times itself.

**Exceptions named in the properties.** `SummariesCount` excepts the samples whose
storing began on one day and ended on the next (`straddled`): `persist_page` reads
the current date at its start (`local_history_recovery.py:243`) and does not
rebuild the summary of that date, and a state message of the evening may be handled
after midnight.  `SamplesSpaced` is about the samples whose storing the worker
knows of (`sampled`): when the answer of a commit is lost, the cache keeps the
older time and the next sample may be closer than the interval.  A claim that
changes routing identities has the same effect on the samples of both devices
(finding 2), hence the one device of `power`.

## 12. Findings

1. `staleclock`: `stage_verified_transfer` reads its clock before the lock.  A
   request that waits while another account's transfer completes is stored with
   `requested_at` no later than that transfer's `effective_at`, and
   `_completed_ownership_epochs` (`device_transfer_archive.py:80-90`) then
   refuses the archive of every former owner as inconsistent.
2. `rerouted`: a claim may change the routing identity of a device
   (`devices.py:895`), "sans modifier l'identité physique de l'appareil"
   (`docs/SM-071_Documentation_Consolidee.md:187`), but the cache keeps the
   channel it has found for a routing identity for the life of the process
   (`ingestion_cache.py:68`, `mqtt_client.py:1034`).  When A has been claimed with
   a new identity and B with A's old one, the samples of B are stored in A's
   channel until the back end restarts.

## 13. Known limits of the code

What the models show, or what was met while writing them, and no run is kept for:

- Two requests of the owner for different rules at once: `set_alarm_rule` builds
  the new list from the row it read before the device command
  (`device_alarm_configuration.py:148`, `:165`) and writes it whole, so one
  of two confirmed rules is lost, and the recovery then enforces the loss on the
  device.  The run `alarmrules` goes through these states; `lost` names them in
  `ConfirmedKept` and `RestoresIntended`, which hold for every other rule.
- The recovery worker reads the row again before each rule, but its command
  leaves after that read and without a lock (`alarm_rule_recovery.py:184`); a
  change acknowledged in between is undone on the device until the next
  comparison (`Reconciled`).
- The connection callbacks clear the statuses (`mqtt_client.py:236`, `:1869`), and
  the worker may put a status that was queued before the loss into the cleared
  cache (`:839`), where it stays until the retained status of the new connection
  is handled (`StatusRebuilt`).
- The comparison that skips repeated snapshots (`mqtt_client.py:946-958`) leaves
  `ready` and the unknown device out.  A complete snapshot with the items of an
  incomplete one before it does not close the occurrences of disabled rules
  (`alarm_service.py:187`); an alarm that was active before the first claim is
  recorded only when its items change.  Hence the condition of `Followed`.
- A page that imports late samples of a day whose other samples the retention has
  already deleted replaces the full summary of that day by one of what is left.
  The ages that a device's own memory reaches are not in the repository;
  `SummariesCount` is about the samples that are stored.
- A response payload that is JSON but no object raises an `AttributeError` in the
  network callback (`mqtt_client.py:448-464`) instead of becoming a contract
  error; the caller then gets a timeout.  A malformed answer of the model is an
  object that does not validate.
- With `SM015_TRANSFER_STAGING_ENABLED`, `persist_page` is refused, so a device
  under transfer rules gets its samples from state messages alone.
- The live state shows a missing value from an earlier message for 15 s
  (`device_live_state.py:82`), also across a change of owner.

## 14. Proofs

### DeviceTransferProofs

`Inductive` proves `Spec => []IInv` for all values of the constants.  `IInv`
is `TypeInv /\ Structure /\ MeasurementsTimely /\ AdoptionsTimely /\
AlarmConfigurationOfOwner /\ ResetsHappened /\ ResetUsedOnce /\
NoticesMatchTransfers`.  `OwnershipChain` alone is not inductive: that the last
row completed is also the one with the greatest `effective_at` needs the
timing of the requests in flight (`RequestsTimely`: a clock read for a lock is
at most `LockWait` old) and of the rows (`TransfersTimely`: a row's deadline
lies after its predecessor's switch); that no adoption survives a transfer
needs `AdoptionsTimely`.  The other theorems follow from it: `TypeCorrect`,
`ChainCorrect`, `LatestCorrect`, `ResetCorrect`, `EpochsCorrect`,
`AlarmCorrect`, `NoticesCorrect`, the action property `FrozenCorrect` and the
refinement `Refinement`.

Assumptions: `ConstantsAssumption` (types), `NoneIsNoRequest` (NULL is not a
request) and `LatencyAssumption`,
`LockWait + CommandTimeout < TRANSFER_DELAY`.  The code has 5 s for a device
command and 60 s for the delay; nothing in it bounds the lock wait, so the
assumption says what the operators must keep true, and `LatestIsLast` and
`AlarmConfigurationOfOwner` are false without it.

Only model-checked: `ArchiveConsistent`, which the run `staleclock` refutes.

### HistoryRecoveryProofs

`Inductive` proves `Spec => []IInv` for every page size, page limit and bound.
`IInv` is `TypeOK /\ PrefixClosed /\ AckFollowsCommit /\ RunCommitted /\
PageInside /\ MessagePast /\ OutagesBounded`.  `AckFollowsCommit` alone is not
inductive: that the page just committed leaves no hole needs the ledger to be a
prefix (`PrefixClosed`) and everything up to the cursor of the run to be in it
(`RunCommitted`), which in turn needs the cursor a run starts from to be an
acknowledgement the device once had, also when its state message waited in the
queue (`MessagePast`); that a page stays inside what the device has recorded is
`PageInside`.  `OutagesBounded` and `TypeOK` keep the counters in their sets.
From it follow `TypeCorrect`, `AckCorrect` and the refinement `Refinement`: a
commit of a page that is already in the ledger is a stutter, any other one
extends the prefix.

`MarkerCorrect` proves `CompletedImported`, about the two places that write
`_completed_markers`, the end of a run and a state message without backlog: the
marker of the last outage is there only when everything recorded when it ended
is imported, or else the recovery of these records would never be tried again.
Its invariant is a second one, `MInv`, on top of `IInv`: a state message that
carries the marker of the last outage was published after it (`MessageMark`), so
that the last page of a run with that marker, the one the device says nothing
follows, reaches what the marker stands for (`JobMark`); what is committed when
the run ends is then `IInv`'s business. The next outage makes the equalities
vacuous, since its end has a marker no message, run or completed entry has.

The only assumption is `HistoryConstants` (types; page size and page limit are
not zero).

### MqttManagerProofs

**Commands** (`CommandDispatch`).  `Inductive` proves `Spec => []IInv` for any
number of calls, devices, losses and stray answers.  `IInv` is `TypeOK`, the
invariant `CallInv` of each call, and `AnswersTrue`.  `AuditAgrees` speaks of
the end of a call; what leads there is kept by the parts of `CallInv`: a refused
command has not left (`SentOnce`), an entry is in the table while its call is
under way and holds what the addressed device answered (`EntryTrue`), a thread
has read nothing else (`ReadTrue`), and nothing is recorded before it was read
(`AuditSoFar`).  `AnswersTrue` is about the wire: a sound message of the
addressed device with the `request_id` of a call is its answer to that very
command, which is why the check of topic and device on arrival is enough.
`TypeCorrect`, `AuditCorrect` and `TableCorrect` follow, and `Refinement`: each
step of `send_command` is a stutter or one step of `RemoteCall`; the lemma
`TellStep` is what `Leave` and the refusals have in common. `NoneIsNothing`
(NULL is none of the values it stands beside) and `DispatchConstants` (types)
are the assumptions.

**Ingestion** (`MqttIngestion`).
`StatusInvariant` proves `IngestionSpec => []StatusInv` for any size of the queue
and any number of connections, changes and reports; the only assumption is
`IngestionConstants` (types; the queue has room for one message, NULL is no
message).  `IngestionTypeOK` follows.  The hard one is `EventsAreChanges`, which
counts what the device did against what the worker recorded, with a queue, two
threads and clears of the cache in between.  `StatusesAged` is what makes it
inductive.  Every status on its way (in the broker's messages, the network
thread, the queue, the worker's hand, the cache) is the status the device had
some number of changes ago, its age; ages fall from the cache towards the
broker, a clear or a lost message does not raise one, and a change of the device
makes all of them one older.  Between the age of the cache and now the device has
come online `Turns` times, so that events recorded, an event about to be
recorded and turns still to come are together no more than the changes.  An age
is a number in a function over the places of the queue, hence no recursion over
the queue is needed.  `OutagesCounted` is the same for outages, which are
recorded whatever the cache says.

`NewestTrue` says that the newest status on its way is the device's own as long
as the queue had room for it, which gives `CacheCorrect`: once nothing is on its way the
cache is right.  `StopTrue` says that the network thread has ended before the worker
is told and that nothing is queued behind its `None`, which gives `StopCorrect`.
These two are what `StatusRebuilt` and `WorkerEnds` add to the progress of the
threads.  A status that the worker holds when the connection is lost is
stored after the clear; it has an age like any other, so that the comparison with
the next one is still a change the device made.

### AccountsProofs

`IInv` has three independent parts over `TypeOK`.  For `CodeWasMailed`: the
transaction that holds the verification row is the one that is mailing, and it
commits the code that left (`LetterTrue`).  For `GuessesBounded`: `Rationed`,
which splits the guesses into those of the current window of failures
(`attempts`) and those of earlier ones, at most `MAX_FAILED` for each
`FAILED_WINDOW` before `failed_attempts_window_started_at`; it needs that a full
window is locked until it is over, and that `now` of a request is never ahead of
the clock.  For `TokensUsedOnce`: `Chains` (sessions are inserted one after the
other, and the parent of each is revoked) with `SessionTrue`, by which a request
that rotates a session holds its lock and has found it active.
The theorems are `CodesCorrect`, `GuessesCorrect`, `TokensCorrect`.  Assumptions: the
types of the limits (`AccountConstants`, the windows are not zero) and `NoneIsNothing`.

### ClaimProofProofs

`SingleUse` says nothing of a nonce that nobody holds.  What is inductive is that nobody
can get it any more: `Taken(n, r)`, by which the store has `n` only for `r`, and, when
`n` is the nonce of the current window, that window is `Closed`: its proof is in the
store, its time is over, or the remembered digest outlives it.
`WindowAssumption` enters twice: a proof that is registered outlives its window
(`StoreTrue`), and so does the digest that a commit remembers (`Closed`).
`RequestInv` also has the
agreement of store and routes and the owner a request has stored, from which
`AnswersCorrect` follows.

### PowerIngestionProofs

`SummariesCount` is inductive together with `WorkerTrue` (what the pass has read
of a day is what is stored of it, as long as nobody else has summarised the day),
`PageTrue` (what the page has rebuilt covers what is stored of the day) and
`CompletedOnly` (only past days have a summary), which keep a summary and a
sample of one day from crossing each other.  `SummariesCorrect` and the action
property `DeletionCorrect` follow; for the latter `WorkerTrue` says of the days
the pass has gone by that each sample has a summary or does not expire before
the pass is over (`Safe`).

The proof of `DeletionCorrect` corrected `RetentionAssumption`: a bound on the age
of a message and on one pass alone is not enough.  A page that began before
midnight does not rebuild its own day; when it commits behind a pass that
has already gone by this day, its samples have no summary, and a pass and a page
that are long enough together let that pass delete them.  TLC finds this with `Delay = 0`,
`Duration = 2` and two days of 2 under the weaker assumption.

`SpacedCorrect` proves `SamplesSpaced` under `[][KeepsRoute]_vars`: no device
changes the routing identity it has.  Without this condition it is false (TLC: two
devices that exchange their identities), for the same reason as finding 2.  The
invariant `Spacing` has what the cache and the table know of the samples that the
worker stored (`CacheKnows`, `StoredKnows`); a sample that only the retention
can have deleted is too old to be close to a new one.

`AttributionCorrect` has no such condition.  `MeasuredByDevice` is false, and the
theorem bounds the damage: every step that puts a sample into the channel of
another device (`MisplacedByCache`) is the worker's, for a device that
has the identity `i` now, and it uses a cached entry of a device that had `i` and gave it
up since the back end started.  A claim, an import, a failure or a
restart never misplaces a sample, and neither does a lookup in the table.  The
invariant is `RoutesApart` (identities are unique) with `CacheRoutes` (an entry of
the cache is for the device that has the identity, or that gave it up since the last
start), which each claim has to keep although it moves an identity under the cache.

### AlarmIngestionProofs

`RowsCorrect` proves the action property `RowsFaithful` for any set of rules.
`IInv` is `TypeOK /\ DeviceTrue /\ MessageTrue /\ OneOpen /\ RowsTrue`: an alarm that is on was
activated with the counter it has, so that a snapshot shows only activations
that happened (`MessageTrue`), however late it is handled and whichever boot it
is from; and the code's search for an open row before it inserts one, with the
rows it supersedes, leaves one open row (`OneOpen`).  `StepInvariant` proves both
the invariant and the action property, since a step that opens a row needs the
same case distinction for either.

`RowsTrue` is the agreement of the signature cache with the rows: as long as the
device was known, the open rows of an alarm are those the remembered snapshot
shows, for what it lists and, when it was complete, for what it does not.  It
survives a failed transaction because `Forget` keeps the older signature with
the older rows, and a restart because the cache is then empty.  `RepeatsCorrect`
and `FollowedWhenTaken` follow from it.  The former says that a snapshot that is
skipped as a repeat would have opened and closed nothing, under the condition of
`Followed`; the latter is the safety half of `Followed`: in a state in which the
last complete snapshot that was taken is what the device has, the open
occurrences are its alarms.

The assumption `NoneIsNothing` says that NULL is neither an item nor a signature.

### AlarmRulesProofs

`TypeCorrect` holds for concurrent requests as well; its invariant `TypeInv` says
which commands, requests and jobs the routes and the worker leave behind
(`Sent`, `Asked`, `Given`).  `ConfirmedCorrect` and `RestoresCorrect` hold for
any number of requests that overlap as they like, with any number of
rules, restarts and lost commands.  The invariant adds `ReadsKnown`: the list
that a request will write has every confirmed rule but those in `missing`, the
rules confirmed since it was read or already lost then.  Adoption (`AdoptKept`) has to show
that nothing was confirmed before there was a row; `CommitSetKept`, that the
written list lacks exactly what `lost` then names, and every list still to be
written one rule more than before.  The
worker's part is that it reads the row and never writes it, so that its second
reading (`CheckIntent`) compares with a list to which `ConfirmedKept` applies.

### What is only model-checked

Liveness (`BacklogImported`, `Reconciled`, `StatusRebuilt`, `WorkerEnds`,
`Followed`, `CallsEnd`) is out of the prover's reach; of `StatusRebuilt`,
`WorkerEnds`, `Followed` and `BacklogImported` the safety half is proved.
`ArchiveConsistent` and the unconditional `MeasuredByDevice` are violated, and
have no theorem.  Every other safety property of the runs has one.
`CompletedImported`, `RepeatsSayNothingNew`, `UpToDate` and the safety halves in
`MqttManagerProofs` are stated beside their proofs and belong to no run.

## 15. Not modelled

- Live state: a view in memory of the last messages; no decision but the displayed
  availability depends on it.
- History and energy queries: SQL that only reads.
- Tariffs: the upsert of one row per device.
- Passwords, access tokens and the sliding windows of `rate_limit.py`, which
  only refuse a request before it begins.
- The arithmetic of summaries and of energy, values and severities of alarms, the
  contract of measurements (it decides which samples arrive), signatures of commands.
- Wording of notices, mail, identifiers and their parsing, the topic and payload
  checks of `mqtt_security.py`, wiring and settings, schema migrations, the tools
  under `src/tools`.
- `start` and `stop` of the recovery workers and the spacing of attempts of the
  alarm worker.
- The former owner's history queries; only the check of the chain they rely on is
  part of `DeviceTransfer`.

The guards that are not in the code are these.  Those on constants named `Max...`
bound a model.  `Tick` of `DeviceTransfer` and `PowerIngestion` and `Now` of
`ClaimProof` state how long a wait, a command, a pass or a page can take
(`LockWait`, `CommandTimeout`, `Duration`; see `LatencyAssumption`,
`WindowAssumption` and `RetentionAssumption`), and `StateMessage` how old a message
can be (`Delay`).  `PersistMeasurement` of `DeviceTransfer` requires
`at <= now`: the code accepts the timestamp of any synchronised device
(`mqtt_client.py:1701`), whose clock is taken not to be ahead; a clock that is ahead
by less than the pending period of a transfer changes nothing.

Deadlock is not checked because a behaviour stops when the `Max...` bounds are used up (and, in `MqttIngestion`, because `stop()` ends it).
