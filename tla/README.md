# TLA+ verification of nexguard-sentinel

Specifications, model-checking configurations and machine-checked proofs for the
parts of the repository that decide something: the sentinel's SQLite state store,
the controller that watches, backs up and recovers the gateway, the two contracts
with their deployment script, and the subgraph mapping.

Check a run with `tlc -config <cfg> <module>`, the proofs of a component with
`tlapm <component>Proofs.tla`.

## The system

| part | state | operations | interacts with |
|---|---|---|---|
| **StateStore** `sentinel/store.py` | tables events, cursors, incidents, intents, intent_events, latch, outbox, audit | ingest, reserve, prepare, broadcast, finish; getters | several processes share one SQLite file, one connection per call |
| **HealthMonitor** `health_monitor.py` | next deadline | check_once, run | GET /health of the gateway; awaits the runtime's callback |
| **IncidentManager** `incident.py` | consecutive failures, open incident | record_failure, record_success | called from the callback |
| **ControllerRuntime** `main.py` | time of the last backup, notification tasks | handle_health_result, close; lifespan | everything below |
| **RecoveryManager** `recovery.py` | attempts in the window, last attempt, status | attempt_recovery | backups, Docker, gateway |
| **Backups** `backup.py` | files: pairs config + checksum, manifest | create, prune, list, latest, verify | shared volume other programs may write |
| **DockerManager** `docker_manager.py` | none (allow-list) | restart_container, wait_for_running | Docker daemon, in a thread |
| **Config checker**, **gateway simulator** | none: the file is read every time | check_config, load_config, GET /health | the live config file |
| **Notifier** `notifier.py` | none (its tasks are kept by the runtime) | send_async | Telegram |
| **Guardian**, **DemoVault** `contracts/src` | paused, keepers, used references; credits; the event log | setKeeper, pause, unpause; faucetCredit, withdraw, unsafeWithdrawFrom | the vault reads paused() |
| **Subgraph** `demo-vault.ts` | Withdrawal entities | handleWithdrawal | called by graph-node for each event |
| **Deployment** `contracts/deploy.py` | evidence file | main | RPC node, the deployer's account |
| Metrics, settings | collectors, values read once | observe | nothing depends on them |

What is hard here:

* *store*: callers in different processes meet between the statements of a call;
  a process dies between commit and return; a statement fails half way; an event
  is delivered twice, changed, or late; outcomes are reported twice or too early;
  numbers meet a 64-bit column on one side and a text column on the other.
* *controller*: one asyncio task does everything, so each `await` is a point where
  the config file, the container, Docker or the network may be different
  afterwards; limits in memory, counted in sliding windows; a recovery that runs
  inside the check loop; exceptions nobody catches; a shutdown that meets
  unfinished notifications or a monitor task that has already died.
* *backups*: seven file operations per backup, each of which may be the last one
  before a crash or raise an error; names given by a clock that may step back;
  a file read twice, once to verify it and once to install it.
* *chain*: calls of all accounts in the order the chain gives them; blocks that are
  taken back; transactions of a run that gave up and are mined after all.

`PROJECT.json` lists each of these hazards at its line with the properties that
would catch it.

## Modules

```
DecimalText <- StateStore <- StateStoreProofs
                   ^  ^---- MCStateStore
                   | INSTANCE (committed tables, writer's tables)
               StoreTransactions <- StoreTransactionsProofs, MCStoreTransactions

RecoveryLimiter
      ^
  Controller <- ControllerProofs, MCController
      | INSTANCE (backups)
  BackupVault
      ^ INSTANCE (complete pairs by name)
  BackupFiles <- BackupFilesProofs, MCBackupFiles

Guardian <- DemoVault <- DemoVaultProofs, MCContracts
Notifications <- NotificationsProofs, MCNotifications
Deploy <- DeployProofs, MCDeploy
Subgraph <- SubgraphProofs, MCSubgraph
```

**DecimalText** `str` and `int` between a number and the sequence of its digits.
Sequence positions are stored as TEXT, so the conversion is part of the model.

**StateStore** is the promise of the store: one atomic action per method that
writes, its guard the conjunction of the conditions under which the method
writes. A call that returns False or raises changes nothing and is a stuttering
step. A table is a function from the keys present to rows. `Storable` is the
64-bit limit at which sqlite3 raises. `MaxAudit` bounds the audit trail; every
transition appends one row, so it bounds behaviours.

**StoreTransactions** is the same code one SQL statement per action. Each caller
has a program counter; `writer` is SQLite's write lock (BEGIN IMMEDIATE), `work`
the tables as the lock holder sees them, `db` the committed ones. `Raise` is the
rollback of `_transaction`, `StorageError` an sqlite3 error at any statement
(commit included), `Busy` the 10 s lock timeout, `Crash` the death of a process,
also after the commit and before the return. `answer`, `ok` and `crashed` record
what callers were told, so that properties can speak about it. The refinement
mapping is the identity on `db`: `ImplementsStore == Store!Spec`.

**RecoveryLimiter** is `attempt_recovery` up to "recovery_started": pop expired
attempts, refuse, give up, defer or start, in the order of the code. `starts` is a
history variable with every attempt of the process; `Forget` is a new process.

**Controller** extends it with the monitor task. `pc` is the place in the code;
each step is the code between two awaits, cut again where a file that other programs
write is read a second time: the live config (`CheckConfig`, then the backup's own
read) and the backup to restore (`Restore` verifies it, `Install` reads it again).
Backups are taken with the operators of `BackupVault`, one step each. A step is due
between `wake` and `due`, and time cannot pass `due`: time is spent where the code
awaits and nowhere else. The environment (`WriteConfig`, `StopOrStartContainer`,
`ChangeDocker`, `ChangeNetwork`, `DamageBackup`, I/O errors, `RestartController`)
acts at any step; `MaxChanges` bounds how often, `MaxTime` the clock. Contents of
the config file are `Good`, `Bad` or `Unloadable` (YAML on which the loader raises
a plain ValueError); a backup may be damaged in its YAML half or in its checksum, so
that the checksum is no text. An exception nobody catches takes the task to `dead`.
`planned`, the deadline the check at hand was due on, and `completed` are history.

| action | code |
|---|---|
| `Wake`, `CheckOnce`, `SleepUntilDeadline` | `HealthMonitor.run`, `check_once` |
| `CheckConfig`, `HandleHealthy`, `HandleUnhealthy` | the three parts of `handle_health_result` |
| `Backup`, `TakeAndPrune` | `create_backup`, `_prune_backups` (through `BackupVault`) |
| `GiveUp`, `Defer`, `Start` | `attempt_recovery`, lines 119-142 |
| `Restore`, `Install` | `get_latest_backup` and `verify_backup`; the second read and the replacement in `restore_backup` |
| `RestartContainer`, `WaitForRunning`, `Probe`, `ProbeAgain` | the rest of `attempt_recovery`, `DockerManager` |
| `Succeeds`, `Fails` | the end of `handle_health_result` |
| `RestartController` | `lifespan` of a new process |

`HandleUnhealthy` skips `Refuse`, as the runtime tests the status before it calls
`attempt_recovery`; the theorems about the limiter cover `Refuse` too.

**BackupVault** is what the controller relies on: a list of pairs, oldest first, that
only snapshots of valid configs enter and only the oldest beyond the retention
count leave; `outside` counts what other programs did. Its operators are the
controller's backups; that the files really behave so is `ImplementsVault` of
`BackupFiles`.

**BackupFiles** is `backup.py` and `restore_backup` one file operation per action.
`yaml` and `sums` are the two halves of the pairs by name, a name is the clock value
it was made of, a digest is the content it was computed from. The locals of the
call are variables, and `Leave` forgets them. `IOError` raises at any operation and
runs the except clause the code is in, `CleanUpFails` raises in the except clause
as well, `Crash` runs nothing. `Damage` (the YAML file), `GarbleChecksum` (the
checksum file is no ASCII text any more, which `_write_manifest` cannot quote:
`ManifestFails`), `Lose` and `WriteConfig` are other programs. `litter` counts temporary files nobody will remove; `taken`, `call` and
`raced` are history.

**Notifications** is the life of the notification tasks and of the controller
process: `lifespan` as a state `life`, the monitor task as a state `monitor` (what
it does is `Controller`; `MonitorDies` is its `dead`), each notification a task that
nothing but `_notification_tasks` refers to.

**Guardian**, **DemoVault**: one action per external function, the caller a
parameter. `log` is the list of emitted events; most properties are read off it,
because the log is all an auditor sees. The hash references are model values, the
uint256 is cut to `MaxUint` with the same checked arithmetic.

**Subgraph**: `Mine` and `Reorganise` are the chain, `IndexBlock` and `RevertBlock`
what graph-node does with a block, `Saved` what `handleWithdrawal` writes.

**Deploy**: the script as a program counter; `Abort` is any way it stops (timeout of
a receipt, revert, failed check, death), after which the operator runs it again.
`pool` and `mined` are the account's transactions by nonce; a contract's address is
determined by the nonce that created it, so addresses are nonces. `code` is what
the node that answers reads has seen.

## Runs

| run | what is asked | bounds |
|---|---|---|
| `store` | the life of intents: one unfinished action, events owned once, uncertainty latches, receipts behind hashes, audit and outbox; cursors | 3 intents, incidents and events, 2 sources, positions 9 and 10 (and -1, refused), 10 transitions: three complete lives, or two and repeated reports; blocks and nonces on both sides of the column's limit |
| `store_contention` | two callers over the same events: the tables implement `StateStore`, answers hold, a reservation is won once | 9 calls that meet (replay, conflict, older position, unknown event, reused incident), 5 per behaviour |
| `store_lifecycle` | two callers retry one intent's transitions: each transition on record is one call; whoever takes the write lock gives it back | 7 calls, 5 per behaviour: a full life; files of version 0, 1 and 2 |
| `controller` | limits, incidents, backups and what is installed, under changes at any step; a repair is not overwritten; a late check is explained by the attempts not yet caught up with; repaired within `RecoveryBound` of the last change, or given up and hands off; backed up within `RefreshBound` | 2 changes, two valid configs, one bad, one unloadable; retention 2; two full windows of time, enough for three backups, giving up and checks after it; the bounds are 8 and 12 of 22 units of time |
| `controller_cooldown`, `controller_unloadable`, `controller_backup_dir` | three statements of the documentation and the tests the code does not keep | the default settings in units of 5 s; one change is enough for the last two |
| `backup_files` | retention and manifest after any earlier interruption, files left behind, what is installed; the pairs implement `BackupVault` | 2 valid contents and a bad one, retention 2, 3 names with a step back of the clock, a crash, two errors (so that a clean-up can fail), 2 changes by others |
| `notifications` | tasks end and are forgotten, shutdown ends and drains | 3 notifications: one in each state when the shutdown comes |
| `contracts` | authorisation, alternation, replay, completeness of the log, no withdrawal while paused, credits | owner, two keepers to hand the role to, the zero address; 2 references, severities inside and outside 1..3, amounts that overflow; 6 events |
| `subgraph` | one entity per event, sorted as on the chain | 4 blocks of up to 2 logs (`LogsPerBlock` = 2, so the last log of a block and the first of the next are neighbours), 2 transactions, any reorganisation |
| `deploy` | vaults are guarded, evidence is real | 3 runs, 6 nonces: two complete deployments and two other transactions, or three broken runs |

Deadlock is not checked: the store stops when its bounds are used up, the
controller when the clock's bound is reached, the contracts when the log is full;
none of these is a state of the program. The deployment script and a process that
has shut down really stop.

Symmetry is used where properties do not name the elements: all identifiers in
`store` (it checks invariants only), the callers in
`store_contention`, the valid configs in `controller` and `backup_files`, the
references in `contracts`, the transactions in `subgraph`. The runs with liveness
use none.

**Fairness.** Two runs need it. In `store_lifecycle` a statement of SQLite ends (weak
fairness of the statements of a caller inside a transaction), and a wait for the
lock ends, with the lock or with the timeout. Nothing is assumed of callers, of
storage errors or of crashes. In `notifications` the event loop runs every task that
is ready, and a request ends by itself, at the latest through the client's timeout
of 5 s (which is per phase of the request; an answer that trickles in for ever is
left out). Nothing is assumed of the monitor, of start-up or of whether a shutdown
comes. `RecoversInTime` and `BackupsKeepUp` need no fairness: the clock cannot
pass the time by which the code acts, so "eventually" is a bound on time and an
invariant. The first bound is the longest of what can lie between the last change and the
next chance to act (the attempt under way, a cooldown, the checks that open an
incident), then one check and one restart. The second adds the probe that ends a
recovery, or takes the backup interval if that is longer, then one more check.

### Disagreements with the documentation

1. **Cooldown** (`controller_cooldown`). AC-018 delays the next attempt by 60 s
   after one *completed*; `recovery.py:140` counts from its start. A failed attempt
   that used its waits is followed by the next one within a check or two.
2. **Monitor task** (`controller_unloadable`). `config_checker.py:38` catches
   `yaml.YAMLError`, but the loader raises a plain `ValueError` for an impossible
   date. Nobody catches it and monitoring ends, though FR-008 wants a corrupt
   config restored. The gateway handles the same file.
3. **Backup directory** (`controller_backup_dir`). `main.py:150` lists the backups
   outside the `try` around `create_backup`; an `OSError` there ends monitoring too.
   The test `test_backup_io_error_does_not_escape_loop` breaks the directory in a way
   that the listing survives. Nor is the `try` a complete guard: a checksum file that
   is not ASCII makes `backup.py:84` raise a `UnicodeDecodeError`, neither a
   `BackupError` nor an `OSError`, and the next due backup ends monitoring. The models
   have the step; no document speaks of it.

The code keeps four more statements in part, and properties say exactly how far:

* AC-023 has each check begin within a second of its deadline. A recovery runs
  inside the callback and delays the checks behind it by much more than that.
  `NoDrift` says what is kept, "without cumulative drift": the deadlines stay where
  they were, a check is late only by the time of attempts, and every deadline since
  has won back the interval less a request, until nothing of the delay is left.
* The plan has `get_latest_backup` return the most recent backup. It returns the last
  by name, and names come from the wall clock: `ManifestTellsRetained` and
  `ImplementsVault` hold for the latest backup as long as the clock has not stepped
  back; after that, pruning may remove the backup just written.
* FR-008 aborts the restoration when the checksum does not match. `restore_backup`
  verifies one read and installs another; `InstallsSnapshots` shows that this window
  (`raced`) is the only way to install anything but a snapshot, `InstallsOnlyGood`
  that in the running controller it is damage of the newest backup, done between the
  two reads.
* AC-009 has a backup of a healthy config. `BackupsKeepUp` says when: within
  `RefreshBound` of the last change or error, as the rest of the backup interval has
  to pass first. Until then the newest backup may be of an earlier config, or damaged.

## Proofs

Eight modules `...Proofs` hold the theorems; `PROJECT.json` lists them. They hold
for every value of the constants: any number of intents, events, callers, accounts,
notifications, deployments and faults, any limits and settings, any length of time.

| component | proved of every instance |
|---|---|
| `StateStore` | types, `OneUnfinished`, `EventsOwnedOnce`, `UncertaintyFreezes`, `ReceiptNeedsBroadcast`, `AuditIsLifecycle`, `OutboxMirrorsAudit`, `CursorIsNewest`; `FinalIsFinal`, `HashlessStaysUncertain`, `EventsAreImmutable` |
| `StoreTransactions` | types and lock discipline; **implements `StateStore`** (`ImplementsStore`); `AnswersHold`, `ReservationWonOnce`, `TransitionsAccounted` |
| `RecoveryLimiter` | types, `RateLimited`, `CooldownKept`, `GivesUpForGood` (in `ControllerProofs`) |
| `Controller` | types; **implements `RecoveryLimiter`**, hence its three limits; `IncidentTracksChecks`, `HandsOff`, `BackupsAreGood`, `InstallsOnlyGood`, `RepairsSurvive`, `NoDrift`, `RecoversInTime`, `BackupsKeepUp` |
| `BackupFiles` | **implements `BackupVault`** (`ImplementsVault`); `InstallsSnapshots`, `ManifestTellsRetained`, `LitterAccounted` |
| `Notifications` | `ShutdownDrains`; no task is ever collected |
| `Guardian`, `DemoVault` | types, `LogTellsState`, `PausesAreAuthorised`, `UnpausesAreHuman`, `PauseStopsWithdrawals`, `LedgerBalances` |
| `Deploy` | `VaultsAreGuarded`, `EvidenceIsReal` |
| `Subgraph` | `EntitiesMirrorChain`, `SequenceIsPosition` |

*Assumptions.* They stand in the module that declares the constants, and TLC
evaluates them on every run: numbers are numbers and NULL is no value; the bounds
that `__post_init__` and the contract's constructor enforce (`LimitsAssumption`,
`ConstructorAssumption`); arguments have the types the signatures declare
(`IsCall`), finitely many callers, and an audit trail with room for every call
(`MaxCalls <= MaxAudit`: `MaxAudit` is a bound of the model, which the
statement-level module does not test). `DecimalAssumption` says that decimal text
read back is the number that was written, for the positions that are passed: an
induction the prover cannot do. One theorem has a hypothesis of its own: `NoDrift`
needs `Timeout <= Interval`, as its comment says. The runtime never changes
the request timeout of 5 s, and the interval is 10 s unless set otherwise; one below 5 s
would make slow requests delay each other.

*StateStore.* `OneUnfinished` and `EventsOwnedOnce` are inductive together with
`TypeOK`. `UncertaintyFreezes` is not: it needs `LatchCoversUncertainty`, that an
indeterminate row on the trail means the latch is set and no other intent is
unfinished; hence nothing new is reserved and only that intent can move.
`ReceiptNeedsBroadcast` needs `HashProvenance`: a persisted hash has a broadcast row
behind it and a persisted nonce beside it. `AuditIsLifecycle` is inductive by one
lemma, `LifecycleStep`, used for each method: appending a legal transition and
making it the status keeps the trail a lifecycle. `CursorIsNewest` needs that
stored texts are `Str[n]` of some position. `OutboxMirrorsAudit` is stated with the
place of a row among the outcome rows of the trail instead of with a filtered
sequence, and so is inductive with the types alone. The three action properties follow from
the types and the guards; being proved, they are not repeated in a run.

*StoreTransactions.* The refinement needs to know, at the commit, that the rows the
call has written are the ones the atomic action writes and that its checks still
hold. `Progress` says so for each statement: which checks the call has passed
on the committed tables and by which rows the writer's tables differ from them. It
is inductive because nobody commits while the lock is held, which is the lock
discipline in `TypeOK`. Every statement but `Commit` is then a stuttering step
of `StateStore` and `Commit` is one of its five actions. `AnswersHold` adds that an
answer not yet delivered is true of the committed tables (`AnswersRecorded`) and that
no stored event lies beyond its cursor (`CursorsCover`), both kept by every action of
`StateStore`. `ReservationWonOnce` adds that each success, reported or about to be, has
an intent of its own which still owns the events (`SuccessesApart`). It is stated
without a sum: two calls over an event that both succeeded are the same call, and it
succeeded once. `TransitionsAccounted` does count, and counts with cardinalities: a
function of counters is a set of pairs (call, k), so that a return, a commit or a death
adds one element to one set and the library's theorems on finite sets apply.
Its invariant `Accounted` bounds the rows on record, for each transition of each
intent, from both sides: successes reported and answers on the way are on record, and
beyond them at most one row for each process that died in such a call.

*RecoveryLimiter.* The rate limit is about the whole history, the code only keeps
a queue. The invariant says the queue is the tail of the history, starts are in
order and everything before the tail is at least a window old. A start with fewer
than `MaxRecoveries` attempts in the queue then has its `MaxRecoveries`-th
predecessor outside the window. Giving up follows the same way: the first
unexpired attempt bounds all behind it. `CooldownKept` is not repeated in a run.

*Controller.* Each step is a step of the limiter or leaves its variables alone
(`LimiterSteps`), so the limits carry over. The invariant has one part for each
question: `Fresh` (between the gateway's answer and the replacement of the config
nothing is awaited, so a valid config it meets, or a backup that does not verify any
more, was written in this very moment: that is `RepairsSurvive` and
`InstallsOnlyGood`), `Counted` (counter, incident and gauge in each state of the
callback), `AttemptAllowed` (no attempt is under way once manual intervention is
asked for), `Lateness` (how late each state can be). A delay is `Explained` by the first
attempt of a busy period: the loop has not been on time since, so each attempt after it
added its time at most and each deadline took off the interval less a request. An
attempt that starts late joins the period, one that starts on time opens another, and
a sleep that waits at all ends it.

`RecoversInTime` needs three more. `Soon` bounds how long the task is away in each
state. `AsSeen` says that what the callback found is still so, or the world changed in
this very moment. `OnTheWay` is the argument itself: while the gateway is down and
nothing outside stands in the way, no attempt began after the last change unless it is
the one under way that will repair it, and each state has a time after the last
change by which it is left: failures are counted down, one check each, to the
incident; with an incident open the next check after the backlog starts an attempt or
gives up; and the attempt, with a good config to restore, ends in a restart that
succeeds. The proof attempt corrected the property: the bound left out the pause
of `wait_for_running` when it is longer than a restart, and the pace of
checks whose request takes longer than the interval. The run's settings
are not of that kind, so TLC had not seen it. The theorem has no hypothesis on the
settings.

`BackupsKeepUp` builds on it. `BackupCounts` says that a backup taken since the last
change is of the config as it is now and still verifies.
`Refreshing` follows a gateway that is healthy and has no such backup: it is seen
healthy, after a recovery or at once, and the backup is due, by `ReadyBound`; the check
after that takes it.

*BackupFiles.* The first invariant follows the call under way: a checksum is that
of a snapshot or no text (`Snapshots`), which names and temporary files are the call's own
(`OwnFiles`, `TempFiles`), what it has still to prune (`Pruned`, `NewestLast`), what it
has put in the manifest's draft (`Reported`), and who pays for each file left behind
(`LitterPaid`, `SumsPaid`, `PairsPaid`), where the half of a pair the call will still
complete or remove is set apart. The proof attempt corrected the model: after a step
back the clock could come forward again onto a name in use, which the microseconds
in the name exclude; `ReadClock` now excludes it in both directions.

`ImplementsVault`: the vault's list is `Kept`, the complete pairs in the order of their
names. The lemmas on it say what a step does to the list: it is the only sequence that
has the names in order (`PairsShape`, `KeptIsOrdered`, `SamePairs`), a newest name
appends (`VaultTakes`), a name that goes closes the gap (`PairGoes`), a changed file
changes its place (`VaultDamaged`). Only completing, unlinking and outside changes touch
it. That an unlinked pair is one the vault may drop needs `PruneOrder`: while the call
prunes, what it has still to remove is older than every pair it keeps, and at
least `Retention` pairs, less those that others took away, are newer.

*Contracts.* The properties are read off a log that only grows: each is split into
the past, which a step cannot change, and the event the step emits, where
`LogTellsState` connects the log with the state the conditions are about;
`OwnerApart` (the owner was never a keeper) gives `UnpausesAreHuman`. For
`LedgerBalances` the invariant is that a running total over the log exists, balances
after each event, each the one before plus that event's movement, that stays inside
the uint and ends in the credits (`LedgerExists`); a replay of the log is unique
(`ReplayIsUnique`), so `Ledger`, defined by recursion on the log, is that total.

*Deploy* follows the Guardian's address: from its receipt on it is a mined Guardian of
this run, so what is built on it in the pool, the locals and the files stays right as
the chain grows. *Notifications*: a task that is not done is retained, so the
snapshot that `close` takes misses none, and the monitor that could add one is done
before. *Subgraph*: block hashes are never used twice, so the entities of a block that is
taken back are exactly those with its hash; a transaction is mined once, so no two
events of a chain share an id; and a position is block * stride + index with an index
below the stride, which orders positions as pairs.

*Only model-checked*, and why:

* `LockIsFreed`, `NotificationsEnd`, `ShutdownEnds`: liveness under fairness.
* `DecimalAssumption`, that `int(str(n))` is n: an induction over digits. It is an
  assumption of the store's proofs, and TLC evaluates it for the positions of each run.

Every other property of a passing run, invariant, action property or refinement, is
stated by a theorem.

## Not modelled

* Wording, timestamps, ids, evidence, fee data, log lines: no decision reads them.
* Argument checks on empty strings and on the format of a hash: arguments are
  drawn from the well-formed ones.
* Loss of power: `os.replace` is taken as durable, though the directory is not
  synced. Modes and ownership of files. Two backups in the same microsecond.
* A cancellation of the monitor in the middle of a recovery: what `Controller` does
  when it is restarted is modelled, the thread that goes on restarting the
  container after the shutdown is not.
* YAML and pydantic themselves: contents are classed by their verdicts.
* Durability of a committed SQLite transaction is taken from SQLite.
* The order in which notifications arrive: the code promises none.
* Gas, fees, artifacts and the choice of `owner` and `keeper` in the deployment;
  reorganisations and dropped transactions there.
* What leads from the subgraph to the store: the repository has no poller, so the
  two are not composed. After a reorganisation a withdrawal has another entity id,
  and which blocks count as final is the missing part's decision.
* Metrics, settings (read and validated once: pure functions of the environment),
  the HTTP endpoints, compose files, dashboards and scripts: no state a property
  depends on.

## Status

What the code lets one model is modelled, and each safety property of a run is proved.
When the code changes, start with the run of the component (the bounds above are
chosen for it), then with its `...Proofs` module: a changed action has one
step in each invariance lemma, and the provers name the ones that no longer follow.
