------------------------------ MODULE Controller ------------------------------
(***************************************************************************)
(* The nexguard-controller: the one asyncio task that checks the gateway   *)
(* on fixed deadlines (app/health_monitor.py), and in its callback counts  *)
(* failures (app/incident.py), backs the config up or recovers the gateway *)
(* (app/main.py, app/backup.py, app/recovery.py, app/docker_manager.py).   *)
(* It runs against an environment that changes under it: other programs    *)
(* write the config file and damage backups, the container stops, Docker   *)
(* and the network fail, the controller itself is restarted.               *)
(*                                                                         *)
(* The task is a program counter pc.  Each step is code without an await,  *)
(* cut again where it reads the config file twice.  A step is due between  *)
(* wake and due; the clock cannot pass due, so time is spent only where    *)
(* the code awaits.  The limits on recovery are those of RecoveryLimiter.  *)
(*                                                                         *)
(* File contents are Good (valid for the controller and the gateway, whose *)
(* schemas agree), Bad (missing, unreadable, no YAML, wrong schema) or     *)
(* Unloadable: YAML for which yaml.safe_load raises a plain ValueError (an *)
(* impossible date), which check_config does not catch.                    *)
(***************************************************************************)
EXTENDS RecoveryLimiter

CONSTANTS
    Good, Bad, Unloadable,          \* contents of the config file
    Interval, Timeout,              \* of the health checks; the longest request
    Threshold,                      \* failure_threshold
    RestartTime,                    \* longest container.restart
    RestartWait, Poll,              \* restart_wait_seconds, poll interval
    BackupInterval, Retention,
    ContainerName, AllowedContainers,
    MaxChanges                      \* bound: changes by the environment

ASSUME SettingsAssumption ==
    /\ Interval \in Nat \ {0} /\ Timeout \in Nat /\ Threshold \in Nat \ {0}
    /\ RestartTime \in Nat /\ RestartWait \in Nat /\ Poll \in Nat \ {0}
    /\ BackupInterval \in Nat /\ Retention \in Nat \ {0} /\ MaxChanges \in Nat

VARIABLES
    \* the monitor task
    pc, wake, due, next_deadline, deadline, result_ok, config_valid,
    \* IncidentManager, ControllerRuntime and the gateway_up gauge
    consecutive_failures, incident, last_backup, gateway_up,
    completed,                      \* history: end of the last attempt
    planned,                        \* history: when the last check was to begin
    \* what the controller acts on
    config, running, docker, network,
    backups,                        \* complete pairs, oldest first
    changes, last_change            \* how many changes, and when the last was

taskVars == <<pc, wake, due, next_deadline, deadline, result_ok, config_valid>>
memoryVars == <<consecutive_failures, incident, last_backup, gateway_up, completed,
                planned>>
worldVars == <<config, running, docker, network>>
changeVars == <<changes, last_change>>

vars == <<limiterVars, taskVars, memoryVars, worldVars, backups, changeVars>>

Contents == Good \cup Bad \cup Unloadable

\* The complete pairs, oldest first.
Vault == INSTANCE BackupVault WITH kept <- backups, outside <- changes

Never == -1

Later(s, t) == IF s >= t THEN s ELSE t

Sooner(s, t) == IF s <= t THEN s ELSE t

(***************************************************************************)
(* Every variable has the type of the attribute it stands for, no wait is  *)
(* overrun, and what is to be installed is there.                          *)
(***************************************************************************)
TypeOK ==
    /\ LimiterTypeOK
    /\ pc \in {"request", "inspect", "healthy", "unhealthy", "restore", "install",
               "restart", "waiting", "probe", "pause", "sleep", "dead"}
    /\ wake \in Nat /\ due \in Nat /\ next_deadline \in Nat /\ deadline \in Nat
    /\ pc # "dead" => now <= due
    /\ result_ok \in BOOLEAN /\ config_valid \in BOOLEAN /\ incident \in BOOLEAN
    /\ running \in BOOLEAN /\ network \in BOOLEAN /\ gateway_up \in BOOLEAN
    /\ consecutive_failures \in Nat
    /\ last_backup \in Nat \cup {Never} /\ completed \in Nat \cup {Never}
    /\ planned \in Nat
    /\ config \in Contents
    /\ docker \in {"ok", "unlabelled", "down"}
    /\ backups \in Seq(Vault!Pair) /\ (pc = "install" => backups # <<>>)
    /\ changes \in 0..MaxChanges /\ last_change \in Nat

Init ==
    /\ LimiterInit
    /\ pc = "request" /\ wake = 0 /\ due = Timeout /\ next_deadline = 0 /\ deadline = 0
    /\ result_ok = FALSE /\ config_valid = FALSE
    /\ consecutive_failures = 0 /\ incident = FALSE
    /\ last_backup = Never /\ gateway_up = FALSE /\ completed = Never
    /\ planned = 0
    /\ config \in Good /\ running = TRUE /\ docker = "ok" /\ network = TRUE
    /\ backups = <<>>
    /\ changes = 0 /\ last_change = 0

-----------------------------------------------------------------------------
(* Scheduling the task. *)

\* Await something that ends between the two times, then continue at label.
Await(label, earliest, latest) == pc' = label /\ wake' = earliest /\ due' = latest

\* Mutant of SleepUntilDeadline: the deadline counts from the end of the callback.
SleepUntilDeadlineMutant ==
    next_deadline' = now + Interval /\ Await("sleep", now + Interval, now + Interval)

\* The callback is over: sleep until the next deadline, or not at all.
SleepUntilDeadline ==
    /\ next_deadline' = next_deadline + Interval
    /\ LET t == Later(now, next_deadline + Interval) IN Await("sleep", t, t)

TimePasses ==
    /\ pc = "dead" \/ now < due
    /\ Tick
    /\ UNCHANGED <<taskVars, memoryVars, worldVars, backups, changeVars>>

\* An exception nobody catches ends the task; the process lives on.
Dies ==
    /\ Await("dead", now, now)
    /\ UNCHANGED next_deadline

-----------------------------------------------------------------------------
(* One health check and its callback. *)

\* load_config of the gateway: any failure is config_invalid.
GatewayAccepts(content) == content \in Good

\* _parse_yaml lets everything through that is not a YAMLError.
Raises(content) == content \in Unloadable

\* check_config and check_config_text, where they do not raise.
ConfigValid(content) == content \in Good

\* GET /health: the gateway reads the file on every request.
GatewayHealthy == network /\ running /\ GatewayAccepts(config)

Wake ==
    /\ pc = "sleep" /\ now >= wake
    /\ Await("request", now, now + Timeout)
    /\ planned' = planned + Interval
    /\ UNCHANGED <<limiterVars, next_deadline, deadline, result_ok, config_valid,
                   consecutive_failures, incident, last_backup, gateway_up, completed,
                   worldVars, backups, changeVars>>

CheckOnce ==
    /\ pc = "request" /\ now >= wake
    /\ result_ok' = GatewayHealthy
    /\ gateway_up' = GatewayHealthy
    /\ Await("inspect", now, now)
    /\ UNCHANGED <<limiterVars, next_deadline, deadline, config_valid, consecutive_failures,
                   incident, last_backup, completed, planned, worldVars, backups,
                   changeVars>>

CheckConfig ==
    /\ pc = "inspect"
    /\ \/ /\ Raises(config)
          /\ Dies
          /\ UNCHANGED config_valid
       \/ /\ ~Raises(config)
          /\ config_valid' = ConfigValid(config)
          /\ Await(IF result_ok THEN "healthy" ELSE "unhealthy", now, now)
          /\ UNCHANGED next_deadline
    /\ UNCHANGED <<limiterVars, deadline, result_ok, memoryVars, worldVars, backups, changeVars>>

-----------------------------------------------------------------------------
(* The gateway answered 200. *)

\* Mutant of RecordSuccess: the counter is reset only with an open incident.
RecordSuccessMutant ==
    /\ consecutive_failures' = IF incident THEN 0 ELSE consecutive_failures
    /\ incident' = FALSE

RecordSuccess == consecutive_failures' = 0 /\ incident' = FALSE

\* Mutant of BackupDue: what was backed up once is never backed up again.
BackupDueMutant == backups = <<>> \/ last_backup = Never

BackupDue == \/ backups = <<>>
             \/ last_backup = Never
             \/ now - last_backup >= BackupInterval

\* Something fails, or is changed by someone else.
Change ==
    /\ changes < MaxChanges
    /\ changes' = changes + 1 /\ last_change' = now

TakeAndPrune ==
    LET pairs == Vault!WithSnapshot(config)
    IN  backups' = Vault!Without(pairs, Vault!Excess(pairs))

\* _write_manifest reads every checksum file that is left, as ASCII.
Legible == \A k \in DOMAIN backups : backups[k].legible

\* Mutant of Backup: the snapshot is not validated again.
BackupMutant ==
    TakeAndPrune /\ last_backup' = now /\ SleepUntilDeadline /\ UNCHANGED changeVars

\* create_backup reads the file itself and validates what it read; BackupError and
\* OSError are logged, anything else ends the task.
Backup ==
    \/ /\ ConfigValid(config)
       /\ TakeAndPrune
       /\ \/ Legible' /\ last_backup' = now /\ SleepUntilDeadline
          \/ ~Legible' /\ UNCHANGED last_backup /\ Dies       \* UnicodeDecodeError
       /\ UNCHANGED changeVars
    \/ /\ ConfigValid(config)                   \* OSError: no pair, or some pruning
       /\ Change                                \* left, or no manifest
       /\ Vault!Take(config) \/ UNCHANGED backups
       /\ UNCHANGED last_backup /\ SleepUntilDeadline
    \/ /\ ~ConfigValid(config)                  \* BackupValidationError
       /\ IF Raises(config) THEN Dies ELSE SleepUntilDeadline
       /\ UNCHANGED <<backups, last_backup, changeVars>>

HandleHealthy ==
    /\ pc = "healthy"
    /\ RecordSuccess
    /\ \/ config_valid /\ BackupDue /\ Backup
       \/ /\ ~(config_valid /\ BackupDue)
          /\ SleepUntilDeadline /\ UNCHANGED <<backups, last_backup, changeVars>>
       \/ /\ Change                             \* get_latest_backup: OSError, not caught
          /\ Dies /\ UNCHANGED <<backups, last_backup>>
    /\ UNCHANGED <<limiterVars, deadline, result_ok, config_valid, gateway_up, completed, planned,
                   worldVars>>

-----------------------------------------------------------------------------
(* The gateway did not answer 200. *)

\* record_failure opens an incident at exactly the threshold.
Opens == consecutive_failures + 1 = Threshold /\ ~incident

\* Mutant of Begin: having given up, it tries once more.
BeginMutant == Start \/ GiveUp

\* attempt_recovery gets past its limits.
Begin == Start

\* Mutant of FirstStep: something is awaited before the restore.
FirstStepMutant ==
    Await(IF config_valid THEN "restart" ELSE "restore", now, now + RestartTime)

\* A restore follows the check of the config without an await.
FirstStep ==
    IF config_valid THEN Await("restart", now, now + RestartTime)
    ELSE Await("restore", now, now)

HandleUnhealthy ==
    /\ pc = "unhealthy"
    /\ consecutive_failures' = consecutive_failures + 1
    /\ incident' = (incident \/ Opens)
    /\ \/ /\ ~incident' \/ status = Manual
          /\ SleepUntilDeadline
          /\ UNCHANGED limiterVars
       \/ /\ incident' /\ status # Manual
          /\ GiveUp \/ Defer
          /\ SleepUntilDeadline
       \/ /\ incident' /\ status # Manual
          /\ Begin
          /\ FirstStep
          /\ UNCHANGED next_deadline
    /\ UNCHANGED <<deadline, result_ok, config_valid, last_backup, gateway_up, completed, planned,
                   worldVars, backups, changeVars>>

-----------------------------------------------------------------------------
(* attempt_recovery after it has started. *)

Fails ==
    /\ completed' = now
    /\ SleepUntilDeadline
    /\ UNCHANGED <<consecutive_failures, incident, last_backup, gateway_up, planned>>

Succeeds ==
    /\ completed' = now
    /\ gateway_up' = TRUE
    /\ RecordSuccess
    /\ SleepUntilDeadline
    /\ UNCHANGED <<last_backup, planned>>

Newest == backups[Len(backups)]

\* Mutant of Restorable: the newest pair is restored unverified.
RestorableMutant == backups # <<>>

\* get_latest_backup and verify_backup: the newest complete pair, if it verifies.
Restorable == backups # <<>> /\ Newest.intact

Restore ==
    /\ pc = "restore"
    /\ \/ /\ Restorable
          /\ Await("install", now, now)
          /\ UNCHANGED <<next_deadline, memoryVars, changeVars>>
       \/ /\ ~Restorable                        \* backup_not_found, restore_failed
          /\ Fails
          /\ UNCHANGED changeVars
       \/ Change /\ Fails                       \* OSError: restore_failed
    /\ UNCHANGED <<limiterVars, deadline, result_ok, config_valid, worldVars, backups>>

\* restore_backup reads the file a second time, and a temporary file replaces the
\* live one, whatever it was.
Install ==
    /\ pc = "install"
    /\ \/ /\ config' = Newest.content
          /\ Await("restart", now, now + RestartTime)
          /\ UNCHANGED <<next_deadline, memoryVars, changeVars>>
       \/ /\ Change                             \* OSError: restore_failed
          /\ Fails
          /\ UNCHANGED config
    /\ UNCHANGED <<limiterVars, deadline, result_ok, config_valid, running, docker, network,
                   backups>>

\* Both guards of restart_container; anything it raises ends the attempt.
MayRestart == ContainerName \in AllowedContainers /\ docker = "ok"

RestartContainer ==
    /\ pc = "restart" /\ now >= wake
    /\ \/ /\ MayRestart
          /\ running' = TRUE
          /\ deadline' = now + RestartWait
          /\ Await("waiting", now, now)
          /\ UNCHANGED <<next_deadline, memoryVars>>
       \/ /\ ~MayRestart
          /\ Fails
          /\ UNCHANGED <<running, deadline>>
    /\ UNCHANGED <<limiterVars, result_ok, config_valid, config, docker, network, backups,
                   changeVars>>

\* wait_for_running looks at the container whatever its labels.
WaitForRunning ==
    /\ pc = "waiting" /\ now >= wake
    /\ \/ /\ docker # "down" /\ running
          /\ deadline' = now + RestartWait
          /\ Await("probe", now, now + Timeout)
          /\ UNCHANGED <<next_deadline, memoryVars>>
       \/ /\ docker # "down" /\ ~running /\ now < deadline
          /\ LET t == Sooner(now + Poll, deadline) IN Await("waiting", t, t)
          /\ UNCHANGED <<next_deadline, deadline, memoryVars>>
       \/ /\ docker = "down" \/ (~running /\ now >= deadline)
          /\ Fails
          /\ UNCHANGED deadline
    /\ UNCHANGED <<limiterVars, result_ok, config_valid, worldVars, backups, changeVars>>

\* The readiness loop: probe, and pause while time remains.
Probe ==
    /\ pc = "probe" /\ now >= wake
    /\ \/ /\ GatewayHealthy
          /\ Succeeds
       \/ /\ ~GatewayHealthy /\ now >= deadline
          /\ Fails
       \/ /\ ~GatewayHealthy /\ now < deadline
          /\ LET t == Sooner(now + Poll, deadline) IN Await("pause", t, t)
          /\ UNCHANGED <<next_deadline, memoryVars>>
    /\ UNCHANGED <<limiterVars, deadline, result_ok, config_valid, worldVars, backups,
                   changeVars>>

ProbeAgain ==
    /\ pc = "pause" /\ now >= wake
    /\ Await("probe", now, now + Timeout)
    /\ UNCHANGED <<limiterVars, next_deadline, deadline, result_ok, config_valid, memoryVars,
                   worldVars, backups, changeVars>>

-----------------------------------------------------------------------------
(* The environment. *)

WriteConfig(content) ==
    /\ Change
    /\ content # config /\ config' = content
    /\ UNCHANGED <<limiterVars, taskVars, memoryVars, running, docker, network, backups>>

StopOrStartContainer ==
    /\ Change
    /\ running' = ~running
    /\ UNCHANGED <<limiterVars, taskVars, memoryVars, config, docker, network, backups>>

ChangeDocker(state) ==
    /\ Change
    /\ state # docker /\ docker' = state
    /\ UNCHANGED <<limiterVars, taskVars, memoryVars, config, running, network, backups>>

ChangeNetwork ==
    /\ Change
    /\ network' = ~network
    /\ UNCHANGED <<limiterVars, taskVars, memoryVars, config, running, docker, backups>>

\* A YAML file is overwritten, or a checksum file with what is not text.
Damaged(pair) ==
    {[pair EXCEPT !.intact = FALSE, !.legible = FALSE]}
        \cup {[pair EXCEPT !.intact = FALSE, !.content = content] :
                 content \in Bad \cup Unloadable}

DamageBackup(k) ==
    /\ Change
    /\ \E pair \in Damaged(backups[k]) \ {backups[k]} : Vault!Damage(k, pair)
    /\ UNCHANGED <<limiterVars, taskVars, memoryVars, worldVars>>

\* A new process: what was in memory is gone, files and containers stay.
RestartController ==
    /\ Change
    /\ Forget
    /\ Await("request", now, now + Timeout)
    /\ next_deadline' = now /\ planned' = now
    /\ consecutive_failures' = 0 /\ incident' = FALSE
    /\ last_backup' = Never /\ gateway_up' = FALSE /\ completed' = Never
    /\ UNCHANGED <<deadline, result_ok, config_valid, worldVars, backups>>

Task ==
    \/ Wake \/ CheckOnce \/ CheckConfig \/ HandleHealthy \/ HandleUnhealthy
    \/ Restore \/ Install \/ RestartContainer \/ WaitForRunning \/ Probe \/ ProbeAgain

Environment ==
    \/ \E content \in Contents : WriteConfig(content)
    \/ StopOrStartContainer
    \/ \E state \in {"ok", "unlabelled", "down"} : ChangeDocker(state)
    \/ ChangeNetwork
    \/ \E k \in DOMAIN backups : DamageBackup(k)
    \/ RestartController

Next == TimePasses \/ Task \/ Environment

Spec == Init /\ [][Next]_vars

-----------------------------------------------------------------------------
(* Properties. *)

(***************************************************************************)
(* ARCH-9: a controller that asked for manual intervention keeps its hands *)
(* off.  While checks go on, and incidents close and open again, it neither*)
(* installs a config nor restarts the container; only its own restart ends *)
(* that.                                                                   *)
(***************************************************************************)
HandsOff ==
    [][(status = Manual /\ changes' = changes)
          => status' = Manual /\ config' = config /\ running' = running]_vars

(***************************************************************************)
(* Between two checks an incident is open exactly when the last Threshold  *)
(* checks failed (ARCH-2), although it is opened by an equality test and   *)
(* closed both by a check and by a recovery; the gauge tells whether the   *)
(* last check or recovery found the gateway up.                            *)
(***************************************************************************)
IncidentTracksChecks ==
    pc = "sleep" =>
        /\ incident <=> consecutive_failures >= Threshold
        /\ gateway_up <=> consecutive_failures = 0

(***************************************************************************)
(* ARCH-3: an intact backup holds a valid config, also when the file is    *)
(* rewritten between the check that found it valid and the backup's read.  *)
(* Backups are pruned: each failed pruning leaves at most one pair too     *)
(* many, although nobody retries it but the next backup.                   *)
(***************************************************************************)
BackupsAreGood ==
    /\ \A k \in DOMAIN backups : backups[k].intact => backups[k].content \in Good
    /\ Len(backups) <= Retention + changes

(***************************************************************************)
(* FR-008: the controller itself puts only a valid config in the live      *)
(* path, also when backups were damaged at any time before the backup was  *)
(* verified.  It reads the backup a second time to install it, and only    *)
(* damage done in the moment between the two reads gets through.           *)
(***************************************************************************)
InstallsOnlyGood ==
    [][(config' # config /\ changes' = changes)
          => config' \in Good \/ (last_change = now /\ ~Newest.intact)]_vars

(***************************************************************************)
(* A repair is not undone: a valid config that was in place before the     *)
(* check that found the gateway down is never overwritten by a backup,     *)
(* although the restore goes by what that check saw.                       *)
(***************************************************************************)
RepairsSurvive ==
    [][(config' # config /\ changes' = changes /\ config \in Good) => last_change = now]_vars

\* Nothing outside the controller stands in the way of a recovery.
Recoverable ==
    /\ network /\ (running \/ MayRestart)
    /\ config \in Good \/ (config \in Bad /\ Restorable)

\* The longest from one check to the next.
Pace == Later(Interval, Timeout)

\* The longest an attempt under way can take after the last change: its restart,
\* or its pause before it looks at the container again; then the readiness loop.
Settle == Later(RestartTime, Sooner(Poll, RestartWait))

AttemptRest == Settle + RestartWait + Timeout

\* From the last change to the restart that repairs it: the attempt under way,
\* the rest of a cooldown or the checks that open an incident; the next check; its
\* own restart.
Backlog == Later(AttemptRest, Later(Cooldown, Threshold * Pace))

RecoveryBound == Backlog + (Interval + Timeout) + RestartTime

(***************************************************************************)
(* Once the environment has been quiet for RecoveryBound and nothing       *)
(* outside stands in the way, the gateway answers 200 or the controller    *)
(* has asked for manual intervention: it is never stuck in between, in a   *)
(* cooldown that is extended for ever or an incident that never opens.     *)
(***************************************************************************)
RecoversInTime ==
    (pc # "dead" /\ Recoverable /\ now - last_change > RecoveryBound)
        => GatewayHealthy \/ status = Manual

\* The longest an attempt can take: the restart, and both waits to the end.
AttemptTime == RestartTime + RestartWait + RestartWait + Timeout

\* Behind schedule, if at all, on account of attempts: from the k-th on they took
\* AttemptTime each, and each of the c deadlines since its start won time back.
InTime(time, scheduled) ==
    \/ time <= scheduled
    \/ \E k \in DOMAIN starts, c \in 0..scheduled :
          /\ scheduled <= starts[k] + c * Interval
          /\ time - scheduled
                <= (Len(starts) - k + 1) * AttemptTime - c * (Interval - Timeout)

(***************************************************************************)
(* AC-023, "without cumulative drift": a check begins on its deadline, the *)
(* start of the monitor plus a multiple of the interval, never before it,  *)
(* and after it only while the loop catches up with the attempts that ran  *)
(* inside it: every deadline after an attempt wins back what the interval  *)
(* exceeds a request by, until none of the delay is left.  The tolerance   *)
(* of one second AC-023 gives is not kept while the loop catches up.       *)
(***************************************************************************)
NoDrift == pc = "request" => planned <= wake /\ InTime(wake, planned)

\* From the last change to a backup of what the gateway runs on: its recovery and
\* the probe that ends it, or the rest of the backup interval; the next check.
RefreshBound == Later(RecoveryBound + Timeout, BackupInterval) + Interval + Timeout

(***************************************************************************)
(* AC-009: a healthy config does not stay without a backup.  Once nothing  *)
(* has changed or failed for RefreshBound and the gateway is healthy, the  *)
(* newest backup is a verifying snapshot of the config it runs on: also    *)
(* after a config was replaced, a backup damaged or lost to an error, a    *)
(* recovery made or given up, or the memory of the last backup lost.       *)
(***************************************************************************)
BackupsKeepUp ==
    (pc # "dead" /\ GatewayHealthy /\ now - last_change > RefreshBound)
        => backups # <<>> /\ Newest = Vault!Snapshot(config)

-----------------------------------------------------------------------------
(* What the documentation says and the code does not do. *)

(***************************************************************************)
(* AC-018: "Given a recovery attempt just completed ... the next recovery  *)
(* attempt is delayed by at least 60 seconds".  The code counts the 60     *)
(* seconds from the start of the attempt.                                  *)
(***************************************************************************)
CooldownAfterCompletion ==
    (pc \in {"restore", "install", "restart", "waiting", "probe", "pause"} /\ completed # Never)
        => last_attempt - completed >= Cooldown

(***************************************************************************)
(* FR-008: "When the controller opens an incident and detects a corrupt/   *)
(* invalid config, it must attempt restoration": which takes a monitor     *)
(* task that survives reading such a config.                               *)
(***************************************************************************)
MonitorSurvives == config \in Unloadable => pc # "dead"

(***************************************************************************)
(* test_backup_io_error_does_not_escape_loop: an I/O error of the backup   *)
(* directory is logged and checks go on.  The look for the latest backup   *)
(* before the backup is outside the try block.                             *)
(***************************************************************************)
BackupErrorsStayInside == Unloadable = {} => pc # "dead"

=============================================================================
