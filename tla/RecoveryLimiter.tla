--------------------------- MODULE RecoveryLimiter ---------------------------
(***************************************************************************)
(* The limits the RecoveryManager of the controller keeps before it does   *)
(* anything (app/recovery.py, attempt_recovery up to "recovery_started"):  *)
(* a cooldown, a sliding window of attempts and a final status in which    *)
(* automatic recovery stops.  Time is time.monotonic() in whole units.     *)
(***************************************************************************)
EXTENDS Integers, Sequences

CONSTANTS
    Cooldown, Window,       \* cooldown_seconds, recovery_window_seconds
    MaxRecoveries,          \* max_recoveries_per_window
    MaxTime                 \* bound on the clock

ASSUME LimitsAssumption ==      \* __post_init__
    /\ Cooldown \in Nat
    /\ Window \in Nat /\ Window > 0
    /\ MaxRecoveries \in Nat /\ MaxRecoveries >= 1
    /\ MaxTime \in Nat

VARIABLES
    now,
    attempts,       \* _attempts, the start times inside the window
    last_attempt,   \* _last_attempt, NoAttempt for None
    status,
    starts          \* history: the start of every attempt of this process

limiterVars == <<now, attempts, last_attempt, status, starts>>

NoAttempt == -1

Manual == "manual_intervention_required"

(***************************************************************************)
(* Times and statuses are what the code stores, and the queue of attempts  *)
(* never grows past MaxRecoveries.                                         *)
(***************************************************************************)
LimiterTypeOK ==
    /\ now \in 0..MaxTime
    /\ attempts \in Seq(0..MaxTime) /\ Len(attempts) <= MaxRecoveries
    /\ last_attempt \in (0..MaxTime) \cup {NoAttempt}
    /\ status \in {"ready", Manual}
    /\ starts \in Seq(0..MaxTime)

LimiterFresh ==
    /\ attempts = <<>> /\ last_attempt = NoAttempt
    /\ status = "ready" /\ starts = <<>>

LimiterInit == now = 0 /\ LimiterFresh

-----------------------------------------------------------------------------

\* Mutant of Expired: the window is one unit short.
ExpiredMutant(k) == now - attempts[k] >= Window - 1

\* Mutant of Expired: an attempt exactly one window old still counts.
ExpiredLateMutant(k) == now - attempts[k] > Window

Expired(k) == now - attempts[k] >= Window

\* The loop that pops from the left stops after k attempts.
Popped(k) ==
    /\ k \in 0..Len(attempts)
    /\ \A j \in 1..k : Expired(j)
    /\ k < Len(attempts) => ~Expired(k + 1)

Remaining(k) == SubSeq(attempts, k + 1, Len(attempts))

CoolingDown == last_attempt # NoAttempt /\ now - last_attempt < Cooldown

LimitReached(k) == Len(Remaining(k)) >= MaxRecoveries

\* attempt_recovery returns at once: the status is final.
Refuse ==
    /\ status = Manual
    /\ \E k \in 0..Len(attempts) : Popped(k) /\ attempts' = Remaining(k)
    /\ UNCHANGED <<now, last_attempt, status, starts>>

\* The attempt limit is tested before the cooldown.
GiveUp ==
    /\ status # Manual
    /\ \E k \in 0..Len(attempts) :
          /\ Popped(k) /\ LimitReached(k)
          /\ attempts' = Remaining(k)
    /\ status' = Manual
    /\ UNCHANGED <<now, last_attempt, starts>>

\* Mutant of Defer: a deferred attempt restarts the cooldown.
DeferMutant ==
    /\ status # Manual
    /\ \E k \in 0..Len(attempts) :
          /\ Popped(k) /\ ~LimitReached(k) /\ CoolingDown
          /\ attempts' = Remaining(k)
    /\ last_attempt' = now
    /\ UNCHANGED <<now, status, starts>>

Defer ==
    /\ status # Manual
    /\ \E k \in 0..Len(attempts) :
          /\ Popped(k) /\ ~LimitReached(k) /\ CoolingDown
          /\ attempts' = Remaining(k)
    /\ UNCHANGED <<now, last_attempt, status, starts>>

Start ==
    /\ status # Manual
    /\ \E k \in 0..Len(attempts) :
          /\ Popped(k) /\ ~LimitReached(k) /\ ~CoolingDown
          /\ attempts' = Append(Remaining(k), now)
    /\ last_attempt' = now
    /\ starts' = Append(starts, now)
    /\ UNCHANGED <<now, status>>

Tick ==
    /\ now < MaxTime
    /\ now' = now + 1
    /\ UNCHANGED <<attempts, last_attempt, status, starts>>

\* The limits live in memory: a new controller process starts with none.
Forget ==
    /\ attempts' = <<>> /\ last_attempt' = NoAttempt
    /\ status' = "ready" /\ starts' = <<>>
    /\ UNCHANGED now

LimiterNext == Refuse \/ GiveUp \/ Defer \/ Start \/ Tick \/ Forget

LimiterSpec == LimiterInit /\ [][LimiterNext]_limiterVars

-----------------------------------------------------------------------------
(* Properties. *)

(***************************************************************************)
(* ARCH-8: any MaxRecoveries + 1 consecutive attempts of a process span at *)
(* least the window, so no window holds more than MaxRecoveries attempts,  *)
(* although expired attempts are forgotten one by one.                     *)
(***************************************************************************)
RateLimited ==
    \A k \in DOMAIN starts : k + MaxRecoveries \in DOMAIN starts =>
        starts[k + MaxRecoveries] - starts[k] >= Window

(***************************************************************************)
(* ARCH-7: two attempts of a process start at least a cooldown apart, also *)
(* when the window forgot the earlier one.                                 *)
(***************************************************************************)
CooldownKept ==
    \A k \in DOMAIN starts : k + 1 \in DOMAIN starts =>
        starts[k + 1] - starts[k] >= Cooldown

(***************************************************************************)
(* ARCH-9: a process gives up only after MaxRecoveries attempts that all   *)
(* started inside the window just passed, and after it gave up it neither  *)
(* starts an attempt nor becomes ready again.                              *)
(***************************************************************************)
GivesUpForGood ==
    [][ /\ (status # Manual /\ status' = Manual) =>
              /\ Len(starts) >= MaxRecoveries
              /\ \A k \in DOMAIN starts : k > Len(starts) - MaxRecoveries =>
                    now - starts[k] < Window
        /\ (status = Manual /\ ~Forget) => status' = Manual /\ starts' = starts
      ]_limiterVars

=============================================================================
