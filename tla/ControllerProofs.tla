-------------------------- MODULE ControllerProofs --------------------------
(***************************************************************************)
(* The safety of RecoveryLimiter and of the Controller that extends it for *)
(* all settings, any contents, any number of changes of the environment    *)
(* and any length of time.  The limits come first.  The inductive          *)
(* invariant of the controller has one part for each question: what the    *)
(* check that started the callback knew (Fresh), what failures were        *)
(* counted (Counted), in which states an attempt is under way              *)
(* (AttemptAllowed), how late the task can be (Lateness), how far away a   *)
(* recovery is (OnTheWay) and a backup (Refreshing).                       *)
(***************************************************************************)
EXTENDS Controller, SequenceTheorems, TLAPS

-----------------------------------------------------------------------------
(***************************************************************************)
(* The limits of RecoveryLimiter for every cooldown, window and number of  *)
(* recoveries.  What is missing from the properties to be inductive is the *)
(* link between the queue the code keeps and the whole history: the queue  *)
(* is its tail, and everything before the tail is older than the window.   *)
(***************************************************************************)

\* How many attempts of the history the queue has forgotten.
Dropped == Len(starts) - Len(attempts)

QueueIsTail ==
    /\ Len(attempts) <= Len(starts)
    /\ \A k \in 1..Len(attempts) : attempts[k] = starts[Dropped + k]
    /\ \A k \in 1..Len(starts) : starts[k] <= now
    /\ \A k \in 1..Len(starts) : k <= Dropped => now - starts[k] >= Window

StartsInOrder ==
    \A j, k \in 1..Len(starts) : j <= k => starts[j] <= starts[k]

LastIsLast ==
    last_attempt = IF starts = <<>> THEN NoAttempt ELSE starts[Len(starts)]

LimiterInv ==
    /\ LimiterTypeOK /\ QueueIsTail /\ StartsInOrder /\ LastIsLast
    /\ RateLimited /\ CooldownKept

-----------------------------------------------------------------------------

(***************************************************************************)
(* The arithmetic content of the types.                                    *)
(***************************************************************************)
LEMMA Sizes ==
    ASSUME LimiterInv
    PROVE  /\ Len(attempts) \in Nat /\ Len(starts) \in Nat /\ Len(attempts) <= Len(starts)
           /\ DOMAIN starts = 1..Len(starts)
           /\ \A k \in 1..Len(attempts) : attempts[k] \in Nat
           /\ \A k \in 1..Len(starts) : starts[k] \in Nat
           /\ now \in Nat /\ Cooldown \in Nat /\ Window \in Nat
           /\ MaxRecoveries \in Nat /\ MaxRecoveries >= 1
           /\ Dropped = Len(starts) - Len(attempts)
BY LimitsAssumption DEF LimiterInv, LimiterTypeOK, QueueIsTail, Dropped

(***************************************************************************)
(* A new process, without attempts, satisfies the inductive invariant.     *)
(***************************************************************************)
LEMMA InitInv == LimiterInit => LimiterInv
<1> SUFFICES ASSUME LimiterInit PROVE LimiterInv
  OBVIOUS
<1>1. attempts = <<>> /\ starts = <<>> /\ now = 0 /\ last_attempt = NoAttempt /\ status = "ready"
  BY DEF LimiterInit, LimiterFresh
<1>2. LimiterTypeOK
  BY <1>1, LimitsAssumption DEF LimiterTypeOK
<1> QED BY <1>1, <1>2
    DEF LimiterInv, QueueIsTail, StartsInOrder, LastIsLast, RateLimited, CooldownKept

(***************************************************************************)
(* Popping expired attempts keeps the queue the tail of the history, with  *)
(* only expired attempts before it.                                        *)
(***************************************************************************)
LEMMA PopKeepsTail ==
    ASSUME LimiterInv, NEW k \in 0..Len(attempts), Popped(k)
    PROVE  /\ Remaining(k) \in Seq(0..MaxTime)
           /\ Len(Remaining(k)) = Len(attempts) - k
           /\ \A j \in 1..(Len(attempts) - k) : Remaining(k)[j] = starts[Dropped + k + j]
           /\ \A j \in 1..Len(starts) : j <= Dropped + k => now - starts[j] >= Window
<1>1. Len(attempts) \in Nat /\ k \in Nat /\ k <= Len(attempts)
  BY Sizes
<1>2. \A i \in (k + 1)..Len(attempts) : attempts[i] \in 0..MaxTime
  <2>1. attempts \in Seq(0..MaxTime)
    BY DEF LimiterInv, LimiterTypeOK
  <2>2. \A i \in 1..Len(attempts) : attempts[i] \in 0..MaxTime
    BY <2>1, ElementOfSeq
  <2> QED BY <1>1, <2>2
<1>3. /\ Remaining(k) \in Seq(0..MaxTime)
      /\ Len(Remaining(k)) = IF k + 1 <= Len(attempts) THEN Len(attempts) - (k + 1) + 1 ELSE 0
      /\ \A i \in 1..(Len(attempts) - (k + 1) + 1) : Remaining(k)[i] = attempts[k + 1 + i - 1]
  <2>1. k + 1 \in Int /\ Len(attempts) \in Int
    BY <1>1
  <2> QED BY <1>2, <2>1, SubSeqProperties DEF Remaining
<1>4. Len(Remaining(k)) = Len(attempts) - k
  BY <1>1, <1>3
<1>5. ASSUME NEW j \in 1..(Len(attempts) - k)
      PROVE  Remaining(k)[j] = starts[Dropped + k + j]
  <2>1. Remaining(k)[j] = attempts[k + j]
    <3>1. j \in 1..(Len(attempts) - (k + 1) + 1) /\ k + 1 + j - 1 = k + j
      BY <1>1
    <3> QED BY <1>3, <3>1
  <2>2. k + j \in 1..Len(attempts)
    BY <1>1
  <2>3. Dropped + (k + j) = Dropped + k + j
    BY <1>1, Sizes
  <2> QED BY <2>1, <2>2, <2>3 DEF LimiterInv, QueueIsTail
<1>6. ASSUME NEW j \in 1..Len(starts), j <= Dropped + k PROVE now - starts[j] >= Window
  <2>1. CASE j <= Dropped
    BY <2>1 DEF LimiterInv, QueueIsTail
  <2>2. CASE j > Dropped
    <3>1. j - Dropped \in 1..k /\ j - Dropped \in 1..Len(attempts) /\ Dropped + (j - Dropped) = j
      BY <1>1, <1>6, <2>2, Sizes
    <3>2. now - attempts[j - Dropped] >= Window
      BY <3>1 DEF Popped, Expired
    <3>3. attempts[j - Dropped] = starts[j]
      BY <3>1 DEF LimiterInv, QueueIsTail
    <3> QED BY <3>2, <3>3
  <2>3. j \in Int /\ Dropped \in Int
    BY Sizes
  <2> QED BY <2>1, <2>2, <2>3
<1> QED BY <1>3, <1>4, <1>5, <1>6

(***************************************************************************)
(* A call that starts no attempt (refused, given up or deferred) only pops *)
(* expired attempts, which keeps the invariant.                            *)
(***************************************************************************)
LEMMA PopInv ==
    ASSUME LimiterInv, NEW k \in 0..Len(attempts), Popped(k), attempts' = Remaining(k),
           UNCHANGED <<now, last_attempt, starts>>, status' \in {"ready", Manual}
    PROVE  LimiterInv'
<1>1. LimiterTypeOK'
  <2>1. Len(attempts') <= MaxRecoveries
    <3>1. Len(attempts) <= MaxRecoveries
      BY DEF LimiterInv, LimiterTypeOK
    <3>2. Len(attempts') = Len(attempts) - k
      BY PopKeepsTail
    <3> QED BY <3>1, <3>2, Sizes
  <2> QED BY <2>1, PopKeepsTail DEF LimiterInv, LimiterTypeOK
<1>2. Len(attempts') = Len(attempts) - k /\ Dropped' = Dropped + k
  <2>1. Len(attempts') = Len(attempts) - k /\ Len(starts') = Len(starts)
    BY PopKeepsTail
  <2>2. Dropped' = Len(starts') - Len(attempts')
    BY DEF Dropped
  <2> QED BY <2>1, <2>2, Sizes
<1>3. QueueIsTail'
  <2>1. Len(attempts') <= Len(starts')
    BY <1>2, Sizes
  <2>2. \A j \in 1..Len(attempts') : attempts'[j] = starts'[Dropped' + j]
    BY <1>2, PopKeepsTail
  <2>3. \A j \in 1..Len(starts') : j <= Dropped' => now' - starts'[j] >= Window
    BY <1>2, PopKeepsTail
  <2>4. \A j \in 1..Len(starts') : starts'[j] <= now'
    BY DEF LimiterInv, QueueIsTail
  <2> QED BY <2>1, <2>2, <2>3, <2>4 DEF QueueIsTail
<1>4. StartsInOrder' /\ LastIsLast' /\ RateLimited' /\ CooldownKept'
  BY DEF LimiterInv, StartsInOrder, LastIsLast, RateLimited, CooldownKept
<1> QED BY <1>1, <1>3, <1>4 DEF LimiterInv

(***************************************************************************)
(* Starting an attempt keeps the invariant: the limit test bounds the      *)
(* attempts behind the first unexpired one, the cooldown test the last.    *)
(***************************************************************************)
LEMMA StartInv == ASSUME LimiterInv, Start PROVE LimiterInv'
<1>1. now \in 0..MaxTime /\ starts \in Seq(0..MaxTime)
  BY DEF LimiterInv, LimiterTypeOK
<1>2. PICK k \in 0..Len(attempts) :
        Popped(k) /\ ~LimitReached(k) /\ ~CoolingDown /\ attempts' = Append(Remaining(k), now)
  BY DEF Start
<1>3. /\ Remaining(k) \in Seq(0..MaxTime)
      /\ Len(Remaining(k)) = Len(attempts) - k
      /\ \A j \in 1..(Len(attempts) - k) : Remaining(k)[j] = starts[Dropped + k + j]
      /\ \A j \in 1..Len(starts) : j <= Dropped + k => now - starts[j] >= Window
  BY <1>2, PopKeepsTail
<1>4. /\ starts' \in Seq(0..MaxTime)
      /\ starts' # <<>>
      /\ Len(starts') = Len(starts) + 1
      /\ \A j \in 1..Len(starts) : starts'[j] = starts[j]
      /\ starts'[Len(starts) + 1] = now
  BY <1>1, AppendProperties DEF Start
<1>5. /\ attempts' \in Seq(0..MaxTime)
      /\ Len(attempts') = Len(attempts) - k + 1
      /\ \A j \in 1..(Len(attempts) - k) : attempts'[j] = Remaining(k)[j]
      /\ attempts'[Len(attempts) - k + 1] = now
  BY <1>1, <1>2, <1>3, AppendProperties
<1>6. now' = now /\ last_attempt' = now /\ status' = status
  BY DEF Start
<1>7. LimiterTypeOK'
  <2>1. Len(attempts') <= MaxRecoveries
    BY <1>2, <1>3, <1>5, Sizes DEF LimitReached
  <2> QED BY <1>1, <1>4, <1>5, <1>6, <2>1 DEF LimiterInv, LimiterTypeOK
\* From here on only numbers: n attempts in the history, m in the queue.
<1>8. PICK n \in Nat, m \in Nat, d \in Nat :
        /\ n = Len(starts) /\ m = Len(attempts) - k /\ d = n - m /\ d = Dropped + k
  <2>1. /\ Len(starts) \in Nat /\ Len(attempts) - k \in Nat
        /\ Len(starts) - (Len(attempts) - k) \in Nat
        /\ Len(starts) - (Len(attempts) - k) = Dropped + k
    BY <1>2, Sizes
  <2> QED BY <2>1
<1>9. /\ Len(starts') = n + 1 /\ DOMAIN starts' = 1..(n + 1) /\ DOMAIN starts = 1..n
      /\ \A j \in 1..n : starts'[j] = starts[j] /\ starts[j] \in Nat /\ starts[j] <= now
      /\ starts'[n + 1] = now /\ now \in Nat
      /\ Len(attempts') = m + 1
      /\ \A j \in 1..m : attempts'[j] = starts[d + j]
      /\ attempts'[m + 1] = now
      /\ \A j \in 1..n : j <= d => now - starts[j] >= Window
  <2>1. Len(starts') = n + 1 /\ starts'[n + 1] = now /\ \A j \in 1..n : starts'[j] = starts[j]
    BY <1>4, <1>8
  <2>2. DOMAIN starts' = 1..(n + 1) /\ DOMAIN starts = 1..n
    BY <1>1, <1>4, <1>8
  <2>3. \A j \in 1..n : starts[j] \in Nat /\ starts[j] <= now
    BY <1>8, Sizes DEF LimiterInv, QueueIsTail
  <2>4. Len(attempts') = m + 1 /\ attempts'[m + 1] = now
    BY <1>5, <1>8
  <2>5. \A j \in 1..m : attempts'[j] = starts[d + j]
    BY <1>3, <1>5, <1>8
  <2>6. \A j \in 1..n : j <= d => now - starts[j] >= Window
    BY <1>3, <1>8
  <2>7. now \in Nat
    BY Sizes
  <2> QED BY <2>1, <2>2, <2>3, <2>4, <2>5, <2>6, <2>7
<1>10. QueueIsTail'
  <2>1. Dropped' = d
    BY <1>8, <1>9 DEF Dropped
  <2>2. \A j \in 1..(m + 1) : attempts'[j] = starts'[d + j]
    <3>1. \A j \in 1..m : d + j \in 1..n
      BY <1>8
    <3>2. d + (m + 1) = n + 1
      BY <1>8
    <3>3. \A j \in 1..(m + 1) : j \in 1..m \/ j = m + 1
      BY <1>8
    <3> QED BY <1>9, <3>1, <3>2, <3>3
  <2>3. \A j \in 1..(n + 1) : j \in 1..n \/ (j = n + 1 /\ ~(j <= d))
    BY <1>8
  <2>4. \A j \in 1..(n + 1) : starts'[j] <= now
    BY <1>9, <2>3
  <2>5. \A j \in 1..(n + 1) : j <= d => now - starts'[j] >= Window
    BY <1>9, <2>3
  <2>6. m + 1 <= n + 1
    BY <1>8
  <2> QED BY <1>6, <1>9, <2>1, <2>2, <2>4, <2>5, <2>6 DEF QueueIsTail
<1>11. LastIsLast'
  BY <1>4, <1>6 DEF LastIsLast
<1>12. RateLimited'
  <2> SUFFICES ASSUME NEW j \in 1..(n + 1), j + MaxRecoveries \in 1..(n + 1)
               PROVE  starts'[j + MaxRecoveries] - starts'[j] >= Window
    BY <1>9 DEF RateLimited
  <2>0. MaxRecoveries \in Nat /\ MaxRecoveries >= 1 /\ m < MaxRecoveries
    BY <1>2, <1>3, <1>8, Sizes DEF LimitReached
  <2>1. CASE j + MaxRecoveries <= n
    <3>1. j \in 1..n /\ j + MaxRecoveries \in 1..n
      BY <2>0, <2>1
    <3> QED BY <1>9, <3>1 DEF LimiterInv, RateLimited
  <2>2. CASE j + MaxRecoveries = n + 1
    <3>1. j \in 1..n /\ j <= d
      BY <1>8, <2>0, <2>2
    <3> QED BY <1>9, <2>2, <3>1
  <2>3. j + MaxRecoveries <= n \/ j + MaxRecoveries = n + 1
    BY <2>0
  <2> QED BY <2>1, <2>2, <2>3
<1>13. CooldownKept'
  <2> SUFFICES ASSUME NEW j \in 1..(n + 1), j + 1 \in 1..(n + 1)
               PROVE  starts'[j + 1] - starts'[j] >= Cooldown
    BY <1>9 DEF CooldownKept
  <2>1. CASE j + 1 <= n
    <3>1. j \in 1..n /\ j + 1 \in 1..n
      BY <2>1
    <3> QED BY <1>9, <3>1 DEF LimiterInv, CooldownKept
  <2>2. CASE j = n
    <3>1. starts # <<>>
      BY <1>8, <2>2
    <3>2. last_attempt = starts[n] /\ starts[n] \in Nat
      BY <1>8, <1>9, <2>2, <3>1 DEF LimiterInv, LastIsLast
    <3>3. ~(now - last_attempt < Cooldown)
      BY <1>2, <3>2 DEF CoolingDown, NoAttempt
    <3> QED BY <1>9, <2>2, <3>2, <3>3, Sizes
  <2> QED BY <2>1, <2>2
<1>14. StartsInOrder'
  <2>1. \A j \in 1..(n + 1) : j \in 1..n \/ j = n + 1
    BY <1>8
  <2>2. \A i, j \in 1..n : i <= j => starts[i] <= starts[j]
    BY <1>8 DEF LimiterInv, StartsInOrder
  <2>3. \A j \in 1..n : ~(n + 1 <= j)
    BY <1>8
  <2> QED BY <1>9, <2>1, <2>2, <2>3 DEF StartsInOrder
<1> QED BY <1>7, <1>10, <1>11, <1>12, <1>13, <1>14 DEF LimiterInv

(***************************************************************************)
(* Every step of the limiter keeps the invariant.                          *)
(***************************************************************************)
LEMMA NextInv == LimiterInv /\ [LimiterNext]_limiterVars => LimiterInv'
<1> SUFFICES ASSUME LimiterInv, [LimiterNext]_limiterVars PROVE LimiterInv'
  OBVIOUS
<1>1. CASE Refuse
  BY <1>1, PopInv DEF Refuse, LimiterInv, LimiterTypeOK
<1>2. CASE GiveUp
  BY <1>2, PopInv DEF GiveUp
<1>3. CASE Defer
  BY <1>3, PopInv DEF Defer, LimiterInv, LimiterTypeOK
<1>4. CASE Start
  BY <1>4, StartInv
<1>5. CASE Tick
  <2>1. LimiterTypeOK'
    BY <1>5, LimitsAssumption DEF Tick, LimiterInv, LimiterTypeOK
  <2>2. QueueIsTail'
    <3>1. /\ now' = now + 1 /\ now \in Nat /\ starts' = starts /\ attempts' = attempts
          /\ \A k \in 1..Len(starts) : starts[k] \in Nat
          /\ Dropped' = Dropped /\ Window \in Nat
      BY <1>5, Sizes DEF Tick, Dropped
    <3> QED BY <3>1 DEF LimiterInv, QueueIsTail
  <2> QED BY <1>5, <2>1, <2>2
      DEF Tick, LimiterInv, StartsInOrder, LastIsLast, RateLimited, CooldownKept
<1>6. CASE Forget
  <2>1. LimiterTypeOK'
    BY <1>6, LimitsAssumption DEF Forget, LimiterInv, LimiterTypeOK
  <2> QED BY <1>6, <2>1
      DEF Forget, LimiterInv, QueueIsTail, StartsInOrder, LastIsLast, RateLimited,
          CooldownKept
<1>7. CASE UNCHANGED limiterVars
  BY <1>7 DEF limiterVars, LimiterInv, LimiterTypeOK, QueueIsTail, Dropped,
              StartsInOrder, LastIsLast, RateLimited, CooldownKept
<1> QED BY <1>1, <1>2, <1>3, <1>4, <1>5, <1>6, <1>7 DEF LimiterNext

(***************************************************************************)
(* No window ever holds more than MaxRecoveries attempts of a process, and *)
(* consecutive attempts start a cooldown apart, for all settings.          *)
(***************************************************************************)
THEOREM LimitsHold == LimiterSpec => [](RateLimited /\ CooldownKept)
<1>1. LimiterInv => RateLimited /\ CooldownKept
  BY DEF LimiterInv
<1> QED BY <1>1, InitInv, NextInv, PTL DEF LimiterSpec

(***************************************************************************)
(* The types hold, and the queue of attempts is bounded by MaxRecoveries.  *)
(***************************************************************************)
THEOREM QueueIsBounded == LimiterSpec => []LimiterTypeOK
<1>1. LimiterInv => LimiterTypeOK
  BY DEF LimiterInv
<1> QED BY <1>1, InitInv, NextInv, PTL DEF LimiterSpec

(***************************************************************************)
(* The process gives up only on a full window, and for good.               *)
(***************************************************************************)
THEOREM GivingUpIsFinal == LimiterSpec => GivesUpForGood
<1> DEFINE Step ==
        /\ (status # Manual /\ status' = Manual) =>
              /\ Len(starts) >= MaxRecoveries
              /\ \A k \in DOMAIN starts : k > Len(starts) - MaxRecoveries =>
                    now - starts[k] < Window
        /\ (status = Manual /\ ~Forget) => status' = Manual /\ starts' = starts
<1>1. LimiterInv /\ [LimiterNext]_limiterVars => [Step]_limiterVars
  <2> SUFFICES ASSUME LimiterInv, LimiterNext PROVE Step
    BY DEF limiterVars
  <2>1. CASE GiveUp
    <3>1. PICK k \in 0..Len(attempts) : Popped(k) /\ LimitReached(k)
      BY <2>1 DEF GiveUp
    <3>2. Len(attempts) - k >= MaxRecoveries
      BY <3>1, PopKeepsTail DEF LimitReached
    <3>3. Len(starts) >= MaxRecoveries
      BY <3>2, Sizes
    \* Attempts start in order, so those behind the first unexpired one are unexpired.
    <3>4. ASSUME NEW j \in 1..Len(starts), j > Len(starts) - MaxRecoveries
          PROVE  now - starts[j] < Window
      <4>1. /\ k < Len(attempts) /\ k + 1 \in 1..Len(attempts)
            /\ Dropped + (k + 1) \in 1..Len(starts) /\ Dropped + (k + 1) <= j
        BY <3>1, <3>2, <3>4, Sizes
      <4>2. ~(now - starts[Dropped + (k + 1)] >= Window)
        BY <3>1, <4>1 DEF Popped, Expired, LimiterInv, QueueIsTail
      <4>3. starts[Dropped + (k + 1)] <= starts[j]
        BY <4>1 DEF LimiterInv, StartsInOrder
      <4>4. /\ starts[j] \in Nat /\ starts[Dropped + (k + 1)] \in Nat
            /\ now \in Nat /\ Window \in Nat
        BY <4>1, Sizes
      <4> QED BY <4>2, <4>3, <4>4
    <3> QED BY <2>1, <3>3, <3>4, Sizes DEF GiveUp
  <2>2. CASE Refuse \/ Defer \/ Start \/ Tick
    BY <2>2 DEF Refuse, Defer, Start, Tick
  <2>3. CASE Forget
    BY <2>3 DEF Forget, Manual
  <2> QED BY <2>1, <2>2, <2>3 DEF LimiterNext
<1> QED BY <1>1, InitInv, NextInv, PTL DEF LimiterSpec, GivesUpForGood

-----------------------------------------------------------------------------
(* The controller. *)

InAttempt == {"restore", "install", "restart", "waiting", "probe", "pause"}

\* From the answer of the gateway to the end of a restore nothing is awaited.
Instant == {"inspect", "healthy", "unhealthy", "restore", "install"}

\* A restore goes by a config_valid and a checksum of this very moment, so a valid
\* config it finds, or a backup that no longer verifies, was written in this moment.
Fresh ==
    /\ pc \in Instant => due = now
    /\ pc \in {"restore", "install"} => ~config_valid
    /\ (pc \in {"unhealthy", "restore", "install"} /\ ~config_valid /\ config \in Good)
          => last_change = now
    /\ (pc = "install" /\ ~Newest.intact) => last_change = now

Counted ==
    /\ incident <=> consecutive_failures >= Threshold
    /\ pc \in {"inspect", "healthy", "unhealthy"} => (gateway_up <=> result_ok)
    /\ pc = "healthy" => result_ok
    /\ pc = "unhealthy" => ~result_ok
    /\ pc \in InAttempt => ~gateway_up /\ consecutive_failures > 0
    /\ pc = "sleep" => (gateway_up <=> consecutive_failures = 0)

AttemptAllowed == pc \in InAttempt => status # Manual

-----------------------------------------------------------------------------
(* The limits. *)

(***************************************************************************)
(* Whatever the controller does is, for the limits, a step of the limiter: *)
(* it never touches them but through attempt_recovery, time and a new      *)
(* process.                                                                *)
(***************************************************************************)
LEMMA LimiterSteps == [Next]_vars => [LimiterNext]_limiterVars
<1> SUFFICES ASSUME [Next]_vars PROVE LimiterNext \/ UNCHANGED limiterVars
  OBVIOUS
<1>1. CASE TimePasses
  BY <1>1 DEF TimePasses, LimiterNext
<1>2. CASE Wake \/ CheckOnce \/ CheckConfig \/ HandleHealthy
  BY <1>2 DEF Wake, CheckOnce, CheckConfig, HandleHealthy
<1>3. CASE HandleUnhealthy
  BY <1>3 DEF HandleUnhealthy, Begin, LimiterNext
<1>4. CASE Restore \/ Install \/ RestartContainer \/ WaitForRunning \/ Probe \/ ProbeAgain
  BY <1>4 DEF Restore, Install, RestartContainer, WaitForRunning, Probe, ProbeAgain
<1>5. CASE Environment
  BY <1>5 DEF Environment, WriteConfig, StopOrStartContainer, ChangeDocker, ChangeNetwork,
              DamageBackup, RestartController, LimiterNext
<1>6. CASE UNCHANGED vars
  BY <1>6 DEF vars
<1> QED BY <1>1, <1>2, <1>3, <1>4, <1>5, <1>6 DEF Next, Task

(***************************************************************************)
(* The controller is a RecoveryLimiter, so all that is proved of the       *)
(* limiter holds of the running controller.                                *)
(***************************************************************************)
THEOREM ImplementsLimiter == Spec => LimiterSpec
<1>1. Init => LimiterInit
  BY DEF Init
<1> QED BY <1>1, LimiterSteps, PTL DEF Spec, LimiterSpec

-----------------------------------------------------------------------------
(* Types. *)

(***************************************************************************)
(* The pairs after a backup of a valid config: the new one last, and none  *)
(* pruned but the oldest.                                                  *)
(***************************************************************************)
LEMMA PairsAfterTake ==
    ASSUME backups \in Seq(Vault!Pair), config \in Good,
           NEW k \in 0..Vault!Excess(Vault!WithSnapshot(config)),
           backups' = Vault!Without(Vault!WithSnapshot(config), k)
    PROVE  /\ backups' \in Seq(Vault!Pair)
           /\ Len(backups) \in Nat /\ k \in Nat /\ Len(backups') = Len(backups) + 1 - k
           /\ backups' # <<>> /\ Newest' = Vault!Snapshot(config)
           /\ \A j \in 1..Len(backups') :
                  \/ backups'[j] = Vault!Snapshot(config)
                  \/ j + k \in 1..Len(backups) /\ backups'[j] = backups[j + k]
           /\ k <= Vault!Excess(Vault!WithSnapshot(config))
           /\ Vault!Excess(Vault!WithSnapshot(config))
                  = IF Len(backups) + 1 > Retention THEN Len(backups) + 1 - Retention ELSE 0
<1> DEFINE new == Vault!Snapshot(config)
           pairs == Append(backups, new)
<1>1. new \in Vault!Pair
  BY DEF Vault!Pair, Vault!Snapshot, Contents
<1> HIDE DEF new
<1>2. /\ pairs \in Seq(Vault!Pair) /\ Len(backups) \in Nat /\ Len(pairs) = Len(backups) + 1
      /\ \A j \in 1..Len(backups) : pairs[j] = backups[j]
      /\ pairs[Len(backups) + 1] = new
  BY <1>1
<1>3. Vault!WithSnapshot(config) = pairs
  BY DEF Vault!WithSnapshot, new
<1> HIDE DEF pairs
<1>4. Vault!Excess(pairs) = IF Len(pairs) > Retention THEN Len(pairs) - Retention ELSE 0
  BY DEF Vault!Excess
<1>5. k \in Nat /\ k <= Vault!Excess(pairs) /\ k < Len(pairs)
  BY <1>2, <1>3, <1>4, SettingsAssumption
<1>6. backups' = SubSeq(pairs, k + 1, Len(pairs))
  BY <1>3 DEF Vault!Without
<1>7. \A i \in (k + 1)..Len(pairs) : pairs[i] \in Vault!Pair
  BY <1>2, <1>5
<1>8. /\ backups' \in Seq(Vault!Pair)
      /\ Len(backups') = Len(pairs) - k
      /\ \A i \in 1..(Len(pairs) - k) : backups'[i] = pairs[k + i]
  <2>1. k + 1 \in Int /\ Len(pairs) \in Int /\ k + 1 <= Len(pairs)
    BY <1>2, <1>5
  <2>2. /\ backups' \in Seq(Vault!Pair)
        /\ Len(backups') = Len(pairs) - (k + 1) + 1
        /\ \A i \in 1..(Len(pairs) - (k + 1) + 1) : backups'[i] = pairs[k + 1 + i - 1]
    BY <1>6, <1>7, <2>1, SubSeqProperties
  <2> QED BY <2>1, <2>2
<1>9. ASSUME NEW j \in 1..Len(backups')
      PROVE  backups'[j] = new \/ (j + k \in 1..Len(backups) /\ backups'[j] = backups[j + k])
  BY <1>2, <1>5, <1>8
<1>10. /\ Vault!Excess(Vault!WithSnapshot(config)) = Vault!Excess(pairs)
       /\ Vault!Excess(pairs)
              = IF Len(backups) + 1 > Retention THEN Len(backups) + 1 - Retention ELSE 0
  <2>1. Vault!Excess(Vault!WithSnapshot(config)) = Vault!Excess(pairs)
    BY <1>3
  <2>2. Len(pairs) = Len(backups) + 1 /\ Len(backups) \in Nat
    BY <1>2
  <2> QED BY <1>4, <2>1, <2>2, SettingsAssumption
<1>11. Len(backups') = Len(backups) + 1 - k
  BY <1>2, <1>8
<1>12. backups' # <<>> /\ Newest' = new
  <2>1. Len(backups') \in 1..(Len(pairs) - k) /\ k + Len(backups') = Len(backups) + 1
    BY <1>2, <1>5, <1>8
  <2>2. backups'[Len(backups')] = new
    BY <1>2, <1>8, <2>1
  <2>3. backups' # <<>>
    BY <1>8, <2>1
  <2> QED BY <2>2, <2>3 DEF Newest
<1> QED BY <1>2, <1>5, <1>8, <1>9, <1>10, <1>11, <1>12 DEF new

(***************************************************************************)
(* The steps that touch the backups take one, or damage one.               *)
(***************************************************************************)
LEMMA BackupSteps ==
    ASSUME TypeOK, Next, backups' # backups
    PROVE  \/ /\ config \in Good
              /\ \E k \in 0..Vault!Excess(Vault!WithSnapshot(config)) :
                     /\ backups' = Vault!Without(Vault!WithSnapshot(config), k)
                     /\ \/ changes' = changes /\ k = Vault!Excess(Vault!WithSnapshot(config))
                        \/ changes' = changes + 1
           \/ \E k \in DOMAIN backups, pair \in Vault!Pair : Vault!Damage(k, pair)
<1>1. CASE HandleHealthy
  <2>1. Backup
    BY <1>1 DEF HandleHealthy
  <2>2. CASE ConfigValid(config) /\ TakeAndPrune /\ UNCHANGED changeVars
    <3>1. Vault!Excess(Vault!WithSnapshot(config)) \in Nat
      <4>1. Len(Vault!WithSnapshot(config)) \in Nat
        BY DEF TypeOK, Vault!WithSnapshot, Vault!Snapshot, Vault!Pair
      <4> QED BY <4>1, SettingsAssumption DEF Vault!Excess
    <3> QED BY <2>2, <3>1 DEF ConfigValid, TakeAndPrune, changeVars
  <2>3. CASE ConfigValid(config) /\ Change /\ Vault!Take(config)
    BY <2>3 DEF ConfigValid, Change, Vault!Take
  <2> QED BY <2>1, <2>2, <2>3 DEF Backup
<1>2. ASSUME NEW k \in DOMAIN backups, DamageBackup(k)
      PROVE  \E pair \in Vault!Pair : Vault!Damage(k, pair)
  <2>1. backups[k] \in Vault!Pair
    BY ElementOfSeq DEF TypeOK
  <2>2. PICK pair \in Damaged(backups[k]) : Vault!Damage(k, pair)
    BY <1>2 DEF DamageBackup
  <2>3. pair \in Vault!Pair
    BY <2>1 DEF Damaged, Vault!Pair, Contents
  <2> QED BY <2>2, <2>3
<1>3. CASE Environment
  BY <1>2, <1>3 DEF Environment, WriteConfig, StopOrStartContainer, ChangeDocker, ChangeNetwork,
                    RestartController
<1> QED BY <1>1, <1>3
     DEF Next, Task, TimePasses, Wake, CheckOnce, CheckConfig, HandleUnhealthy, Restore, Install,
         RestartContainer, WaitForRunning, Probe, ProbeAgain

(***************************************************************************)
(* Backups stay a sequence of pairs.                                       *)
(***************************************************************************)
LEMMA BackupsType ==
    ASSUME TypeOK, Next
    PROVE  backups' \in Seq(Vault!Pair)
<1>1. ASSUME NEW k \in DOMAIN backups, NEW pair \in Vault!Pair, Vault!Damage(k, pair)
      PROVE  backups' \in Seq(Vault!Pair)
  BY <1>1, ExceptSeq DEF Vault!Damage, TypeOK
<1> QED BY <1>1, BackupSteps, PairsAfterTake DEF TypeOK

\* The part of TypeOK about the program counter and its times.
TaskTypes ==
    /\ pc \in {"request", "inspect", "healthy", "unhealthy", "restore", "install",
               "restart", "waiting", "probe", "pause", "sleep", "dead"}
    /\ wake \in Nat /\ due \in Nat /\ next_deadline \in Nat /\ deadline \in Nat
    /\ pc # "dead" => now <= due

(***************************************************************************)
(* The task keeps its types and is never overrun: an await ends no earlier *)
(* than it begins, and the clock stops at what is due.                     *)
(***************************************************************************)
LEMMA TaskTypesStep ==
    ASSUME TypeOK, LimiterTypeOK', Next
    PROVE  TaskTypes'
<1> USE SettingsAssumption
<1>1. CASE Wake
  BY <1>1 DEF TypeOK, LimiterTypeOK, TaskTypes, limiterVars, taskVars, Wake, Await
<1>2. CASE CheckOnce
  BY <1>2 DEF TypeOK, LimiterTypeOK, TaskTypes, limiterVars, taskVars, CheckOnce, Await,
              GatewayHealthy, GatewayAccepts
<1>3. CASE CheckConfig
  BY <1>3 DEF TypeOK, LimiterTypeOK, TaskTypes, limiterVars, taskVars, CheckConfig, Await, Dies,
              ConfigValid
<1>4. CASE HandleHealthy
  <2>1. now' = now /\ deadline' = deadline
    BY <1>4 DEF HandleHealthy, limiterVars
  <2>2. CASE SleepUntilDeadline
    BY <2>1, <2>2 DEF TypeOK, LimiterTypeOK, TaskTypes, SleepUntilDeadline, Await, Later
  <2>3. CASE Dies
    BY <2>1, <2>3 DEF TypeOK, LimiterTypeOK, TaskTypes, Dies, Await
  <2> QED BY <1>4, <2>2, <2>3 DEF HandleHealthy, Backup
<1>5. CASE HandleUnhealthy
  <2>1. now' = now /\ deadline' = deadline
    BY <1>5 DEF HandleUnhealthy, Begin, Start, GiveUp, Defer, limiterVars
  <2>2. CASE SleepUntilDeadline
    BY <2>1, <2>2 DEF TypeOK, LimiterTypeOK, TaskTypes, SleepUntilDeadline, Await, Later
  <2>3. CASE FirstStep /\ UNCHANGED next_deadline
    BY <2>1, <2>3 DEF TypeOK, LimiterTypeOK, TaskTypes, FirstStep, Await
  <2> QED BY <1>5, <2>2, <2>3 DEF HandleUnhealthy
<1>6. CASE Restore \/ Install
  BY <1>6 DEF TypeOK, LimiterTypeOK, TaskTypes, limiterVars, taskVars, Restore, Install, Await,
              Fails, SleepUntilDeadline, Later
<1>7. CASE RestartContainer
  BY <1>7 DEF TypeOK, LimiterTypeOK, TaskTypes, limiterVars, taskVars, RestartContainer, Await,
              Fails, SleepUntilDeadline, Later
<1>8. CASE WaitForRunning
  BY <1>8 DEF TypeOK, LimiterTypeOK, TaskTypes, limiterVars, taskVars, WaitForRunning, Await,
              Fails, SleepUntilDeadline, Later, Sooner
<1>9. CASE Probe
  BY <1>9 DEF TypeOK, LimiterTypeOK, TaskTypes, limiterVars, taskVars, Probe, Await, Fails,
              Succeeds, RecordSuccess, SleepUntilDeadline, Later, Sooner
<1>10. CASE ProbeAgain
  BY <1>10 DEF TypeOK, LimiterTypeOK, TaskTypes, limiterVars, taskVars, ProbeAgain, Await
<1>11. CASE TimePasses
  BY <1>11 DEF TypeOK, LimiterTypeOK, TaskTypes, limiterVars, taskVars, TimePasses, Tick
<1>12. CASE Environment
  BY <1>12 DEF TypeOK, LimiterTypeOK, TaskTypes, limiterVars, taskVars, Environment,
               WriteConfig, StopOrStartContainer, ChangeDocker, ChangeNetwork, DamageBackup,
               RestartController, Await, Forget
<1> QED BY <1>1, <1>2, <1>3, <1>4, <1>5, <1>6, <1>7, <1>8, <1>9, <1>10, <1>11, <1>12 DEF Next, Task

(***************************************************************************)
(* A step either is a change by the environment or leaves its count alone. *)
(***************************************************************************)
LEMMA ChangeSteps == Next => Change \/ UNCHANGED changeVars
<1> SUFFICES ASSUME Next PROVE Change \/ UNCHANGED changeVars
  OBVIOUS
<1>1. CASE TimePasses \/ Wake \/ CheckOnce \/ CheckConfig
  BY <1>1 DEF TimePasses, Wake, CheckOnce, CheckConfig
<1>2. CASE HandleHealthy \/ HandleUnhealthy
  BY <1>2 DEF HandleHealthy, HandleUnhealthy, Backup
<1>3. CASE Restore \/ Install \/ RestartContainer \/ WaitForRunning \/ Probe \/ ProbeAgain
  BY <1>3 DEF Restore, Install, RestartContainer, WaitForRunning, Probe, ProbeAgain
<1>4. CASE Environment
  BY <1>4 DEF Environment, WriteConfig, StopOrStartContainer, ChangeDocker, ChangeNetwork,
              DamageBackup, RestartController
<1> QED BY <1>1, <1>2, <1>3, <1>4 DEF Next, Task

(***************************************************************************)
(* The flags keep their types.                                             *)
(***************************************************************************)
LEMMA FlagTypesStep ==
    ASSUME TypeOK, Next
    PROVE  /\ result_ok' \in BOOLEAN /\ config_valid' \in BOOLEAN /\ incident' \in BOOLEAN
           /\ running' \in BOOLEAN /\ network' \in BOOLEAN /\ gateway_up' \in BOOLEAN
<1>0. /\ result_ok \in BOOLEAN /\ config_valid \in BOOLEAN /\ incident \in BOOLEAN
      /\ running \in BOOLEAN /\ network \in BOOLEAN /\ gateway_up \in BOOLEAN
  BY DEF TypeOK
<1>1. CASE Wake \/ ProbeAgain \/ TimePasses
  BY <1>0, <1>1 DEF Wake, ProbeAgain, TimePasses, taskVars, memoryVars, worldVars
<1>2. CASE CheckOnce
  BY <1>0, <1>2, Zenon DEF CheckOnce, GatewayHealthy, GatewayAccepts, worldVars
<1>3. CASE CheckConfig
  <2>1. config_valid' \in BOOLEAN
    <3>1. CASE config_valid' = config_valid
      BY <1>0, <3>1
    <3>2. CASE config_valid' = (config \in Good)
      <4>1. (config \in Good) \in BOOLEAN
        OBVIOUS
      <4> QED BY <3>2, <4>1, Zenon
    <3> QED BY <1>3, <3>1, <3>2 DEF CheckConfig, ConfigValid
  <2>2. UNCHANGED <<result_ok, incident, running, network, gateway_up>>
    BY <1>3 DEF CheckConfig, memoryVars, worldVars
  <2> QED BY <1>0, <2>1, <2>2
<1>4. CASE HandleHealthy
  BY <1>0, <1>4 DEF HandleHealthy, RecordSuccess, worldVars
<1>5. CASE HandleUnhealthy
  BY <1>0, <1>5, Zenon DEF HandleUnhealthy, Opens, worldVars
<1>6. CASE Restore \/ Install
  BY <1>0, <1>6 DEF Restore, Install, Fails, memoryVars, worldVars
<1>7. CASE RestartContainer
  BY <1>0, <1>7 DEF RestartContainer, Fails, memoryVars
<1>8. CASE WaitForRunning
  BY <1>0, <1>8 DEF WaitForRunning, Fails, memoryVars, worldVars
<1>9. CASE Probe
  BY <1>0, <1>9 DEF Probe, Fails, Succeeds, RecordSuccess, memoryVars, worldVars
<1>10. CASE Environment
  BY <1>0, <1>10 DEF Environment, WriteConfig, StopOrStartContainer, ChangeDocker,
     ChangeNetwork, DamageBackup, RestartController, taskVars, memoryVars, worldVars
<1> QED BY <1>1, <1>2, <1>3, <1>4, <1>5, <1>6, <1>7, <1>8, <1>9, <1>10 DEF Next, Task

(***************************************************************************)
(* Counters and times of the controller move in these ways only.           *)
(***************************************************************************)
LEMMA NumberSteps ==
    ASSUME Next
    PROVE  /\ consecutive_failures' \in {0, consecutive_failures, consecutive_failures + 1}
           /\ last_backup' \in {last_backup, now, Never}
           /\ completed' \in {completed, now, Never}
           /\ planned' \in {planned, planned + Interval, now}
<1>1. CASE Wake \/ ProbeAgain \/ TimePasses \/ CheckOnce \/ CheckConfig
  BY <1>1 DEF Wake, ProbeAgain, TimePasses, CheckOnce, CheckConfig, memoryVars
<1>2. CASE HandleHealthy
  BY <1>2 DEF HandleHealthy, RecordSuccess, Backup
<1>3. CASE HandleUnhealthy
  BY <1>3 DEF HandleUnhealthy
<1>4. CASE Restore \/ Install \/ RestartContainer \/ WaitForRunning
  BY <1>4 DEF Restore, Install, RestartContainer, WaitForRunning, Fails, memoryVars
<1>5. CASE Probe
  BY <1>5 DEF Probe, Fails, Succeeds, RecordSuccess, memoryVars
<1>6. CASE Environment
  BY <1>6 DEF Environment, WriteConfig, StopOrStartContainer, ChangeDocker, ChangeNetwork,
              DamageBackup, RestartController, memoryVars
<1> QED BY <1>1, <1>2, <1>3, <1>4, <1>5, <1>6 DEF Next, Task

(***************************************************************************)
(* The config file and Docker stay in one of their states.                 *)
(***************************************************************************)
LEMMA WorldTypesStep ==
    ASSUME TypeOK, Next
    PROVE  config' \in Contents /\ docker' \in {"ok", "unlabelled", "down"}
<1>0. config \in Contents /\ docker \in {"ok", "unlabelled", "down"}
  BY DEF TypeOK
<1>1. CASE Install
  <2>1. backups \in Seq(Vault!Pair) /\ backups # <<>>
    BY <1>1 DEF TypeOK, Install
  <2>2. Len(backups) \in 1..Len(backups)
    BY <2>1
  <2>3. Newest \in Vault!Pair
    BY <2>1, <2>2, ElementOfSeq DEF Newest
  <2>4. Newest.content \in Contents
    BY <2>3 DEF Vault!Pair
  <2> QED BY <1>0, <1>1, <2>4 DEF Install
<1>2. CASE Environment
  BY <1>0, <1>2 DEF Environment, WriteConfig, StopOrStartContainer, ChangeDocker,
                    ChangeNetwork, DamageBackup, RestartController, worldVars
<1>3. CASE TimePasses \/ Wake \/ CheckOnce \/ CheckConfig \/ HandleHealthy \/ HandleUnhealthy
  BY <1>0, <1>3 DEF TimePasses, Wake, CheckOnce, CheckConfig, HandleHealthy, HandleUnhealthy,
                    worldVars
<1>4. CASE Restore \/ RestartContainer \/ WaitForRunning \/ Probe \/ ProbeAgain
  BY <1>0, <1>4 DEF Restore, RestartContainer, WaitForRunning, Probe, ProbeAgain, worldVars
<1> QED BY <1>1, <1>2, <1>3, <1>4 DEF Next, Task

(***************************************************************************)
(* A backup that verified is there when it is to be installed.             *)
(***************************************************************************)
LEMMA BackupIsThere ==
    ASSUME TypeOK, Next, pc' = "install"
    PROVE  backups' # <<>>
<1>1. CASE Restore
  BY <1>1 DEF Restore, Restorable, Fails, SleepUntilDeadline, Await
<1>2. CASE pc = "install"
  <2>1. backups \in Seq(Vault!Pair) /\ backups # <<>>
    BY <1>2 DEF TypeOK
  <2>2. CASE backups' = backups
    BY <2>1, <2>2
  <2>3. CASE \E k \in DOMAIN backups, pair \in Vault!Pair : Vault!Damage(k, pair)
    BY <2>1, <2>3 DEF Vault!Damage
  <2> QED BY <2>2, <2>3, BackupSteps, PairsAfterTake DEF TypeOK
<1> QED BY <1>1, <1>2
     DEF Next, Task, Environment, TimePasses, Wake, CheckOnce, CheckConfig, HandleHealthy, Backup,
         HandleUnhealthy, FirstStep, Install, RestartContainer, WaitForRunning, Probe, ProbeAgain,
         WriteConfig, StopOrStartContainer, ChangeDocker, ChangeNetwork, DamageBackup,
         RestartController, Fails, Succeeds, Dies, SleepUntilDeadline, Await, taskVars

(***************************************************************************)
(* Every step keeps the types.                                             *)
(***************************************************************************)
LEMMA TypeStep == TypeOK /\ LimiterTypeOK' /\ [Next]_vars => TypeOK'
<1> SUFFICES ASSUME TypeOK, LimiterTypeOK', [Next]_vars PROVE TypeOK'
  OBVIOUS
<1>1. CASE Next
  <2>1. /\ TaskTypes' /\ backups' \in Seq(Vault!Pair)
        /\ pc' = "install" => backups' # <<>>
    BY <1>1, TaskTypesStep, BackupsType, BackupIsThere
  <2>2. changes' \in 0..MaxChanges /\ last_change' \in Nat
    BY <1>1, ChangeSteps, SettingsAssumption DEF TypeOK, LimiterTypeOK, Change, changeVars
  <2>3. /\ consecutive_failures' \in Nat
        /\ last_backup' \in Nat \cup {Never} /\ completed' \in Nat \cup {Never}
        /\ planned' \in Nat
    BY <1>1, NumberSteps, SettingsAssumption DEF TypeOK, LimiterTypeOK
  <2> QED BY <1>1, <2>1, <2>2, <2>3, FlagTypesStep, WorldTypesStep DEF TypeOK, TaskTypes
<1>2. CASE UNCHANGED vars
  BY <1>2 DEF TypeOK, LimiterTypeOK, vars, limiterVars, taskVars, memoryVars, worldVars,
              changeVars
<1> QED BY <1>1, <1>2

(***************************************************************************)
(* A controller that has just been started has the types.                  *)
(***************************************************************************)
LEMMA InitType == Init => TypeOK
<1> SUFFICES ASSUME Init PROVE TypeOK
  OBVIOUS
<1>1. LimiterTypeOK /\ now = 0
  BY InitInv DEF Init, LimiterInv, LimiterInit
<1>2. backups \in Seq(Vault!Pair)
  BY DEF Init
<1>3. config \in Contents
  BY DEF Init, Contents
<1>4. wake \in Nat /\ due \in Nat /\ next_deadline \in Nat /\ deadline \in Nat /\ now <= due
  BY <1>1, SettingsAssumption DEF Init
<1>5. /\ result_ok \in BOOLEAN /\ config_valid \in BOOLEAN /\ incident \in BOOLEAN
      /\ running \in BOOLEAN /\ network \in BOOLEAN /\ gateway_up \in BOOLEAN
  BY DEF Init
<1>6. /\ consecutive_failures \in Nat /\ changes \in 0..MaxChanges /\ last_change \in Nat
      /\ last_backup \in Nat \cup {Never} /\ completed \in Nat \cup {Never} /\ planned \in Nat
  BY SettingsAssumption DEF Init
<1>7. pc = "request" /\ docker = "ok"
  BY DEF Init
<1> QED BY <1>1, <1>2, <1>3, <1>4, <1>5, <1>6, <1>7 DEF TypeOK

(***************************************************************************)
(* The types and the limits together, which is what the other parts start  *)
(* from.                                                                   *)
(***************************************************************************)
LEMMA BaseInvariant == Spec => [](TypeOK /\ LimiterInv)
<1>1. Init => TypeOK /\ LimiterInv
  BY InitType, InitInv DEF Init
<1>2. TypeOK /\ LimiterInv /\ [Next]_vars => (TypeOK /\ LimiterInv)'
  <2>1. LimiterInv /\ [Next]_vars => LimiterInv'
    BY LimiterSteps, NextInv
  <2>2. LimiterInv' => LimiterTypeOK'
    BY DEF LimiterInv
  <2> QED BY <2>1, <2>2, TypeStep
<1> QED BY <1>1, <1>2, PTL DEF Spec

(***************************************************************************)
(* TypeOK holds for all settings: in particular no wait is overrun, the    *)
(* clock never passes what the task is due by.                             *)
(***************************************************************************)
THEOREM ControllerTypes == Spec => []TypeOK
BY BaseInvariant, PTL

(***************************************************************************)
(* The limits of attempt_recovery hold of the whole controller, whatever   *)
(* order checks, recoveries and changes come in: never more than           *)
(* MaxRecoveries attempts in a window, nor two within a cooldown.          *)
(***************************************************************************)
THEOREM ControllerLimits == Spec => [](RateLimited /\ CooldownKept)
BY ImplementsLimiter, LimitsHold, PTL

(***************************************************************************)
(* The controller gives up only after MaxRecoveries attempts within the    *)
(* window, and then until it is restarted.                                 *)
(***************************************************************************)
THEOREM ControllerGivesUp == Spec => GivesUpForGood
BY ImplementsLimiter, GivingUpIsFinal, PTL

-----------------------------------------------------------------------------
(* Incidents. *)

(***************************************************************************)
(* Counted is inductive: the equality test that opens an incident never    *)
(* misses the threshold, because the count and the incident are reset      *)
(* together.                                                               *)
(***************************************************************************)
LEMMA CountedStep == TypeOK /\ Counted /\ [Next]_vars => Counted'
<1> SUFFICES ASSUME TypeOK, Counted, [Next]_vars PROVE Counted'
  OBVIOUS
<1> USE SettingsAssumption DEF Counted, InAttempt
<1>0. /\ consecutive_failures \in Nat /\ incident \in BOOLEAN /\ gateway_up \in BOOLEAN
      /\ result_ok \in BOOLEAN /\ Threshold \in Nat /\ Threshold > 0
  BY DEF TypeOK
<1>1. CASE Wake \/ ProbeAgain
  BY <1>0, <1>1 DEF Wake, ProbeAgain, Await, memoryVars
<1>2. CASE CheckOnce
  BY <1>0, <1>2 DEF CheckOnce, Await
<1>3. CASE CheckConfig
  BY <1>0, <1>3 DEF CheckConfig, Await, Dies, memoryVars
<1>4. CASE HandleHealthy
  BY <1>0, <1>4 DEF HandleHealthy, Backup, RecordSuccess, SleepUntilDeadline, Await, Dies
<1>5. CASE HandleUnhealthy
  <2>1. /\ UNCHANGED <<gateway_up, result_ok>> /\ ~gateway_up
        /\ consecutive_failures' = consecutive_failures + 1
        /\ incident' = (incident \/ Opens)
        /\ pc' \in {"sleep", "restore", "restart"}
    BY <1>0, <1>5 DEF HandleUnhealthy, SleepUntilDeadline, FirstStep, Await
  <2>2. incident' <=> consecutive_failures' >= Threshold
    <3>1. incident' <=> incident \/ Opens
      BY <2>1, Zenon
    <3> QED BY <1>0, <2>1, <3>1 DEF Opens
  <2> QED BY <1>0, <2>1, <2>2
<1>6. CASE Restore \/ Install
  BY <1>0, <1>6 DEF Restore, Install, Fails, SleepUntilDeadline, Await, memoryVars
<1>7. CASE RestartContainer
  BY <1>0, <1>7 DEF RestartContainer, Fails, SleepUntilDeadline, Await, memoryVars
<1>8. CASE WaitForRunning
  BY <1>0, <1>8 DEF WaitForRunning, Fails, SleepUntilDeadline, Await, memoryVars
<1>9. CASE Probe
  BY <1>0, <1>9 DEF Probe, Fails, Succeeds, RecordSuccess, SleepUntilDeadline, Await, memoryVars
<1>10. CASE RestartController
  BY <1>0, <1>10 DEF RestartController, Await
<1>11. CASE TimePasses \/ (Environment /\ ~RestartController) \/ UNCHANGED vars
  BY <1>11 DEF TimePasses, Environment, WriteConfig, StopOrStartContainer, ChangeDocker,
               ChangeNetwork, DamageBackup, taskVars, memoryVars, vars
<1> QED BY <1>1, <1>2, <1>3, <1>4, <1>5, <1>6, <1>7, <1>8, <1>9, <1>10, <1>11
        DEF Next, Task

(***************************************************************************)
(* ARCH-2: between two checks an incident is open exactly when the last    *)
(* Threshold checks failed, and the gauge tells how the last one went.     *)
(***************************************************************************)
THEOREM IncidentsAreRight == Spec => []IncidentTracksChecks
<1>1. Init => Counted
  BY SettingsAssumption DEF Init, Counted, InAttempt
<1>2. Counted => IncidentTracksChecks
  BY DEF Counted, IncidentTracksChecks
<1> QED BY <1>1, <1>2, CountedStep, ControllerTypes, PTL DEF Spec

-----------------------------------------------------------------------------
(* Giving up. *)

(***************************************************************************)
(* Every change by the environment is counted.                             *)
(***************************************************************************)
LEMMA EnvironmentCounts ==
    ASSUME TypeOK, Environment
    PROVE  changes' # changes /\ last_change' = now /\ now' = now
<1>1. Change /\ now' = now
  BY DEF Environment, WriteConfig, StopOrStartContainer, ChangeDocker, ChangeNetwork,
         DamageBackup, RestartController, Forget, limiterVars
<1> QED BY <1>1, SettingsAssumption DEF Change, TypeOK

(***************************************************************************)
(* An attempt is under way only while the controller has not given up.     *)
(***************************************************************************)
LEMMA AttemptAllowedStep == AttemptAllowed /\ [Next]_vars => AttemptAllowed'
<1> SUFFICES ASSUME AttemptAllowed, [Next]_vars PROVE AttemptAllowed'
  OBVIOUS
<1> USE DEF AttemptAllowed, InAttempt
<1>1. CASE Wake \/ CheckOnce \/ CheckConfig \/ HandleHealthy
  BY <1>1 DEF Wake, CheckOnce, CheckConfig, HandleHealthy, Backup, SleepUntilDeadline, Await, Dies
<1>2. CASE HandleUnhealthy
  BY <1>2 DEF HandleUnhealthy, Begin, Start, SleepUntilDeadline, Await
<1>3. CASE Restore \/ Install
  BY <1>3 DEF Restore, Install, limiterVars
<1>4. CASE RestartContainer \/ WaitForRunning
  BY <1>4 DEF RestartContainer, WaitForRunning, limiterVars
<1>5. CASE Probe \/ ProbeAgain
  BY <1>5 DEF Probe, ProbeAgain, limiterVars
<1>6. CASE TimePasses \/ UNCHANGED vars
  BY <1>6 DEF TimePasses, Tick, vars, taskVars, limiterVars
<1>7. CASE RestartController
  BY <1>7 DEF RestartController, Await
<1>8. CASE Environment /\ ~RestartController
  BY <1>8 DEF Environment, WriteConfig, StopOrStartContainer, ChangeDocker, ChangeNetwork,
              DamageBackup, limiterVars, taskVars
<1> QED BY <1>1, <1>2, <1>3, <1>4, <1>5, <1>6, <1>7, <1>8 DEF Next, Task

(***************************************************************************)
(* ARCH-9: a controller that asked for manual intervention installs no     *)
(* config and restarts no container until it is restarted itself.          *)
(***************************************************************************)
THEOREM ManualMeansHandsOff == Spec => HandsOff
<1>1. Init => AttemptAllowed
  BY DEF Init, AttemptAllowed, InAttempt
<1>2. ASSUME TypeOK, AttemptAllowed, [Next]_vars, status = Manual, changes' = changes
      PROVE  status' = Manual /\ config' = config /\ running' = running
  <2>1. ~Environment
    BY <1>2, EnvironmentCounts
  <2>2. pc \notin InAttempt
    BY <1>2 DEF AttemptAllowed
  <2>3. CASE TimePasses \/ Wake \/ CheckOnce \/ CheckConfig \/ HandleHealthy
    BY <1>2, <2>3 DEF TimePasses, Tick, Wake, CheckOnce, CheckConfig, HandleHealthy,
                      limiterVars, worldVars
  <2>4. CASE HandleUnhealthy
    BY <1>2, <2>4 DEF HandleUnhealthy, limiterVars, worldVars
  <2>5. CASE Restore \/ Install \/ RestartContainer \/ WaitForRunning \/ Probe \/ ProbeAgain
    BY <2>2, <2>5 DEF Restore, Install, RestartContainer, WaitForRunning, Probe, ProbeAgain,
                      InAttempt
  <2>6. CASE UNCHANGED vars
    BY <1>2, <2>6 DEF vars, limiterVars, worldVars
  <2> QED BY <1>2, <2>1, <2>3, <2>4, <2>5, <2>6 DEF Next, Task
<1>3. TypeOK /\ AttemptAllowed /\ [Next]_vars =>
         [(status = Manual /\ changes' = changes)
             => status' = Manual /\ config' = config /\ running' = running]_vars
  BY <1>2
<1> QED BY <1>1, <1>3, AttemptAllowedStep, ControllerTypes, PTL DEF Spec, HandsOff

-----------------------------------------------------------------------------
(* Backups and what is installed from them. *)

(***************************************************************************)
(* BackupsAreGood is inductive with the types.                             *)
(***************************************************************************)
LEMMA BackupsAreGoodStep == TypeOK /\ BackupsAreGood /\ [Next]_vars => BackupsAreGood'
<1> SUFFICES ASSUME TypeOK, BackupsAreGood, [Next]_vars PROVE BackupsAreGood'
  OBVIOUS
<1>0. /\ changes \in Nat /\ Retention \in Nat /\ Len(backups) \in Nat
      /\ backups \in Seq(Vault!Pair) /\ Len(backups) <= Retention + changes
  BY SettingsAssumption DEF TypeOK, BackupsAreGood
<1>1. CASE UNCHANGED backups
  <2>1. changes' = changes \/ changes' = changes + 1
    BY ChangeSteps DEF vars, Change, changeVars
  <2> QED BY <1>0, <1>1, <2>1 DEF BackupsAreGood
<1>2. ASSUME Next, config \in Good, NEW k \in 0..Vault!Excess(Vault!WithSnapshot(config)),
             backups' = Vault!Without(Vault!WithSnapshot(config), k),
             \/ changes' = changes /\ k = Vault!Excess(Vault!WithSnapshot(config))
             \/ changes' = changes + 1
      PROVE  BackupsAreGood'
  <2>1. /\ k \in Nat /\ Len(backups') = Len(backups) + 1 - k
        /\ \A j \in 1..Len(backups') :
              \/ backups'[j] = Vault!Snapshot(config)
              \/ j + k \in 1..Len(backups) /\ backups'[j] = backups[j + k]
        /\ Vault!Excess(Vault!WithSnapshot(config))
               = IF Len(backups) + 1 > Retention THEN Len(backups) + 1 - Retention ELSE 0
        /\ backups' \in Seq(Vault!Pair)
    BY <1>0, <1>2, PairsAfterTake
  <2>2. Len(backups') <= Retention + changes'
    BY <1>0, <1>2, <2>1
  <2>3. ASSUME NEW j \in DOMAIN backups', backups'[j].intact
        PROVE  backups'[j].content \in Good
    <3>1. j \in 1..Len(backups')
      BY <2>1
    <3>2. CASE backups'[j] = Vault!Snapshot(config)
      BY <1>2, <3>2 DEF Vault!Snapshot
    <3>3. CASE j + k \in 1..Len(backups) /\ backups'[j] = backups[j + k]
      <4>1. j + k \in DOMAIN backups
        BY <1>0, <3>3
      <4> QED BY <2>3, <3>3, <4>1 DEF BackupsAreGood
    <3> QED BY <2>1, <3>1, <3>2, <3>3
  <2> QED BY <2>2, <2>3 DEF BackupsAreGood
<1>3. ASSUME NEW k \in DOMAIN backups, NEW pair \in Vault!Pair, Vault!Damage(k, pair)
      PROVE  BackupsAreGood'
  <2>1. /\ Len(backups') = Len(backups) /\ DOMAIN backups' = DOMAIN backups
        /\ changes' = changes + 1
        /\ backups'[k] = pair /\ ~pair.intact
        /\ \A j \in DOMAIN backups : j # k => backups'[j] = backups[j]
    BY <1>0, <1>3 DEF Vault!Damage
  <2> QED BY <1>0, <2>1 DEF BackupsAreGood
<1> QED BY <1>1, <1>2, <1>3, BackupSteps DEF vars

(***************************************************************************)
(* ARCH-3: an intact backup holds a valid config, and there are never more *)
(* than Retention pairs but for one for each failure of the environment.   *)
(***************************************************************************)
THEOREM IntactBackupsAreGood == Spec => []BackupsAreGood
<1>1. Init => BackupsAreGood
  BY SettingsAssumption DEF Init, BackupsAreGood
<1> QED BY <1>1, BackupsAreGoodStep, ControllerTypes, PTL DEF Spec

(***************************************************************************)
(* Only a restore writes the live config on behalf of the controller.      *)
(***************************************************************************)
LEMMA OnlyRestoreInstalls ==
    ASSUME TypeOK, [Next]_vars, config' # config, changes' = changes
    PROVE  pc = "install" /\ config' = Newest.content
<1>1. ~Environment
  BY EnvironmentCounts
<1>2. CASE Install
  BY <1>2 DEF Install
<1> QED BY <1>1, <1>2
     DEF Next, Task, TimePasses, Wake, CheckOnce, CheckConfig, HandleHealthy, HandleUnhealthy,
         Restore, RestartContainer, WaitForRunning, Probe, ProbeAgain, vars, worldVars

(***************************************************************************)
(* Fresh is inductive: from the check of the config to the restore no time *)
(* passes, so only a change of this very moment can go unnoticed.          *)
(***************************************************************************)
LEMMA FreshStep == TypeOK /\ Fresh /\ [Next]_vars => Fresh'
<1> SUFFICES ASSUME TypeOK, Fresh, [Next]_vars PROVE Fresh'
  OBVIOUS
<1> USE DEF Fresh, Instant
<1>1. CASE Wake \/ CheckOnce
  BY <1>1 DEF Wake, CheckOnce, Await, limiterVars
<1>2. CASE CheckConfig
  <2>1. now' = now /\ config' = config
    BY <1>2 DEF CheckConfig, limiterVars, worldVars
  <2>2. CASE Dies
    BY <2>2 DEF Dies, Await
  <2>3. CASE config_valid' = ConfigValid(config) /\ due' = now /\ pc' \in {"healthy", "unhealthy"}
    BY <2>1, <2>3 DEF ConfigValid
  <2> QED BY <1>2, <2>2, <2>3 DEF CheckConfig, Await
<1>3. CASE HandleHealthy
  BY <1>3 DEF HandleHealthy, Backup, SleepUntilDeadline, Await, Dies
<1>4. CASE HandleUnhealthy
  <2>1. UNCHANGED <<now, config, config_valid, last_change>>
    BY <1>4 DEF HandleUnhealthy, Begin, Start, GiveUp, Defer, limiterVars, worldVars, changeVars
  <2>2. pc = "unhealthy"
    BY <1>4 DEF HandleUnhealthy
  <2>3. CASE SleepUntilDeadline
    BY <2>3 DEF SleepUntilDeadline, Await
  <2>4. CASE FirstStep
    BY <2>1, <2>2, <2>4 DEF FirstStep, Await
  <2> QED BY <1>4, <2>3, <2>4 DEF HandleUnhealthy
<1>5. CASE Restore
  <2>1. UNCHANGED <<now, config, config_valid, backups>> /\ pc = "restore"
    BY <1>5 DEF Restore, limiterVars, worldVars
  <2>2. CASE Fails
    BY <2>2 DEF Fails, SleepUntilDeadline, Await
  <2>3. CASE Restorable /\ pc' = "install" /\ due' = now /\ UNCHANGED changeVars
    BY <2>1, <2>3 DEF Restorable, Newest, changeVars
  <2> QED BY <1>5, <2>2, <2>3 DEF Restore, Await
<1>6. CASE Install \/ RestartContainer \/ WaitForRunning
  BY <1>6 DEF Install, RestartContainer, WaitForRunning, Fails, SleepUntilDeadline, Await
<1>7. CASE Probe \/ ProbeAgain
  BY <1>7 DEF Probe, ProbeAgain, Fails, Succeeds, SleepUntilDeadline, Await
<1>8. CASE TimePasses
  <2>1. pc \notin Instant
    BY <1>8 DEF TimePasses, TypeOK, LimiterTypeOK
  <2> QED BY <1>8, <2>1 DEF TimePasses, taskVars
<1>9. CASE RestartController
  BY <1>9 DEF RestartController, Await
<1>10. CASE Environment /\ ~RestartController
  <2>1. UNCHANGED <<now, taskVars>> /\ last_change' = now
    BY <1>10, EnvironmentCounts
       DEF Environment, WriteConfig, StopOrStartContainer, ChangeDocker, ChangeNetwork,
           DamageBackup, limiterVars
  <2> QED BY <2>1 DEF taskVars
<1>11. CASE UNCHANGED vars
  BY <1>11 DEF vars, limiterVars, taskVars, worldVars, changeVars, Newest
<1> QED BY <1>1, <1>2, <1>3, <1>4, <1>5, <1>6, <1>7, <1>8, <1>9, <1>10, <1>11 DEF Next, Task

(***************************************************************************)
(* FR-008: what the controller installs is a valid config, also when       *)
(* backups were damaged, unless the very backup it has just verified is    *)
(* damaged before it reads it again.                                       *)
(***************************************************************************)
THEOREM RestoresAreGood == Spec => InstallsOnlyGood
<1>1. ASSUME TypeOK, Fresh, BackupsAreGood, [Next]_vars, config' # config, changes' = changes
      PROVE  config' \in Good \/ (last_change = now /\ ~Newest.intact)
  <2>1. pc = "install" /\ config' = Newest.content
    BY <1>1, OnlyRestoreInstalls
  <2>2. CASE Newest.intact
    <3>1. Len(backups) \in DOMAIN backups
      BY <1>1, <2>1 DEF TypeOK
    <3> QED BY <1>1, <2>1, <2>2, <3>1 DEF BackupsAreGood, Newest
  <2>3. CASE ~Newest.intact
    BY <1>1, <2>1, <2>3 DEF Fresh
  <2> QED BY <2>2, <2>3
<1>2. TypeOK /\ Fresh /\ BackupsAreGood /\ [Next]_vars =>
         [(config' # config /\ changes' = changes)
             => config' \in Good \/ (last_change = now /\ ~Newest.intact)]_vars
  BY <1>1
<1>3. Init => Fresh
  BY DEF Init, Fresh, Instant
<1> QED BY <1>2, <1>3, FreshStep, IntactBackupsAreGood, ControllerTypes, PTL
        DEF Spec, InstallsOnlyGood

(***************************************************************************)
(* A valid config that was in place before the check is never overwritten  *)
(* by a restore.                                                           *)
(***************************************************************************)
THEOREM RepairsAreKept == Spec => RepairsSurvive
<1>1. Init => Fresh
  BY DEF Init, Fresh, Instant
<1>2. ASSUME TypeOK, Fresh, [Next]_vars, config' # config, changes' = changes, config \in Good
      PROVE  last_change = now
  <2>1. pc = "install"
    BY <1>2, OnlyRestoreInstalls
  <2> QED BY <1>2, <2>1 DEF Fresh
<1>3. TypeOK /\ Fresh /\ [Next]_vars =>
         [(config' # config /\ changes' = changes /\ config \in Good) => last_change = now]_vars
  BY <1>2
<1> QED BY <1>1, <1>3, FreshStep, ControllerTypes, PTL DEF Spec, RepairsSurvive

-----------------------------------------------------------------------------
(* Recovery in bounded time. *)

\* How long the task can still be away, and how its deadline relates to that.
Soon ==
    /\ pc = "request" => due <= wake + Timeout /\ wake <= now /\ next_deadline <= wake
    /\ pc = "restart" => due <= now + RestartTime
    /\ pc = "waiting" => due <= now + Poll /\ due <= deadline
    /\ pc \in {"waiting", "probe", "pause"} => deadline <= now + RestartWait
    /\ pc = "probe" => due <= deadline + Timeout /\ due <= now + Timeout
    /\ pc = "pause" => due <= deadline /\ due <= now + Poll
    /\ pc = "sleep" => due <= now + Interval /\ wake = due /\ next_deadline <= due
    /\ pc \notin {"sleep", "dead"} => next_deadline <= now

\* What the callback knows of the world is so, unless it changed in this moment.
AsSeen ==
    /\ last_change <= now
    /\ pc \in InAttempt => incident
    /\ (pc \in {"inspect", "healthy"} /\ result_ok /\ ~GatewayHealthy) => last_change = now
    /\ (pc \in {"inspect", "unhealthy"} /\ ~result_ok /\ GatewayHealthy) => last_change = now
    /\ (pc = "healthy" /\ ~config_valid /\ config \in Good) => last_change = now
    /\ (pc = "unhealthy" /\ config_valid /\ config \notin Good) => last_change = now
    /\ (pc \in {"unhealthy", "restore", "install"} /\ ~config_valid /\ config \notin Bad)
          => last_change = now

(***************************************************************************)
(* No step lets the task be away for longer than what it awaits.           *)
(***************************************************************************)
LEMMA SoonStep == TypeOK /\ Fresh /\ Soon /\ [Next]_vars => Soon'
<1> SUFFICES ASSUME TypeOK, Fresh, Soon, [Next]_vars PROVE Soon'
  OBVIOUS
<1> USE SettingsAssumption DEF Soon
<1>0. /\ now \in Nat /\ wake \in Nat /\ due \in Nat /\ next_deadline \in Nat /\ deadline \in Nat
      /\ pc # "dead" => now <= due
      /\ pc \in Instant => due = now
  BY DEF TypeOK, LimiterTypeOK, Fresh
<1>1. ASSUME SleepUntilDeadline, now' = now, next_deadline <= now PROVE Soon'
  BY <1>0, <1>1 DEF SleepUntilDeadline, Later, Await
<1>2. ASSUME Dies PROVE Soon'
  BY <1>2 DEF Dies, Await
<1>3. CASE Wake \/ CheckOnce
  BY <1>0, <1>3 DEF Wake, CheckOnce, Await, limiterVars
<1>4. CASE CheckConfig
  BY <1>0, <1>2, <1>4 DEF CheckConfig, Await, limiterVars
<1>5. CASE HandleHealthy
  BY <1>1, <1>2, <1>5 DEF HandleHealthy, Backup, limiterVars
<1>6. CASE HandleUnhealthy
  <2>1. now' = now /\ pc = "unhealthy"
    BY <1>6 DEF HandleUnhealthy, Begin, Start, GiveUp, Defer, limiterVars
  <2>2. CASE FirstStep /\ UNCHANGED next_deadline
    BY <1>0, <2>1, <2>2 DEF FirstStep, Await
  <2> QED BY <1>1, <1>6, <2>1, <2>2 DEF HandleUnhealthy
<1>7. CASE Restore \/ Install
  <2>1. now' = now /\ pc \in {"restore", "install"}
    BY <1>7 DEF Restore, Install, limiterVars
  <2>2. CASE /\ Await("install", now, now) \/ Await("restart", now, now + RestartTime)
             /\ UNCHANGED next_deadline
    BY <1>0, <2>1, <2>2 DEF Await
  <2> QED BY <1>1, <1>7, <2>1, <2>2 DEF Restore, Install, Fails
<1>8. CASE RestartContainer
  <2>1. now' = now /\ pc = "restart"
    BY <1>8 DEF RestartContainer, limiterVars
  <2>2. CASE ~Fails
    BY <1>0, <1>8, <2>1, <2>2 DEF RestartContainer, Await
  <2> QED BY <1>1, <2>1, <2>2 DEF Fails
<1>9. CASE WaitForRunning
  <2>1. now' = now /\ pc = "waiting"
    BY <1>9 DEF WaitForRunning, limiterVars
  <2>2. CASE ~Fails
    BY <1>0, <1>9, <2>1, <2>2 DEF WaitForRunning, Await, Sooner
  <2> QED BY <1>1, <2>1, <2>2 DEF Fails
<1>10. CASE Probe
  <2>1. now' = now /\ pc = "probe"
    BY <1>10 DEF Probe, limiterVars
  <2>2. CASE ~Fails /\ ~Succeeds
    BY <1>0, <1>10, <2>1, <2>2 DEF Probe, Await, Sooner
  <2> QED BY <1>1, <2>1, <2>2 DEF Fails, Succeeds
<1>11. CASE ProbeAgain
  BY <1>0, <1>11 DEF ProbeAgain, Await, limiterVars
<1>12. CASE TimePasses
  <2>1. now' = now + 1 /\ UNCHANGED taskVars
    BY <1>12 DEF TimePasses, Tick
  <2> QED BY <1>0, <2>1 DEF taskVars
<1>13. CASE RestartController
  BY <1>0, <1>13 DEF RestartController, Forget, Await
<1>14. CASE (Environment /\ ~RestartController) \/ UNCHANGED vars
  BY <1>14 DEF Environment, WriteConfig, StopOrStartContainer, ChangeDocker, ChangeNetwork,
               DamageBackup, limiterVars, taskVars, vars
<1> QED BY <1>3, <1>4, <1>5, <1>6, <1>7, <1>8, <1>9, <1>10, <1>11, <1>12, <1>13, <1>14
        DEF Next, Task

(***************************************************************************)
(* What a callback has seen of the world stays so until the clock moves,   *)
(* and before that it is over or has begun to wait.                        *)
(***************************************************************************)
LEMMA AsSeenStep == TypeOK /\ Counted /\ Fresh /\ AsSeen /\ [Next]_vars => AsSeen'
<1> SUFFICES ASSUME TypeOK, Counted, Fresh, AsSeen, [Next]_vars PROVE AsSeen'
  OBVIOUS
<1> USE DEF AsSeen, InAttempt
<1>0. /\ now \in Nat /\ last_change \in Nat /\ incident \in BOOLEAN
      /\ config_valid \in BOOLEAN /\ result_ok \in BOOLEAN
  BY DEF TypeOK, LimiterTypeOK
<1>1. ASSUME pc' \in {"sleep", "request", "dead"}, now' = now,
             Change \/ UNCHANGED changeVars
      PROVE  AsSeen'
  BY <1>0, <1>1 DEF Change, changeVars
<1>2. CASE Wake
  BY <1>1, <1>2 DEF Wake, Await, limiterVars
<1>3. CASE CheckOnce
  <2>1. /\ pc' = "inspect" /\ result_ok' = GatewayHealthy /\ GatewayHealthy' = GatewayHealthy
        /\ now' = now /\ last_change' = last_change
    BY <1>3 DEF CheckOnce, Await, GatewayHealthy, GatewayAccepts, limiterVars, worldVars,
                changeVars
  <2> QED BY <1>0, <2>1
<1>4. CASE CheckConfig
  <2>1. /\ UNCHANGED <<now, last_change, config, result_ok, incident>> /\ pc = "inspect"
        /\ GatewayHealthy' = GatewayHealthy
    BY <1>4 DEF CheckConfig, GatewayHealthy, GatewayAccepts, limiterVars, worldVars, memoryVars,
                changeVars
  <2>2. CASE Dies
    BY <1>1, <1>4, <2>1, <2>2 DEF CheckConfig, Dies, Await
  <2>3. CASE config \notin Unloadable /\ config_valid' = ConfigValid(config)
             /\ pc' = IF result_ok THEN "healthy" ELSE "unhealthy"
    <3>1. config \in Good \/ config \in Bad
      BY <2>3 DEF TypeOK, Contents
    <3>2. config_valid' <=> config \in Good
      BY <2>3, Zenon DEF ConfigValid
    <3> QED BY <1>0, <2>1, <2>3, <3>1, <3>2
  <2> QED BY <1>4, <2>2, <2>3 DEF CheckConfig, Await, Raises
<1>5. CASE HandleHealthy
  BY <1>1, <1>5 DEF HandleHealthy, Backup, SleepUntilDeadline, Dies, Await, limiterVars
<1>6. CASE HandleUnhealthy
  <2>1. UNCHANGED <<now, last_change, config, config_valid>> /\ pc = "unhealthy"
    BY <1>6 DEF HandleUnhealthy, Begin, Start, GiveUp, Defer, limiterVars, worldVars, changeVars
  <2>2. CASE SleepUntilDeadline
    BY <1>1, <1>6, <2>1, <2>2 DEF HandleUnhealthy, SleepUntilDeadline, Await
  <2>3. CASE FirstStep /\ incident'
    BY <1>0, <2>1, <2>3 DEF FirstStep, Await
  <2> QED BY <1>6, <2>2, <2>3 DEF HandleUnhealthy
<1>7. CASE Restore \/ Install
  <2>1. UNCHANGED <<now, config_valid>> /\ pc \in {"restore", "install"}
    BY <1>7 DEF Restore, Install, limiterVars
  <2>2. CASE Fails
    BY <1>1, <1>7, <2>1, <2>2 DEF Restore, Install, Fails, SleepUntilDeadline, Await
  <2>3. CASE Restore /\ ~Fails
    <3>1. pc = "restore" /\ pc' = "install" /\ UNCHANGED <<config, incident, last_change>>
      BY <2>3 DEF Restore, Await, memoryVars, worldVars, changeVars
    <3> QED BY <1>0, <2>1, <3>1
  <2>4. CASE Install /\ ~Fails
    <3>1. pc' = "restart" /\ UNCHANGED <<incident, last_change>>
      BY <2>4 DEF Install, Await, memoryVars, changeVars
    <3> QED BY <1>0, <2>1, <3>1
  <2> QED BY <1>7, <2>2, <2>3, <2>4
<1>8. CASE RestartContainer
  <2>1. now' = now /\ pc = "restart" /\ UNCHANGED changeVars
    BY <1>8 DEF RestartContainer, limiterVars
  <2>2. CASE Fails
    BY <1>1, <2>1, <2>2 DEF Fails, SleepUntilDeadline, Await
  <2>3. CASE pc' \in {"waiting", "probe"} /\ UNCHANGED memoryVars
    BY <1>0, <2>1, <2>3 DEF memoryVars, changeVars
  <2> QED BY <1>8, <2>2, <2>3 DEF RestartContainer, Await
<1>9. CASE WaitForRunning
  <2>1. now' = now /\ pc = "waiting" /\ UNCHANGED changeVars
    BY <1>9 DEF WaitForRunning, limiterVars
  <2>2. CASE Fails
    BY <1>1, <2>1, <2>2 DEF Fails, SleepUntilDeadline, Await
  <2>3. CASE pc' \in {"waiting", "probe"} /\ UNCHANGED memoryVars
    BY <1>0, <2>1, <2>3 DEF memoryVars, changeVars
  <2> QED BY <1>9, <2>2, <2>3 DEF WaitForRunning, Await
<1>10. CASE Probe \/ ProbeAgain
  <2>1. now' = now /\ pc \in {"probe", "pause"} /\ UNCHANGED changeVars
    BY <1>10 DEF Probe, ProbeAgain, limiterVars
  <2>2. CASE SleepUntilDeadline
    BY <1>1, <2>1, <2>2 DEF SleepUntilDeadline, Await
  <2>3. CASE pc' \in {"probe", "pause"} /\ UNCHANGED memoryVars
    BY <1>0, <2>1, <2>3 DEF memoryVars, changeVars
  <2> QED BY <1>10, <2>2, <2>3 DEF Probe, ProbeAgain, Fails, Succeeds, Await
<1>11. CASE TimePasses
  <2>1. /\ now' = now + 1 /\ UNCHANGED <<taskVars, memoryVars, changeVars>>
        /\ pc = "dead" \/ now < due
    BY <1>11 DEF TimePasses, Tick
  <2>2. pc \notin Instant
    BY <1>0, <2>1 DEF Fresh, Instant
  <2> QED BY <1>0, <2>1, <2>2 DEF Instant, taskVars, memoryVars, changeVars
<1>12. CASE Environment
  <2>1. last_change' = now /\ now' = now
    BY <1>12, EnvironmentCounts
  <2>2. pc' = "request" \/ UNCHANGED <<pc, incident>>
    BY <1>12 DEF Environment, WriteConfig, StopOrStartContainer, ChangeDocker, ChangeNetwork,
                 DamageBackup, RestartController, Await, taskVars, memoryVars
  <2> QED BY <1>0, <2>1, <2>2
<1>13. CASE UNCHANGED vars
  BY <1>13 DEF vars, limiterVars, taskVars, memoryVars, worldVars, changeVars, GatewayHealthy,
               GatewayAccepts
<1> QED BY <1>2, <1>3, <1>4, <1>5, <1>6, <1>7, <1>8, <1>9, <1>10, <1>11, <1>12, <1>13
        DEF Next, Task

\* The gateway is down and only the controller's own repair is missing.
Down == pc # "dead" /\ Recoverable /\ ~GatewayHealthy /\ status # Manual

\* How long after the last change the check after k failures begins at most.
Allowed(k) == (k + 1) * Pace

\* How far the repair is: an attempt that began before the last change, or that
\* acts on what it saw before, ends within AttemptRest; checks then fail until
\* an incident is open and the cooldown over; the next check starts the attempt
\* that puts a valid config in place and restarts the container.
OnTheWay ==
    Down =>
        /\ \/ pc \in {"restore", "install"} \/ (pc = "restart" /\ config \in Good)
           \/ last_attempt <= last_change
        /\ pc = "sleep" =>
              due <= last_change + IF incident THEN Backlog + Interval
                                               ELSE Allowed(consecutive_failures)
        /\ pc = "request" =>
              wake <= last_change + IF incident THEN Backlog + Interval
                                                ELSE Allowed(consecutive_failures)
        /\ pc \in {"inspect", "unhealthy"} =>
              IF incident THEN now <= last_change + Backlog + Interval + Timeout
              ELSE /\ next_deadline <= last_change + Allowed(consecutive_failures)
                   /\ now <= last_change + Allowed(consecutive_failures) + Timeout
        /\ pc \in {"restore", "install"} => now <= last_change + Backlog + Interval + Timeout
        /\ pc = "restart" =>
              due <= last_change + RestartTime
                        + IF config \in Good THEN Backlog + Interval + Timeout ELSE 0
        /\ pc = "waiting" =>
              IF running THEN due <= last_change + Settle
                         ELSE deadline <= last_change + RestartWait
        /\ pc \in {"probe", "pause"} => deadline <= last_change + Settle + RestartWait

\* All that OnTheWay rests on.
Watched ==
    /\ TypeOK /\ LimiterInv /\ Counted /\ Fresh /\ Soon /\ AsSeen /\ BackupsAreGood

(***************************************************************************)
(* The arithmetic of the bounds.                                           *)
(***************************************************************************)
LEMMA Bounds ==
    /\ Interval \in Nat /\ Timeout \in Nat /\ RestartTime \in Nat /\ RestartWait \in Nat
    /\ Poll \in Nat /\ Cooldown \in Nat
    /\ Pace \in Nat /\ Interval <= Pace /\ Timeout <= Pace
    /\ Settle \in Nat /\ RestartTime <= Settle /\ (Poll <= Settle \/ RestartWait <= Settle)
    /\ Backlog \in Nat /\ Settle + RestartWait + Timeout <= Backlog /\ Cooldown <= Backlog
    /\ RecoveryBound = Backlog + Interval + Timeout + RestartTime
    /\ \A k \in Nat : /\ Allowed(k) \in Nat /\ Pace <= Allowed(k)
                      /\ Allowed(k + 1) = Allowed(k) + Pace
                      /\ k < Threshold => Allowed(k) <= Backlog
<1>1. /\ Interval \in Nat /\ Timeout \in Nat /\ RestartTime \in Nat /\ RestartWait \in Nat
      /\ Poll \in Nat /\ Cooldown \in Nat /\ Threshold \in Nat
  BY SettingsAssumption, LimitsAssumption
<1>2. Pace \in Nat /\ Interval <= Pace /\ Timeout <= Pace
  BY <1>1 DEF Pace, Later
<1>3. Settle \in Nat /\ RestartTime <= Settle /\ (Poll <= Settle \/ RestartWait <= Settle)
  BY <1>1 DEF Settle, Later, Sooner
<1>4. \A a, b, p \in Nat : /\ a * p \in Nat /\ 1 * p = p
                           /\ (a + b) * p = a * p + b * p
  OBVIOUS
<1>5. ASSUME NEW k \in Nat
      PROVE  /\ Allowed(k) \in Nat /\ Pace <= Allowed(k)
             /\ Allowed(k + 1) = Allowed(k) + Pace
             /\ k < Threshold => Allowed(k) <= Threshold * Pace
  <2>1. (k + 1) * Pace = k * Pace + Pace /\ k * Pace \in Nat
    BY <1>2, <1>4
  <2>2. ((k + 1) + 1) * Pace = (k + 1) * Pace + Pace
    BY <1>2, <1>4
  <2>3. ASSUME k < Threshold PROVE (k + 1) * Pace <= Threshold * Pace
    <3>1. PICK j \in Nat : Threshold = (k + 1) + j
      <4>1. Threshold - (k + 1) \in Nat /\ Threshold = (k + 1) + (Threshold - (k + 1))
        BY <1>1, <2>3
      <4> QED BY <4>1
    <3>2. ((k + 1) + j) * Pace = (k + 1) * Pace + j * Pace
      BY <1>2, <1>4
    <3>3. (k + 1) * Pace \in Nat /\ j * Pace \in Nat
      BY <1>2, <1>4
    <3> QED BY <3>1, <3>2, <3>3
  <2> QED BY <1>2, <2>1, <2>2, <2>3 DEF Allowed
<1>6. Threshold * Pace \in Nat
  BY <1>1, <1>2, <1>4
<1>7. /\ Backlog \in Nat /\ Settle + RestartWait + Timeout <= Backlog /\ Cooldown <= Backlog
      /\ Threshold * Pace <= Backlog
  <2>1. PICK x : x = Threshold * Pace
    OBVIOUS
  <2> QED BY <1>1, <1>3, <1>6, <2>1 DEF Backlog, Later, AttemptRest
<1>8. RecoveryBound = Backlog + Interval + Timeout + RestartTime
  BY <1>1, <1>7 DEF RecoveryBound
<1>9. ASSUME NEW k \in Nat, k < Threshold PROVE Allowed(k) <= Backlog
  <2>1. PICK x : x = Threshold * Pace
    OBVIOUS
  <2> QED BY <1>5, <1>6, <1>7, <1>9, <2>1
<1> QED BY <1>1, <1>2, <1>3, <1>5, <1>7, <1>8, <1>9

(***************************************************************************)
(* No attempt starts in the future.                                        *)
(***************************************************************************)
LEMMA AttemptsArePast ==
    /\ LimiterInv => last_attempt <= now /\ last_attempt \in Int
    /\ LimiterInv' => last_attempt' <= now' /\ last_attempt' \in Int
<1>1. ASSUME LimiterInv PROVE last_attempt <= now /\ last_attempt \in Int
  <2>1. now \in Nat /\ starts \in Seq(0..MaxTime)
    BY <1>1, Sizes DEF LimiterInv, LimiterTypeOK
  <2>2. CASE starts = <<>>
    BY <1>1, <2>1, <2>2 DEF LimiterInv, LastIsLast, NoAttempt
  <2>3. CASE starts # <<>>
    <3>1. Len(starts) \in 1..Len(starts)
      BY <2>1, <2>3
    <3> QED BY <1>1, <2>3, <3>1, Sizes DEF LimiterInv, LastIsLast, QueueIsTail
  <2> QED BY <2>2, <2>3
<1>2. ASSUME LimiterInv' PROVE last_attempt' <= now' /\ last_attempt' \in Int
  <2>1. now' \in Nat /\ starts' \in Seq(0..MaxTime)
    BY <1>2, LimitsAssumption DEF LimiterInv, LimiterTypeOK
  <2>2. CASE starts' = <<>>
    BY <1>2, <2>1, <2>2 DEF LimiterInv, LastIsLast, NoAttempt
  <2>3. CASE starts' # <<>>
    <3>1. Len(starts') \in 1..Len(starts')
      BY <2>1, <2>3
    <3>2. starts'[Len(starts')] \in 0..MaxTime
      BY <2>1, <3>1, ElementOfSeq
    <3> QED BY <1>2, <2>3, <3>1, <3>2, LimitsAssumption DEF LimiterInv, LastIsLast, QueueIsTail
  <2> QED BY <2>2, <2>3
<1> QED BY <1>1, <1>2

(***************************************************************************)
(* In the moment of a change all the time there is is still left.          *)
(***************************************************************************)
LEMMA AfterChange ==
    ASSUME Watched', last_change' = now'
    PROVE  OnTheWay'
<1>1. PICK n, d, w, e, l, k :
         n = now' /\ d = due' /\ w = wake' /\ e = next_deadline' /\ l = deadline'
         /\ k = consecutive_failures'
  OBVIOUS
<1>2. /\ n \in Nat /\ d \in Nat /\ w \in Nat /\ e \in Nat /\ l \in Nat /\ k \in Nat
      /\ last_attempt' <= now'
  BY <1>1, AttemptsArePast, LimitsAssumption DEF Watched, TypeOK, LimiterTypeOK
<1>3. /\ pc' = "sleep" => d <= n + Interval
      /\ pc' = "request" => w <= n
      /\ pc' \notin {"sleep", "dead"} => e <= n
      /\ pc' = "restart" => d <= n + RestartTime
      /\ pc' = "waiting" => d <= n + Poll /\ d <= l
      /\ pc' \in {"waiting", "probe", "pause"} => l <= n + RestartWait
  BY <1>1 DEF Watched, Soon
<1>4. PICK a : a = Allowed(k)
  OBVIOUS
<1>5. /\ Interval \in Nat /\ Timeout \in Nat /\ RestartTime \in Nat /\ RestartWait \in Nat
      /\ Poll \in Nat /\ Settle \in Nat /\ Backlog \in Nat
      /\ a \in Nat /\ Interval <= a /\ (Poll <= Settle \/ RestartWait <= Settle)
  BY <1>2, <1>4, Bounds
<1>6. /\ pc' = "sleep" => d <= n + (Backlog + Interval) /\ d <= n + a
      /\ pc' = "request" => w <= n + (Backlog + Interval) /\ w <= n + a
      /\ n <= n + Backlog + Interval + Timeout /\ n <= n + a + Timeout
      /\ pc' \in {"inspect", "unhealthy"} => e <= n + a
      /\ pc' = "restart" => /\ d <= n + RestartTime + (Backlog + Interval + Timeout)
                            /\ d <= n + RestartTime + 0
      /\ pc' = "waiting" => d <= n + Settle /\ l <= n + RestartWait
      /\ pc' \in {"probe", "pause"} => l <= n + Settle + RestartWait
  BY <1>2, <1>3, <1>5
<1>7. Allowed(consecutive_failures)' = a
  BY <1>1, <1>4 DEF Allowed
<1> QED BY <1>1, <1>2, <1>6, <1>7 DEF OnTheWay

(***************************************************************************)
(* Each step brings the repair nearer, or the bounds start again from a    *)
(* change.                                                                 *)
(***************************************************************************)
LEMMA OnTheWayStep == Watched /\ Watched' /\ OnTheWay /\ [Next]_vars => OnTheWay'
<1> SUFFICES ASSUME Watched, Watched', OnTheWay, [Next]_vars, Down', last_change' # now'
             PROVE  OnTheWay'
  BY AfterChange DEF OnTheWay
<1>0. /\ now \in Nat /\ wake \in Nat /\ due \in Nat /\ next_deadline \in Nat /\ deadline \in Nat
      /\ last_change \in Nat /\ consecutive_failures \in Nat
      /\ last_attempt \in Int /\ (pc # "dead" => now <= due)
  BY AttemptsArePast DEF Watched, TypeOK, LimiterTypeOK
<1>a. PICK a : a = Allowed(consecutive_failures)
  OBVIOUS
<1>b. PICK b : b = Allowed(consecutive_failures')
  OBVIOUS
<1>c. Allowed(consecutive_failures)' = b
  BY <1>b DEF Allowed
<1>d. /\ Interval \in Nat /\ Timeout \in Nat /\ RestartTime \in Nat /\ RestartWait \in Nat
      /\ Poll \in Nat /\ Cooldown \in Nat /\ Pace \in Nat /\ Interval <= Pace /\ Timeout <= Pace
      /\ Settle \in Nat /\ RestartTime <= Settle
      /\ Backlog \in Nat /\ Settle + RestartWait + Timeout <= Backlog /\ Cooldown <= Backlog
      /\ a \in Nat /\ Pace <= a /\ (consecutive_failures < Threshold => a <= Backlog)
  BY <1>0, <1>a, Bounds
<1>e. consecutive_failures' = consecutive_failures => b = a
  BY <1>a, <1>b
<1>f. Soon /\ Soon' /\ AsSeen /\ Fresh /\ Counted
  BY DEF Watched
\* While nothing but the task moves, the gateway was down before the step too.
<1>g. ASSUME UNCHANGED <<worldVars, backups, status>>, pc # "dead" PROVE Down
  BY <1>g DEF Down, Recoverable, MayRestart, Restorable, Newest, GatewayHealthy, GatewayAccepts,
              worldVars
\* An attempt that fails does so in time for the next check.
<1>h. ASSUME Fails, Down, UNCHANGED <<now, last_change, last_attempt>>, pc \in InAttempt,
             now <= last_change + Settle + RestartWait + Timeout, last_attempt <= last_change
      PROVE  OnTheWay'
  <2>1. pc' = "sleep" /\ incident' = incident /\ incident
    BY <1>f, <1>h DEF Fails, SleepUntilDeadline, Await, AsSeen
  <2>2. due' = IF now >= next_deadline + Interval THEN now ELSE next_deadline + Interval
    BY <1>h DEF Fails, SleepUntilDeadline, Await, Later
  <2>3. next_deadline <= now
    BY <1>f, <1>h DEF Soon, InAttempt
  <2>4. due' <= last_change + (Backlog + Interval)
    BY <1>0, <1>d, <1>h, <2>2, <2>3
  <2> QED BY <1>h, <2>1, <2>4 DEF OnTheWay
<1>1. CASE TimePasses
  <2>1. /\ now' = now + 1 /\ UNCHANGED <<taskVars, memoryVars, worldVars, backups, changeVars>>
        /\ UNCHANGED <<last_attempt, status>>
    BY <1>1 DEF TimePasses, Tick
  <2>2. pc # "dead" /\ now < due /\ pc \notin {"inspect", "unhealthy", "restore", "install"}
    BY <1>0, <1>1, <1>f, <2>1 DEF TimePasses, Fresh, Instant, Down, taskVars
  <2>3. Down
    BY <1>g, <2>1, <2>2
  <2> QED BY <1>a, <1>c, <1>e, <2>1, <2>2, <2>3
          DEF OnTheWay, taskVars, memoryVars, worldVars, changeVars
<1>2. CASE Wake
  <2>1. /\ pc = "sleep" /\ pc' = "request" /\ wake' = now
        /\ UNCHANGED <<last_change, last_attempt, incident, consecutive_failures>>
    BY <1>2 DEF Wake, Await, limiterVars, memoryVars, changeVars
  <2>2. Down
    BY <1>2, <1>g, <2>1 DEF Wake, limiterVars
  <2>3. /\ due <= last_change + IF incident THEN Backlog + Interval ELSE a
        /\ last_attempt <= last_change
    BY <1>a, <2>1, <2>2 DEF OnTheWay
  <2>4. now <= last_change + IF incident THEN Backlog + Interval ELSE a
    <3>1. now <= due
      BY <1>0, <2>1
    <3> QED BY <1>0, <1>d, <2>3, <3>1
  <2> QED BY <1>c, <1>e, <2>1, <2>3, <2>4 DEF OnTheWay
<1>3. CASE CheckOnce
  <2>1. /\ pc = "request" /\ pc' = "inspect"
        /\ UNCHANGED <<now, next_deadline, last_change, last_attempt, incident,
                       consecutive_failures>>
    BY <1>3 DEF CheckOnce, Await, limiterVars, changeVars
  <2>2. Down
    BY <1>3, <1>g, <2>1 DEF CheckOnce, limiterVars
  <2>3. /\ wake <= last_change + IF incident THEN Backlog + Interval ELSE a
        /\ last_attempt <= last_change
    BY <1>a, <2>1, <2>2 DEF OnTheWay
  <2>4. due <= wake + Timeout /\ next_deadline <= wake
    BY <1>f, <2>1 DEF Soon
  <2>5. IF incident THEN now <= last_change + Backlog + Interval + Timeout
        ELSE next_deadline <= last_change + a /\ now <= last_change + a + Timeout
    <3>1. now <= due
      BY <1>0, <2>1
    <3> QED BY <1>0, <1>d, <2>3, <2>4, <3>1
  <2> QED BY <1>c, <1>e, <2>1, <2>3, <2>5 DEF OnTheWay
<1>4. CASE CheckConfig
  <2>1. /\ pc = "inspect" /\ pc' \in {"healthy", "unhealthy", "dead"}
        /\ UNCHANGED <<now, next_deadline, last_change, last_attempt, incident,
                       consecutive_failures>>
    BY <1>4 DEF CheckConfig, Await, Dies, limiterVars, memoryVars, changeVars
  <2>2. Down
    BY <1>4, <1>g, <2>1 DEF CheckConfig, limiterVars
  <2> QED BY <1>a, <1>c, <1>e, <2>1, <2>2 DEF OnTheWay
<1>5. CASE HandleHealthy
  <2>1. pc = "healthy" /\ now' = now /\ GatewayHealthy' = GatewayHealthy
    BY <1>5 DEF HandleHealthy, GatewayHealthy, GatewayAccepts, limiterVars, worldVars
  <2>2. last_change = now
    BY <1>f, <2>1 DEF AsSeen, Counted, Down
  <2> QED BY <1>5, <2>1, <2>2 DEF HandleHealthy, Backup, Change, changeVars
<1>6. CASE Environment
  BY <1>6, EnvironmentCounts DEF Watched
<1>7. CASE UNCHANGED vars
  <2>1. UNCHANGED <<limiterVars, taskVars, memoryVars, worldVars, backups, changeVars>>
    BY <1>7 DEF vars
  <2>2. pc # "dead"
    BY <2>1 DEF taskVars, Down
  <2>3. Down
    BY <1>g, <2>1, <2>2 DEF limiterVars
  <2> QED BY <1>a, <1>c, <1>e, <2>1, <2>3
          DEF OnTheWay, limiterVars, taskVars, memoryVars, worldVars, changeVars
<1>8. CASE ProbeAgain
  <2>1. /\ pc = "pause" /\ pc' = "probe" /\ UNCHANGED <<deadline, last_change, last_attempt>>
    BY <1>8 DEF ProbeAgain, Await, limiterVars, changeVars
  <2>2. Down
    BY <1>8, <1>g, <2>1 DEF ProbeAgain, limiterVars
  <2> QED BY <2>1, <2>2 DEF OnTheWay
<1>9. CASE Restore \/ Install
  <2>1. /\ pc \in {"restore", "install"}
        /\ UNCHANGED <<now, network, running, docker, status, backups>> /\ UNCHANGED changeVars
    BY <1>9 DEF Restore, Install, limiterVars, worldVars, Change
  <2>2. last_change # now
    BY <2>1 DEF changeVars
  <2>3. config \in Bad /\ config \notin Good
    BY <1>f, <2>1, <2>2 DEF AsSeen, Fresh
  <2>4. Restorable
    <3>1. CASE Restore
      BY <2>1, <2>3, <3>1 DEF Restore, Down, Recoverable, Restorable, Newest, worldVars
    <3>2. CASE Install
      BY <1>f, <2>2, <3>2 DEF Install, Fresh, Restorable, Watched, TypeOK
    <3> QED BY <1>9, <3>1, <3>2
  <2>5. Down
    BY <2>1, <2>3, <2>4 DEF Down, Recoverable, MayRestart, GatewayHealthy, GatewayAccepts
  <2>6. now <= last_change + Backlog + Interval + Timeout
    BY <2>1, <2>5 DEF OnTheWay
  <2>7. CASE Restore
    <3>1. pc' = "install"
      BY <2>1, <2>2, <2>4, <2>7 DEF Restore, Await, Change
    <3> QED BY <2>1, <2>6, <3>1 DEF OnTheWay, changeVars
  <2>8. CASE Install
    <3>1. config' = Newest.content /\ pc' = "restart" /\ due' = now + RestartTime
      BY <2>1, <2>2, <2>8 DEF Install, Await, Change
    <3>2. Len(backups) \in DOMAIN backups
      BY <2>4 DEF Watched, TypeOK, Restorable
    <3>3. config' \in Good
      BY <2>4, <3>1, <3>2 DEF Newest, Restorable, Watched, BackupsAreGood
    <3>4. now + RestartTime <= last_change + RestartTime + (Backlog + Interval + Timeout)
      BY <1>0, <1>d, <2>6
    <3> QED BY <2>1, <3>1, <3>3, <3>4 DEF OnTheWay, changeVars
  <2> QED BY <1>9, <2>7, <2>8
<1>10. CASE RestartContainer
  <2>1. /\ pc = "restart"
        /\ UNCHANGED <<now, config, docker, network, status, backups, last_change, last_attempt>>
    BY <1>10 DEF RestartContainer, limiterVars, changeVars
  <2>2. network /\ (running' \/ MayRestart)
    BY <2>1 DEF Down, Recoverable, MayRestart
  <2>3. \/ MayRestart /\ running' = TRUE /\ pc' = "waiting" /\ due' = now
        \/ ~MayRestart /\ Fails /\ running' = running
    BY <1>10 DEF RestartContainer, Await
  <2>4. running' /\ (running \/ MayRestart)
    BY <2>2, <2>3
  <2>5. config \notin Good
    BY <2>1, <2>2, <2>4 DEF Down, GatewayHealthy, GatewayAccepts
  <2>6. Down
    BY <2>1, <2>2, <2>4, <2>5
       DEF Down, Recoverable, Restorable, Newest, GatewayHealthy, GatewayAccepts
  <2>7. due <= last_change + RestartTime + 0 /\ last_attempt <= last_change
    BY <2>1, <2>5, <2>6 DEF OnTheWay
  <2>8. now <= last_change + Settle /\ now <= last_change + Settle + RestartWait + Timeout
    <3>1. now <= due
      BY <1>0, <2>1
    <3> QED BY <1>0, <1>d, <2>7, <3>1
  <2>9. CASE Fails
    BY <1>h, <2>1, <2>6, <2>7, <2>8, <2>9 DEF InAttempt
  <2>10. CASE running' = TRUE /\ pc' = "waiting" /\ due' = now
    BY <2>1, <2>7, <2>8, <2>10 DEF OnTheWay
  <2> QED BY <2>3, <2>9, <2>10
<1>11. CASE WaitForRunning
  <2>1. /\ pc = "waiting" /\ UNCHANGED <<worldVars, backups, status>>
        /\ UNCHANGED <<now, last_change, last_attempt>>
    BY <1>11 DEF WaitForRunning, limiterVars, changeVars
  <2>2. Down
    BY <1>g, <2>1
  <2>3. /\ now <= due /\ last_attempt <= last_change /\ running' = running
        /\ IF running THEN due <= last_change + Settle ELSE deadline <= last_change + RestartWait
    BY <1>0, <2>1, <2>2 DEF OnTheWay, worldVars
  <2>4. CASE running /\ ~Fails
    <3>1. pc' = "probe" /\ deadline' = now + RestartWait
      BY <1>11, <2>4 DEF WaitForRunning, Await
    <3>2. now + RestartWait <= last_change + Settle + RestartWait
      BY <1>0, <1>d, <2>3, <2>4
    <3> QED BY <2>1, <2>3, <3>1, <3>2 DEF OnTheWay
  <2>5. CASE ~running /\ ~Fails
    <3>1. pc' = "waiting" /\ deadline' = deadline
      BY <1>11, <2>5 DEF WaitForRunning, Await
    <3> QED BY <2>1, <2>3, <2>5, <3>1 DEF OnTheWay
  <2>6. CASE Fails
    <3>1. due <= deadline
      BY <1>f, <2>1 DEF Soon
    <3>2. now <= last_change + Settle + RestartWait + Timeout
      BY <1>0, <1>d, <2>3, <3>1
    <3> QED BY <1>h, <2>1, <2>2, <2>3, <2>6, <3>2 DEF InAttempt
  <2> QED BY <2>4, <2>5, <2>6
<1>12. CASE Probe
  <2>1. /\ pc = "probe" /\ UNCHANGED <<worldVars, backups, status>>
        /\ UNCHANGED <<now, deadline, last_change, last_attempt>>
    BY <1>12 DEF Probe, limiterVars, changeVars
  <2>2. Down
    BY <1>g, <2>1
  <2>3. /\ ~GatewayHealthy /\ now <= due /\ due <= deadline + Timeout
        /\ last_attempt <= last_change /\ deadline <= last_change + Settle + RestartWait
    BY <1>0, <1>f, <2>1, <2>2 DEF Down, OnTheWay, Soon
  <2>4. CASE Fails
    <3>1. now <= last_change + Settle + RestartWait + Timeout
      BY <1>0, <1>d, <2>3
    <3> QED BY <1>h, <2>1, <2>2, <2>3, <2>4, <3>1 DEF InAttempt
  <2>5. CASE ~Fails
    <3>1. pc' = "pause"
      BY <1>12, <2>3, <2>5 DEF Probe, Await
    <3> QED BY <2>1, <2>3, <3>1 DEF OnTheWay
  <2> QED BY <2>4, <2>5
<1>13. CASE HandleUnhealthy
  <2>1. /\ pc = "unhealthy" /\ UNCHANGED <<now, config, config_valid, last_change>>
        /\ UNCHANGED <<worldVars, backups>>
        /\ consecutive_failures' = consecutive_failures + 1
        /\ next_deadline <= now
    BY <1>13, <1>f DEF HandleUnhealthy, Begin, Start, GiveUp, Defer, limiterVars, worldVars,
                       changeVars, Soon
  <2>2. status' # Manual /\ status # Manual /\ ~GiveUp
    BY <1>13 DEF HandleUnhealthy, Begin, Start, GiveUp, Defer, limiterVars, Down
  <2>3. Down
    <3>1. status' = status
      BY <1>13, <2>2 DEF HandleUnhealthy, Begin, Start, Defer, limiterVars
    <3> QED BY <1>g, <2>1, <3>1
  <2>4. /\ last_attempt <= last_change
        /\ IF incident THEN now <= last_change + Backlog + Interval + Timeout
           ELSE next_deadline <= last_change + a /\ now <= last_change + a + Timeout
    BY <1>a, <2>1, <2>3 DEF OnTheWay
  <2>5. CASE ~incident' /\ SleepUntilDeadline /\ UNCHANGED limiterVars
    <3>1. ~incident
      BY <1>13, <2>5 DEF HandleUnhealthy
    <3>2. /\ pc' = "sleep"
          /\ due' = IF now >= next_deadline + Interval THEN now ELSE next_deadline + Interval
      BY <2>5 DEF SleepUntilDeadline, Await, Later
    <3>3. b = a + Pace
      BY <1>0, <1>a, <1>b, <2>1, Bounds
    <3>4. due' <= last_change + b
      BY <1>0, <1>d, <2>4, <3>1, <3>2, <3>3
    <3> QED BY <1>c, <2>1, <2>4, <2>5, <3>2, <3>4 DEF OnTheWay, limiterVars
  <2>6. CASE incident' /\ Defer /\ SleepUntilDeadline
    <3>1. now - last_attempt < Cooldown /\ UNCHANGED last_attempt
      BY <2>6 DEF Defer, CoolingDown
    <3>2. /\ pc' = "sleep"
          /\ due' = IF now >= next_deadline + Interval THEN now ELSE next_deadline + Interval
      BY <2>6 DEF SleepUntilDeadline, Await, Later
    <3>3. due' <= last_change + (Backlog + Interval)
      BY <1>0, <1>d, <2>1, <2>4, <3>1, <3>2
    <3> QED BY <2>1, <2>4, <2>6, <3>1, <3>2, <3>3 DEF OnTheWay
  <2>7. CASE incident' /\ Start /\ FirstStep
    <3>1. now <= last_change + Backlog + Interval + Timeout
      <4>1. ~incident => consecutive_failures < Threshold
        BY <1>0, <1>f, SettingsAssumption DEF Counted
      <4> QED BY <1>0, <1>d, <2>4, <4>1
    <3>2. CASE config_valid
      <4>1. config \in Good
        BY <1>f, <2>1, <3>2 DEF AsSeen
      <4>2. pc' = "restart" /\ due' = now + RestartTime
        BY <2>7, <3>2 DEF FirstStep, Await
      <4>3. now + RestartTime <= last_change + RestartTime + (Backlog + Interval + Timeout)
        BY <1>0, <1>d, <3>1
      <4> QED BY <2>1, <4>1, <4>2, <4>3 DEF OnTheWay
    <3>3. CASE ~config_valid
      <4>1. pc' = "restore"
        BY <2>7, <3>3 DEF FirstStep, Await
      <4> QED BY <2>1, <3>1, <4>1 DEF OnTheWay
    <3> QED BY <3>2, <3>3
  <2> QED BY <1>13, <2>2, <2>5, <2>6, <2>7 DEF HandleUnhealthy, Begin
<1> QED BY <1>1, <1>2, <1>3, <1>4, <1>5, <1>6, <1>7, <1>8, <1>9, <1>10, <1>11, <1>12, <1>13
        DEF Next, Task

(***************************************************************************)
(* All of this holds of the running controller.                            *)
(***************************************************************************)
LEMMA WatchedInvariant == Spec => []Watched
<1>1. Init => Counted /\ Fresh /\ Soon /\ AsSeen
  <2> SUFFICES ASSUME Init PROVE Counted /\ Fresh /\ Soon /\ AsSeen
    OBVIOUS
  <2>1. Counted /\ Fresh
    BY SettingsAssumption DEF Init, Counted, Fresh, InAttempt, Instant
  <2>2. now = 0
    BY DEF Init, LimiterInit
  <2> QED BY <2>1, <2>2, SettingsAssumption DEF Init, Soon, AsSeen, InAttempt
<1>2. TypeOK /\ LimiterInv /\ Counted /\ Fresh /\ Soon /\ AsSeen /\ BackupsAreGood <=> Watched
  BY DEF Watched
<1> QED BY <1>1, <1>2, BaseInvariant, CountedStep, FreshStep, SoonStep, AsSeenStep,
           IntactBackupsAreGood, PTL DEF Spec

(***************************************************************************)
(* Once the environment has been quiet for RecoveryBound and nothing       *)
(* outside stands in the way, the gateway answers 200 or the controller    *)
(* has asked for manual intervention: whatever the settings, no sequence   *)
(* of failures, restarts and changes leaves an attempt, a cooldown or a    *)
(* count of failures behind from which the controller does not come back.  *)
(***************************************************************************)
THEOREM RecoveryIsBounded == Spec => []RecoversInTime
<1>1. Init => OnTheWay
  BY DEF Init, GatewayHealthy, GatewayAccepts, OnTheWay, Down
<1>2. Watched /\ OnTheWay => RecoversInTime
  <2> SUFFICES ASSUME Watched, OnTheWay PROVE RecoversInTime
    OBVIOUS
  <2> SUFFICES ASSUME Down PROVE now - last_change <= RecoveryBound
    <3>1. now \in Nat /\ last_change \in Nat
      BY DEF Watched, TypeOK, LimiterTypeOK
    <3>2. /\ RecoveryBound = Backlog + Interval + Timeout + RestartTime
          /\ Backlog \in Nat /\ Interval \in Nat /\ Timeout \in Nat /\ RestartTime \in Nat
      BY Bounds
    <3>3. now - last_change \in Int /\ RecoveryBound \in Int
      BY <3>1, <3>2
    <3> QED BY <3>3 DEF RecoversInTime, Down
  <2>0. /\ now \in Nat /\ wake \in Nat /\ due \in Nat /\ next_deadline \in Nat
        /\ deadline \in Nat /\ last_change \in Nat /\ consecutive_failures \in Nat
        /\ pc \in {"request", "inspect", "healthy", "unhealthy", "restore", "install",
                   "restart", "waiting", "probe", "pause", "sleep"}
        /\ now <= due
    BY DEF Watched, TypeOK, LimiterTypeOK, Down
  <2>a. PICK a : a = Allowed(consecutive_failures)
    OBVIOUS
  <2>1. /\ Interval \in Nat /\ Timeout \in Nat /\ RestartTime \in Nat /\ RestartWait \in Nat
        /\ Settle \in Nat /\ Backlog \in Nat /\ Settle + RestartWait + Timeout <= Backlog
        /\ RecoveryBound = Backlog + Interval + Timeout + RestartTime
        /\ a \in Nat /\ (~incident => a <= Backlog)
    <3>1. ~incident => consecutive_failures < Threshold
      BY <2>0, SettingsAssumption DEF Watched, Counted
    <3> QED BY <2>0, <2>a, <3>1, Bounds
  <2>2. CASE pc = "sleep"
    <3>1. due <= last_change + IF incident THEN Backlog + Interval ELSE a
      BY <2>2, <2>a DEF OnTheWay
    <3> QED BY <2>0, <2>1, <3>1
  <2>3. CASE pc = "request"
    <3>1. /\ wake <= last_change + IF incident THEN Backlog + Interval ELSE a
          /\ due <= wake + Timeout
      BY <2>3, <2>a DEF OnTheWay, Watched, Soon
    <3> QED BY <2>0, <2>1, <3>1
  <2>4. CASE pc \in {"inspect", "unhealthy"}
    <3>1. IF incident THEN now <= last_change + Backlog + Interval + Timeout
          ELSE now <= last_change + a + Timeout
      BY <2>4, <2>a DEF OnTheWay
    <3> QED BY <2>0, <2>1, <3>1
  <2>5. CASE pc = "healthy"
    <3>1. last_change = now
      BY <2>5 DEF Watched, AsSeen, Counted, Down
    <3> QED BY <2>0, <2>1, <3>1
  <2>6. CASE pc \in {"restore", "install"}
    <3>1. now <= last_change + Backlog + Interval + Timeout
      BY <2>6 DEF OnTheWay
    <3> QED BY <2>0, <2>1, <3>1
  <2>7. CASE pc = "restart"
    <3>1. due <= last_change + RestartTime
                    + IF config \in Good THEN Backlog + Interval + Timeout ELSE 0
      BY <2>7 DEF OnTheWay
    <3> QED BY <2>0, <2>1, <3>1
  <2>8. CASE pc = "waiting"
    <3>1. /\ IF running THEN due <= last_change + Settle ELSE deadline <= last_change + RestartWait
          /\ due <= deadline
      BY <2>8 DEF OnTheWay, Watched, Soon
    <3> QED BY <2>0, <2>1, <3>1
  <2>9. CASE pc \in {"probe", "pause"}
    <3>1. deadline <= last_change + Settle + RestartWait /\ due <= deadline + Timeout
      <4>1. deadline + Timeout >= deadline
        BY <2>0, <2>1
      <4>2. due <= deadline \/ due <= deadline + Timeout
        BY <2>9 DEF Watched, Soon
      <4>3. due <= deadline + Timeout
        BY <2>0, <2>1, <4>1, <4>2
      <4> QED BY <2>9, <4>3 DEF OnTheWay
    <3> QED BY <2>0, <2>1, <3>1
  <2> QED BY <2>0, <2>2, <2>3, <2>4, <2>5, <2>6, <2>7, <2>8, <2>9
<1> QED BY <1>1, <1>2, OnTheWayStep, WatchedInvariant, PTL DEF Spec

-----------------------------------------------------------------------------
(* Backups keep up. *)

Backed == backups # <<>> /\ Newest = Vault!Snapshot(config)

\* The gateway runs on a config of which there is no backup to fall back on.
Stale == pc # "dead" /\ GatewayHealthy /\ ~Backed

\* How long after the last change the gateway is seen healthy and a backup is due.
ReadyBound == Later(RecoveryBound + Timeout, BackupInterval)

\* A backup since the last change is of the config as it is now.
BackupCounts ==
    /\ last_backup <= now
    /\ last_backup > last_change => Backed

\* How far the backup that is missing is away: the attempt that made the gateway
\* healthy ends, and the next check takes the backup once it is due.
Refreshing ==
    Stale =>
        /\ pc \in {"restart", "waiting", "pause"} => due <= last_change + RecoveryBound
        /\ pc = "probe" => due <= last_change + RecoveryBound + Timeout
        /\ pc = "sleep" => due <= last_change + ReadyBound + Interval
        /\ pc = "request" => wake <= last_change + ReadyBound + Interval
        /\ pc \in {"inspect", "healthy"} => now <= last_change + ReadyBound + Interval + Timeout

(***************************************************************************)
(* The arithmetic of the bounds.                                           *)
(***************************************************************************)
LEMMA RefreshBounds ==
    /\ Interval \in Nat /\ Timeout \in Nat /\ RestartTime \in Nat /\ RestartWait \in Nat
    /\ Poll \in Nat /\ BackupInterval \in Nat
    /\ RecoveryBound \in Nat /\ ReadyBound \in Nat
    /\ RestartTime <= RecoveryBound /\ (Poll <= RecoveryBound \/ RestartWait <= RecoveryBound)
    /\ RecoveryBound + Timeout <= ReadyBound /\ BackupInterval <= ReadyBound
    /\ RefreshBound = ReadyBound + Interval + Timeout
<1>1. /\ Interval \in Nat /\ Timeout \in Nat /\ RestartTime \in Nat /\ RestartWait \in Nat
      /\ Poll \in Nat /\ BackupInterval \in Nat /\ Settle \in Nat /\ Backlog \in Nat
      /\ RecoveryBound = Backlog + Interval + Timeout + RestartTime
      /\ Settle + RestartWait + Timeout <= Backlog
      /\ Poll <= Settle \/ RestartWait <= Settle
  BY Bounds, SettingsAssumption
<1>2. /\ RecoveryBound \in Nat /\ RestartTime <= RecoveryBound
      /\ Poll <= RecoveryBound \/ RestartWait <= RecoveryBound
  BY <1>1
<1>3. /\ ReadyBound \in Nat /\ RecoveryBound + Timeout <= ReadyBound
      /\ BackupInterval <= ReadyBound
  BY <1>1, <1>2 DEF ReadyBound, Later
<1>4. RefreshBound = ReadyBound + Interval + Timeout
  BY DEF RefreshBound, ReadyBound
<1> QED BY <1>1, <1>2, <1>3, <1>4

(***************************************************************************)
(* What create_backup leaves as the newest pair is the live config.        *)
(***************************************************************************)
LEMMA TakenIsBacked ==
    ASSUME TypeOK, ConfigValid(config), TakeAndPrune, config' = config
    PROVE  Backed'
<1>1. Vault!Excess(Vault!WithSnapshot(config)) \in Nat
  <2>1. Len(Vault!WithSnapshot(config)) \in Nat
    BY DEF TypeOK, Vault!WithSnapshot, Vault!Snapshot, Vault!Pair
  <2> QED BY <2>1, SettingsAssumption DEF Vault!Excess
<1>2. backups' # <<>> /\ Newest' = Vault!Snapshot(config)
  BY <1>1, PairsAfterTake DEF TypeOK, ConfigValid, TakeAndPrune
<1> QED BY <1>2 DEF Backed, Vault!Snapshot

(***************************************************************************)
(* While files and config stay, so does whether there is a backup.         *)
(***************************************************************************)
LEMMA StillBacked == UNCHANGED <<config, backups>> => (Backed' <=> Backed)
BY DEF Backed, Newest, Vault!Snapshot

(***************************************************************************)
(* The time of the last backup is never ahead of what it stands for.       *)
(***************************************************************************)
LEMMA BackupCountsStep == Watched /\ BackupCounts /\ [Next]_vars => BackupCounts'
<1> SUFFICES ASSUME Watched, BackupCounts, [Next]_vars PROVE BackupCounts'
  OBVIOUS
<1>0. /\ now \in Nat /\ last_change \in Nat /\ last_change <= now
      /\ last_backup \in Int
  BY DEF Watched, TypeOK, LimiterTypeOK, AsSeen, Never
<1>1. ASSUME UNCHANGED <<config, backups, last_backup, last_change>>, now' \in {now, now + 1}
      PROVE  BackupCounts'
  BY <1>0, <1>1, StillBacked DEF BackupCounts
<1>2. ASSUME last_change' = now, now' = now, last_backup' \in {last_backup, Never}
      PROVE  BackupCounts'
  BY <1>0, <1>2 DEF BackupCounts, Never
<1>3. CASE TimePasses \/ UNCHANGED vars
  BY <1>1, <1>3 DEF TimePasses, Tick, vars, limiterVars, memoryVars, worldVars, changeVars
<1>4. CASE Wake \/ CheckOnce \/ CheckConfig
  BY <1>1, <1>4 DEF Wake, CheckOnce, CheckConfig, limiterVars, memoryVars, worldVars, changeVars
<1>5. CASE HandleHealthy
  <2>1. UNCHANGED <<now, config>>
    BY <1>5 DEF HandleHealthy, limiterVars, worldVars
  <2>2. CASE UNCHANGED <<backups, last_backup, changeVars>>
    BY <1>1, <2>1, <2>2 DEF changeVars
  <2>3. CASE Change /\ UNCHANGED last_backup
    BY <1>2, <2>1, <2>3 DEF Change
  <2>4. CASE /\ ConfigValid(config) /\ TakeAndPrune /\ UNCHANGED changeVars
             /\ last_backup' \in {last_backup, now}
    <3>1. Backed'
      BY <2>1, <2>4, TakenIsBacked DEF Watched
    <3> QED BY <1>0, <2>1, <2>4, <3>1 DEF BackupCounts
  <2> QED BY <1>5, <2>2, <2>3, <2>4 DEF HandleHealthy, Backup
<1>6. CASE HandleUnhealthy
  <2>1. now' = now
    BY <1>6 DEF HandleUnhealthy, Begin, Start, GiveUp, Defer, limiterVars
  <2> QED BY <1>1, <1>6, <2>1 DEF HandleUnhealthy, worldVars, changeVars
<1>7. CASE Restore
  <2>1. UNCHANGED <<now, config, backups, last_backup>>
    BY <1>7 DEF Restore, Fails, limiterVars, memoryVars, worldVars
  <2> QED BY <1>1, <1>2, <1>7, <2>1 DEF Restore, Change, changeVars
<1>8. CASE Install
  <2>1. UNCHANGED <<now, backups, last_backup>>
    BY <1>8 DEF Install, Fails, limiterVars, memoryVars
  <2>2. CASE Change
    BY <1>2, <2>1, <2>2 DEF Change
  <2>3. CASE config' = Newest.content /\ UNCHANGED changeVars
    <3>1. Backed => config' = config
      BY <2>3 DEF Backed, Vault!Snapshot
    <3>2. Backed => Backed'
      BY <2>1, <3>1, StillBacked
    <3> QED BY <2>1, <2>3, <3>2 DEF BackupCounts, changeVars
  <2> QED BY <1>8, <2>2, <2>3 DEF Install
<1>9. CASE RestartContainer \/ WaitForRunning \/ Probe \/ ProbeAgain
  BY <1>1, <1>9 DEF RestartContainer, WaitForRunning, Probe, ProbeAgain, Fails, Succeeds,
                    limiterVars, memoryVars, worldVars, changeVars
<1>10. CASE Environment
  <2>1. last_change' = now /\ now' = now
    BY <1>10, EnvironmentCounts DEF Watched
  <2>2. last_backup' \in {last_backup, Never}
    BY <1>10 DEF Environment, WriteConfig, StopOrStartContainer, ChangeDocker, ChangeNetwork,
                 DamageBackup, RestartController, memoryVars
  <2> QED BY <1>2, <2>1, <2>2
<1> QED BY <1>3, <1>4, <1>5, <1>6, <1>7, <1>8, <1>9, <1>10 DEF Next, Task

(***************************************************************************)
(* In the moment of a change all the time there is is still left.          *)
(***************************************************************************)
LEMMA RefreshAfterChange ==
    ASSUME Watched', last_change' = now'
    PROVE  Refreshing'
<1>1. PICK n, d, w, l : n = now' /\ d = due' /\ w = wake' /\ l = deadline'
  OBVIOUS
<1>2. n \in Nat /\ d \in Nat /\ w \in Nat /\ l \in Nat
  BY <1>1, LimitsAssumption DEF Watched, TypeOK, LimiterTypeOK
<1>3. /\ pc' = "sleep" => d <= n + Interval
      /\ pc' = "request" => w <= n
      /\ pc' = "restart" => d <= n + RestartTime
      /\ pc' \in {"waiting", "pause"} => d <= n + Poll /\ d <= l /\ l <= n + RestartWait
      /\ pc' = "probe" => d <= n + Timeout
  BY <1>1 DEF Watched, Soon
<1>4. /\ pc' \in {"restart", "waiting", "pause"} => d <= n + RecoveryBound
      /\ pc' = "probe" => d <= n + RecoveryBound + Timeout
      /\ pc' = "sleep" => d <= n + ReadyBound + Interval
      /\ pc' = "request" => w <= n + ReadyBound + Interval
      /\ n <= n + ReadyBound + Interval + Timeout
  BY <1>2, <1>3, RefreshBounds
<1> QED BY <1>1, <1>4 DEF Refreshing

(***************************************************************************)
(* Each step brings the missing backup nearer, or the bounds start again   *)
(* from a change.                                                          *)
(***************************************************************************)
LEMMA RefreshingStep ==
    /\ Watched /\ Watched' /\ AttemptAllowed /\ OnTheWay /\ BackupCounts /\ Refreshing
    /\ [Next]_vars
    => Refreshing'
<1> SUFFICES ASSUME Watched, Watched', AttemptAllowed, OnTheWay, BackupCounts, Refreshing,
                    [Next]_vars, Stale', last_change' # now'
             PROVE  Refreshing'
  BY RefreshAfterChange DEF Refreshing
<1>0. /\ now \in Nat /\ wake \in Nat /\ due \in Nat /\ next_deadline \in Nat /\ deadline \in Nat
      /\ last_change \in Nat /\ last_backup \in Int /\ (pc # "dead" => now <= due)
      /\ pc \notin {"sleep", "dead"} => next_deadline <= now
  BY DEF Watched, TypeOK, LimiterTypeOK, Soon, Never
<1>d. /\ Interval \in Nat /\ Timeout \in Nat /\ RestartTime \in Nat /\ BackupInterval \in Nat
      /\ RecoveryBound \in Nat /\ ReadyBound \in Nat
      /\ RecoveryBound + Timeout <= ReadyBound /\ BackupInterval <= ReadyBound
  BY RefreshBounds
<1>f. Soon /\ AsSeen /\ Fresh /\ Counted
  BY DEF Watched
<1>g. ASSUME UNCHANGED <<worldVars, backups>>, pc # "dead" PROVE Stale
  <2>1. UNCHANGED <<config, running, network, backups>>
    BY <1>g DEF worldVars
  <2>2. GatewayHealthy /\ ~Backed
    BY <2>1, StillBacked DEF Stale, GatewayHealthy, GatewayAccepts
  <2> QED BY <1>g, <2>2 DEF Stale
\* A callback that ends in time leaves the next check in time.
<1>h. ASSUME SleepUntilDeadline, UNCHANGED last_change, next_deadline <= now,
             now <= last_change + ReadyBound
      PROVE  Refreshing'
  <2>1. /\ pc' = "sleep"
        /\ due' = IF now >= next_deadline + Interval THEN now ELSE next_deadline + Interval
    BY <1>h DEF SleepUntilDeadline, Await, Later
  <2>2. due' <= last_change + ReadyBound + Interval
    BY <1>0, <1>d, <1>h, <2>1
  <2> QED BY <1>h, <2>1, <2>2 DEF Refreshing
<1>1. CASE TimePasses
  <2>1. now' = now + 1 /\ UNCHANGED <<taskVars, worldVars, backups, changeVars>>
    BY <1>1 DEF TimePasses, Tick
  <2>2. pc # "dead" /\ pc \notin {"inspect", "healthy"}
    BY <1>0, <1>1, <1>f, <2>1 DEF TimePasses, Fresh, Instant, Stale, taskVars
  <2>3. Stale
    BY <1>g, <2>1, <2>2
  <2> QED BY <2>1, <2>2, <2>3 DEF Refreshing, taskVars, changeVars
<1>2. CASE Wake
  <2>1. pc = "sleep" /\ pc' = "request" /\ wake' = now /\ UNCHANGED last_change
    BY <1>2 DEF Wake, Await, changeVars
  <2>2. Stale
    BY <1>2, <1>g, <2>1 DEF Wake
  <2>3. now <= last_change + ReadyBound + Interval
    <3>1. due <= last_change + ReadyBound + Interval /\ now <= due
      BY <1>0, <2>1, <2>2 DEF Refreshing
    <3> QED BY <1>0, <1>d, <3>1
  <2> QED BY <2>1, <2>3 DEF Refreshing
<1>3. CASE CheckOnce
  <2>1. pc = "request" /\ pc' = "inspect" /\ UNCHANGED <<now, last_change>>
    BY <1>3 DEF CheckOnce, Await, limiterVars, changeVars
  <2>2. Stale
    BY <1>3, <1>g, <2>1 DEF CheckOnce
  <2>3. now <= last_change + ReadyBound + Interval + Timeout
    <3>1. /\ wake <= last_change + ReadyBound + Interval
          /\ now <= due /\ due <= wake + Timeout
      BY <1>0, <1>f, <2>1, <2>2 DEF Refreshing, Soon
    <3> QED BY <1>0, <1>d, <3>1
  <2> QED BY <2>1, <2>3 DEF Refreshing
<1>4. CASE CheckConfig
  <2>1. /\ pc = "inspect" /\ pc' \in {"healthy", "unhealthy", "dead"}
        /\ UNCHANGED <<now, last_change>>
    BY <1>4 DEF CheckConfig, Await, Dies, limiterVars, changeVars
  <2>2. Stale
    BY <1>4, <1>g, <2>1 DEF CheckConfig
  <2> QED BY <2>1, <2>2 DEF Refreshing
<1>5. CASE HandleHealthy
  <2>1. pc = "healthy" /\ UNCHANGED <<now, worldVars>> /\ pc' # "dead"
    BY <1>5 DEF HandleHealthy, limiterVars, Stale
  <2>2. ~Change /\ UNCHANGED changeVars /\ last_change # now
    <3>1. ~Change
      BY <2>1 DEF Change
    <3> QED BY <1>5, <2>1, <3>1 DEF HandleHealthy, Backup, changeVars
  <2>3. config \in Good
    BY <2>1 DEF Stale, GatewayHealthy, GatewayAccepts, worldVars
  <2>4. config_valid
    BY <1>f, <2>1, <2>2, <2>3 DEF AsSeen
  <2>5. CASE BackupDue
    <3>1. ConfigValid(config) /\ TakeAndPrune
      BY <1>5, <2>2, <2>3, <2>4, <2>5 DEF HandleHealthy, Backup, ConfigValid
    <3>2. Backed'
      BY <2>1, <3>1, TakenIsBacked DEF Watched, worldVars
    <3> QED BY <3>2 DEF Stale
  <2>6. CASE ~BackupDue
    <3>1. SleepUntilDeadline /\ UNCHANGED backups
      BY <1>5, <2>2, <2>6 DEF HandleHealthy
    <3>2. ~Backed
      BY <2>1, <3>1, StillBacked DEF Stale, worldVars
    <3>3. now - last_backup < BackupInterval /\ last_backup <= last_change
      BY <1>0, <1>d, <2>6, <3>2 DEF BackupDue, BackupCounts
    <3>4. now <= last_change + ReadyBound
      BY <1>0, <1>d, <3>3
    <3> QED BY <1>0, <1>h, <2>1, <2>2, <3>1, <3>4 DEF changeVars
  <2> QED BY <2>5, <2>6
<1>6. CASE HandleUnhealthy
  <2>1. /\ pc = "unhealthy" /\ UNCHANGED <<now, last_change>> /\ UNCHANGED <<worldVars, backups>>
    BY <1>6 DEF HandleUnhealthy, Begin, Start, GiveUp, Defer, limiterVars, changeVars
  <2>2. GatewayHealthy
    BY <1>g, <2>1 DEF Stale
  <2> QED BY <1>f, <2>1, <2>2 DEF AsSeen, Counted
<1>7. CASE Restore
  <2>1. /\ pc = "restore" /\ UNCHANGED <<now, worldVars, backups>> /\ UNCHANGED changeVars
    BY <1>7 DEF Restore, limiterVars, Change
  <2>2. config \in Good
    BY <1>g, <2>1 DEF Stale, GatewayHealthy, GatewayAccepts
  <2> QED BY <1>f, <2>1, <2>2 DEF Fresh, changeVars
<1>8. CASE Install
  <2>1. /\ pc = "install" /\ UNCHANGED <<now, network, running, docker, status, backups>>
        /\ UNCHANGED changeVars
    BY <1>8 DEF Install, limiterVars, Change
  <2>2. last_change # now
    BY <2>1 DEF changeVars
  <2>3. config \in Bad /\ config \notin Good
    BY <1>f, <2>1, <2>2 DEF AsSeen, Fresh
  <2>4. Restorable
    BY <1>f, <2>1, <2>2 DEF Fresh, Restorable, Watched, TypeOK
  <2>5. Down
    BY <2>1, <2>3, <2>4
       DEF Down, Recoverable, Stale, GatewayHealthy, GatewayAccepts, AttemptAllowed, InAttempt
  <2>6. pc' = "restart" /\ due' = now + RestartTime
    BY <1>8, <2>1, <2>2 DEF Install, Await, Change
  <2>7. now + RestartTime <= last_change + RecoveryBound
    <3>1. now <= last_change + Backlog + Interval + Timeout
      BY <2>1, <2>5 DEF OnTheWay
    <3> QED BY <1>0, <3>1, Bounds
  <2> QED BY <2>1, <2>6, <2>7 DEF Refreshing, changeVars
<1>9. CASE RestartContainer
  <2>1. /\ pc = "restart" /\ UNCHANGED <<now, config, docker, network, status, backups>>
        /\ UNCHANGED last_change
    BY <1>9 DEF RestartContainer, limiterVars, changeVars
  <2>2. config \in Good /\ network /\ ~Backed
    BY <2>1, StillBacked DEF Stale, GatewayHealthy, GatewayAccepts
  <2>3. now <= last_change + RecoveryBound
    <3>1. CASE running
      <4>1. Stale
        BY <2>1, <2>2, <3>1 DEF Stale, GatewayHealthy, GatewayAccepts
      <4>2. due <= last_change + RecoveryBound /\ now <= due
        BY <1>0, <2>1, <4>1 DEF Refreshing
      <4> QED BY <1>0, <1>d, <4>2
    <3>2. CASE ~running
      <4>1. MayRestart
        BY <1>9, <3>2 DEF RestartContainer, Stale, GatewayHealthy
      <4>2. Down
        BY <2>1, <2>2, <3>2, <4>1
           DEF Down, Recoverable, GatewayHealthy, AttemptAllowed, InAttempt
      <4>3. due <= last_change + RestartTime + (Backlog + Interval + Timeout) /\ now <= due
        BY <1>0, <2>1, <2>2, <4>2 DEF OnTheWay
      <4> QED BY <1>0, <4>3, Bounds
    <3> QED BY <3>1, <3>2
  <2>4. CASE Fails
    <3>1. now <= last_change + ReadyBound
      BY <1>0, <1>d, <2>3
    <3> QED BY <1>0, <1>h, <2>1, <2>4, <3>1 DEF Fails
  <2>5. CASE ~Fails
    <3>1. pc' = "waiting" /\ due' = now
      BY <1>9, <2>5 DEF RestartContainer, Await
    <3> QED BY <2>1, <2>3, <3>1 DEF Refreshing
  <2> QED BY <2>4, <2>5
<1>10. CASE WaitForRunning
  <2>1. /\ pc = "waiting" /\ UNCHANGED <<worldVars, backups>> /\ UNCHANGED <<now, last_change>>
    BY <1>10 DEF WaitForRunning, limiterVars, changeVars
  <2>2. Stale
    BY <1>g, <2>1
  <2>3. /\ now <= last_change + RecoveryBound /\ now <= last_change + ReadyBound
        /\ now + Timeout <= last_change + RecoveryBound + Timeout
    <3>1. due <= last_change + RecoveryBound /\ now <= due
      BY <1>0, <2>1, <2>2 DEF Refreshing
    <3> QED BY <1>0, <1>d, <3>1
  <2>4. CASE Fails
    BY <1>0, <1>h, <2>1, <2>3, <2>4 DEF Fails
  <2>5. CASE ~Fails
    <3>1. pc' = "probe" /\ due' = now + Timeout
      BY <1>10, <2>2, <2>5 DEF WaitForRunning, Await, Stale, GatewayHealthy
    <3> QED BY <2>1, <2>3, <3>1 DEF Refreshing
  <2> QED BY <2>4, <2>5
<1>11. CASE Probe
  <2>1. /\ pc = "probe" /\ UNCHANGED <<worldVars, backups>> /\ UNCHANGED <<now, last_change>>
    BY <1>11 DEF Probe, limiterVars, changeVars
  <2>2. Stale
    BY <1>g, <2>1
  <2>3. now <= last_change + ReadyBound
    <3>1. due <= last_change + RecoveryBound + Timeout /\ now <= due
      BY <1>0, <2>1, <2>2 DEF Refreshing
    <3> QED BY <1>0, <1>d, <3>1
  <2>4. SleepUntilDeadline
    BY <1>11, <2>2 DEF Probe, Stale, Succeeds
  <2> QED BY <1>0, <1>h, <2>1, <2>3, <2>4
<1>12. CASE ProbeAgain
  <2>1. pc = "pause" /\ pc' = "probe" /\ due' = now + Timeout /\ UNCHANGED last_change
    BY <1>12 DEF ProbeAgain, Await, changeVars
  <2>2. Stale
    BY <1>12, <1>g, <2>1 DEF ProbeAgain
  <2>3. now + Timeout <= last_change + RecoveryBound + Timeout
    <3>1. due <= last_change + RecoveryBound /\ now <= due
      BY <1>0, <2>1, <2>2 DEF Refreshing
    <3> QED BY <1>0, <1>d, <3>1
  <2> QED BY <2>1, <2>3 DEF Refreshing
<1>13. CASE Environment
  BY <1>13, EnvironmentCounts DEF Watched
<1>14. CASE UNCHANGED vars
  <2>1. UNCHANGED <<now, taskVars, worldVars, backups, changeVars>>
    BY <1>14 DEF vars, limiterVars
  <2>2. Stale
    BY <1>g, <2>1 DEF taskVars, Stale
  <2> QED BY <2>1, <2>2 DEF Refreshing, taskVars, changeVars
<1> QED BY <1>1, <1>2, <1>3, <1>4, <1>5, <1>6, <1>7, <1>8, <1>9, <1>10, <1>11, <1>12, <1>13, <1>14
        DEF Next, Task

(***************************************************************************)
(* AC-009: once nothing has changed or failed for RefreshBound, the newest *)
(* backup is a verifying snapshot of the config a healthy gateway runs on, *)
(* whatever the settings and whatever changes, damage, errors, recoveries  *)
(* and restarts came before.                                               *)
(***************************************************************************)
THEOREM BackupsStayFresh == Spec => []BackupsKeepUp
<1>1. Init => AttemptAllowed /\ OnTheWay /\ BackupCounts /\ Refreshing
  <2> SUFFICES ASSUME Init PROVE AttemptAllowed /\ OnTheWay /\ BackupCounts /\ Refreshing
    OBVIOUS
  <2>1. AttemptAllowed /\ OnTheWay
    BY DEF Init, AttemptAllowed, InAttempt, GatewayHealthy, GatewayAccepts, OnTheWay, Down
  <2>2. now = 0 /\ wake = 0 /\ last_change = 0 /\ last_backup = Never /\ pc = "request"
    BY DEF Init, LimiterInit
  <2> QED BY <2>1, <2>2, RefreshBounds DEF BackupCounts, Refreshing, Never
<1>2. Watched /\ Refreshing => BackupsKeepUp
  <2> SUFFICES ASSUME Watched, Refreshing PROVE BackupsKeepUp
    OBVIOUS
  <2>n. now \in Nat /\ last_change \in Nat
    BY DEF Watched, TypeOK, LimiterTypeOK
  <2> SUFFICES ASSUME Stale PROVE now - last_change <= RefreshBound
    <3>1. now - last_change \in Int /\ RefreshBound \in Int
      BY <2>n, RefreshBounds
    <3> QED BY <3>1 DEF BackupsKeepUp, Stale, Backed
  <2>0. /\ now \in Nat /\ wake \in Nat /\ due \in Nat /\ last_change \in Nat
        /\ pc \in {"request", "inspect", "healthy", "unhealthy", "restore", "install",
                   "restart", "waiting", "probe", "pause", "sleep"}
        /\ now <= due /\ GatewayHealthy
    BY DEF Watched, TypeOK, LimiterTypeOK, Stale
  <2>1. CASE pc \in {"unhealthy", "restore", "install"}
    <3>1. last_change = now
      <4>1. config \in Good
        BY <2>0 DEF GatewayHealthy, GatewayAccepts
      <4> QED BY <2>0, <2>1, <4>1 DEF Watched, AsSeen, Fresh, Counted
    <3> QED BY <2>0, <3>1, RefreshBounds
  <2>2. CASE pc \in {"restart", "waiting", "pause"}
    <3>1. due <= last_change + RecoveryBound
      BY <2>2 DEF Refreshing
    <3> QED BY <2>0, <3>1, RefreshBounds
  <2>3. CASE pc = "probe"
    <3>1. due <= last_change + RecoveryBound + Timeout
      BY <2>3 DEF Refreshing
    <3> QED BY <2>0, <3>1, RefreshBounds
  <2>4. CASE pc = "sleep"
    <3>1. due <= last_change + ReadyBound + Interval
      BY <2>4 DEF Refreshing
    <3> QED BY <2>0, <3>1, RefreshBounds
  <2>5. CASE pc = "request"
    <3>1. wake <= last_change + ReadyBound + Interval /\ due <= wake + Timeout
      BY <2>5 DEF Refreshing, Watched, Soon
    <3> QED BY <2>0, <3>1, RefreshBounds
  <2>6. CASE pc \in {"inspect", "healthy"}
    <3>1. now <= last_change + ReadyBound + Interval + Timeout
      BY <2>6 DEF Refreshing
    <3> QED BY <2>0, <3>1, RefreshBounds
  <2> QED BY <2>0, <2>1, <2>2, <2>3, <2>4, <2>5, <2>6
<1> QED BY <1>1, <1>2, AttemptAllowedStep, OnTheWayStep, BackupCountsStep, RefreshingStep,
           WatchedInvariant, PTL DEF Spec

-----------------------------------------------------------------------------
(* Deadlines. *)

\* InTime of any sequence of starts of attempts.
Explained(s, time, scheduled) ==
    \/ time <= scheduled
    \/ \E k \in DOMAIN s, c \in 0..scheduled :
          /\ scheduled <= s[k] + c * Interval
          /\ time - scheduled <= (Len(s) - k + 1) * AttemptTime - c * (Interval - Timeout)

\* Where the task is, and how late it can be there at most.
Lateness ==
    /\ pc = "sleep" => planned + Interval = next_deadline
    /\ pc \notin {"sleep", "dead"} => planned = next_deadline
    /\ pc = "request" => Explained(starts, wake, next_deadline) /\ due <= wake + Timeout
    /\ pc \in {"inspect", "healthy", "unhealthy"} =>
          Explained(starts, due - Timeout, next_deadline)
    /\ pc \in InAttempt =>
          Explained(starts, last_attempt + AttemptTime, next_deadline + Interval)
    /\ pc \in {"restore", "install"} => due <= last_attempt
    /\ pc = "restart" => due <= last_attempt + RestartTime
    /\ pc = "waiting" =>
          due <= deadline /\ deadline <= last_attempt + RestartTime + RestartWait
    /\ pc \in {"probe", "pause"} =>
          /\ due <= deadline + Timeout
          /\ deadline <= last_attempt + RestartTime + RestartWait + RestartWait
    /\ pc = "sleep" => due = wake /\ Explained(starts, wake, next_deadline)

(***************************************************************************)
(* The numbers behind a delay.                                             *)
(***************************************************************************)
LEMMA DelayNumbers ==
    ASSUME NEW s \in Seq(Nat), NEW k \in DOMAIN s, NEW c \in Nat, Timeout <= Interval
    PROVE  /\ s[k] \in Nat /\ Interval \in Nat /\ Interval >= 1 /\ Timeout \in Nat
           /\ AttemptTime \in Nat
           /\ c * Interval \in Nat /\ (c + 1) * Interval = c * Interval + Interval
           /\ c * (Interval - Timeout) \in Nat
           /\ (c + 1) * (Interval - Timeout) = c * (Interval - Timeout) + (Interval - Timeout)
           /\ (Len(s) - k + 1) * AttemptTime \in Nat
           /\ ((Len(s) + 1) - k + 1) * AttemptTime
                 = (Len(s) - k + 1) * AttemptTime + AttemptTime
<1>1. Interval \in Nat /\ Interval >= 1 /\ Timeout \in Nat /\ AttemptTime \in Nat
  BY SettingsAssumption DEF AttemptTime
<1>2. \A a, p \in Nat : a * p \in Nat /\ (a + 1) * p = a * p + p
  OBVIOUS
<1>3. Interval - Timeout \in Nat
  BY <1>1
<1>4. /\ Len(s) - k + 1 \in Nat /\ (Len(s) + 1) - k + 1 = (Len(s) - k + 1) + 1
      /\ s[k] \in Nat
  <2>1. k \in 1..Len(s) /\ Len(s) \in Nat
    OBVIOUS
  <2> QED BY <2>1, ElementOfSeq
<1> QED BY <1>1, <1>2, <1>3, <1>4

(***************************************************************************)
(* What explains a delay explains a smaller one.                           *)
(***************************************************************************)
LEMMA EarlierIsExplained ==
    ASSUME NEW s \in Seq(Nat), NEW t \in Int, NEW u \in Int, NEW d \in Nat, u <= t,
           Timeout <= Interval, Explained(s, t, d)
    PROVE  Explained(s, u, d)
<1>1. CASE t <= d
  BY <1>1 DEF Explained
<1>2. ASSUME NEW k \in DOMAIN s, NEW c \in 0..d, d <= s[k] + c * Interval,
             t - d <= (Len(s) - k + 1) * AttemptTime - c * (Interval - Timeout)
      PROVE  Explained(s, u, d)
  <2>1. PICK x, y : x = (Len(s) - k + 1) * AttemptTime /\ y = c * (Interval - Timeout)
    OBVIOUS
  <2>2. x \in Nat /\ y \in Nat
    <3>1. c \in Nat
      OBVIOUS
    <3> QED BY <2>1, <3>1, DelayNumbers
  <2>3. u - d <= x - y
    BY <1>2, <2>1, <2>2
  <2> QED BY <1>2, <2>1, <2>3 DEF Explained
<1> QED BY <1>1, <1>2 DEF Explained

(***************************************************************************)
(* From one deadline to the next a loop that does nothing but its request  *)
(* wins back what the interval exceeds the request by.                     *)
(***************************************************************************)
LEMMA NextDeadline ==
    ASSUME NEW s \in Seq(Nat), NEW t \in Int, NEW d \in Nat, Timeout <= Interval,
           Explained(s, t - Timeout, d)
    PROVE  Explained(s, t, d + Interval)
<1>0. Interval \in Nat /\ Interval >= 1 /\ Timeout \in Nat
  BY SettingsAssumption
<1>1. CASE t - Timeout <= d
  <2>1. t <= d + Interval
    BY <1>0, <1>1
  <2> QED BY <2>1 DEF Explained
<1>2. ASSUME NEW k \in DOMAIN s, NEW c \in 0..d, d <= s[k] + c * Interval,
             (t - Timeout) - d <= (Len(s) - k + 1) * AttemptTime - c * (Interval - Timeout)
      PROVE  Explained(s, t, d + Interval)
  <2>0. c \in Nat /\ c + 1 \in 0..(d + Interval)
    BY <1>0
  <2>1. PICK x, y, z, y1, z1 :
           /\ x = (Len(s) - k + 1) * AttemptTime
           /\ y = c * (Interval - Timeout) /\ y1 = (c + 1) * (Interval - Timeout)
           /\ z = c * Interval /\ z1 = (c + 1) * Interval
    OBVIOUS
  <2>2. /\ x \in Nat /\ y \in Nat /\ z \in Nat /\ s[k] \in Nat
        /\ y1 = y + (Interval - Timeout) /\ z1 = z + Interval
    BY <2>0, <2>1, DelayNumbers
  <2>3. d + Interval <= s[k] + z1 /\ t - (d + Interval) <= x - y1
    <3>1. d <= s[k] + z /\ (t - Timeout) - d <= x - y
      BY <1>2, <2>1
    <3> QED BY <1>0, <2>2, <3>1
  <2> QED BY <2>0, <2>1, <2>3 DEF Explained
<1> QED BY <1>1, <1>2 DEF Explained

(***************************************************************************)
(* An attempt explains a further delay of AttemptTime, and an attempt of a *)
(* loop that was in time explains the delay it causes itself.              *)
(***************************************************************************)
LEMMA AttemptExplains ==
    ASSUME NEW s \in Seq(Nat), NEW t \in Nat, NEW d \in Nat, d <= t, Timeout <= Interval,
           Explained(s, t - Timeout, d)
    PROVE  Explained(Append(s, t), t + AttemptTime, d + Interval)
<1>0. Interval \in Nat /\ Interval >= 1 /\ Timeout \in Nat /\ AttemptTime \in Nat
  BY SettingsAssumption DEF AttemptTime
<1> DEFINE r == Append(s, t)
<1>1. /\ r \in Seq(Nat) /\ Len(s) \in Nat /\ Len(r) = Len(s) + 1 /\ DOMAIN r = 1..(Len(s) + 1)
      /\ DOMAIN s = 1..Len(s)
      /\ \A k \in DOMAIN s : k \in DOMAIN r /\ r[k] = s[k]
      /\ r[Len(s) + 1] = t
  BY AppendProperties
<1> HIDE DEF r
<1>2. CASE t - Timeout <= d
  <2>1. 1 * Interval = Interval /\ 1 * (Interval - Timeout) = Interval - Timeout
    BY <1>0
  <2>2. (Len(r) - (Len(s) + 1) + 1) * AttemptTime = AttemptTime
    <3>1. Len(r) - (Len(s) + 1) + 1 = 1 /\ 1 * AttemptTime = AttemptTime
      BY <1>0, <1>1
    <3> QED BY <3>1
  <2>3. Len(s) + 1 \in DOMAIN r /\ 1 \in 0..(d + Interval)
    BY <1>0, <1>1
  <2>4. /\ d + Interval <= r[Len(s) + 1] + 1 * Interval
        /\ (t + AttemptTime) - (d + Interval) <= AttemptTime - 1 * (Interval - Timeout)
    BY <1>0, <1>1, <1>2, <2>1
  <2> QED BY <2>2, <2>3, <2>4 DEF Explained, r
<1>3. ASSUME NEW k \in DOMAIN s, NEW c \in 0..d, d <= s[k] + c * Interval,
             (t - Timeout) - d <= (Len(s) - k + 1) * AttemptTime - c * (Interval - Timeout)
      PROVE  Explained(r, t + AttemptTime, d + Interval)
  <2>0. c \in Nat /\ c + 1 \in 0..(d + Interval) /\ k \in DOMAIN r /\ r[k] = s[k]
    BY <1>0, <1>1
  <2>1. PICK x, y, z, x1, y1, z1 :
           /\ x = (Len(s) - k + 1) * AttemptTime /\ x1 = (Len(r) - k + 1) * AttemptTime
           /\ y = c * (Interval - Timeout) /\ y1 = (c + 1) * (Interval - Timeout)
           /\ z = c * Interval /\ z1 = (c + 1) * Interval
    OBVIOUS
  <2>2. /\ x \in Nat /\ y \in Nat /\ z \in Nat /\ s[k] \in Nat /\ x1 = x + AttemptTime
        /\ y1 = y + (Interval - Timeout) /\ z1 = z + Interval
    <3>1. x1 = ((Len(s) + 1) - k + 1) * AttemptTime
      BY <1>1, <2>1
    <3> QED BY <2>0, <2>1, <3>1, DelayNumbers
  <2>3. d + Interval <= r[k] + z1 /\ (t + AttemptTime) - (d + Interval) <= x1 - y1
    <3>1. d <= r[k] + z /\ (t - Timeout) - d <= x - y
      BY <1>3, <2>0, <2>1
    <3>2. r[k] \in Nat
      BY <2>0, <2>2
    <3>3. d + Interval <= r[k] + z1
      BY <1>0, <2>2, <3>1, <3>2
    <3>4. (t + AttemptTime) - (d + Interval) <= x1 - y1
      BY <1>0, <2>2, <3>1
    <3> QED BY <3>3, <3>4
  <2> QED BY <2>0, <2>1, <2>3 DEF Explained
<1> QED BY <1>2, <1>3 DEF Explained, r

(***************************************************************************)
(* Lateness is inductive for requests no longer than the interval.         *)
(***************************************************************************)
LEMMA LatenessStep ==
    ASSUME Timeout <= Interval, Watched, Lateness, [Next]_vars
    PROVE  Lateness'
<1> USE SettingsAssumption DEF Lateness, InAttempt
<1>0. /\ AttemptTime \in Nat /\ AttemptTime = RestartTime + RestartWait + RestartWait + Timeout
      /\ now \in Nat /\ wake \in Nat /\ due \in Nat /\ next_deadline \in Nat /\ deadline \in Nat
      /\ planned \in Nat /\ last_attempt \in Int /\ last_attempt <= now
      /\ pc # "dead" => now <= due
      /\ pc \notin {"sleep", "dead"} => next_deadline <= now
      /\ pc \in Instant => due = now
  BY AttemptsArePast DEF Watched, Soon, Fresh, TypeOK, LimiterTypeOK, AttemptTime
<1>s. starts \in Seq(Nat)
  <2>1. starts \in Seq(0..MaxTime) /\ MaxTime \in Nat
    BY LimitsAssumption DEF Watched, TypeOK, LimiterTypeOK
  <2>2. \A k \in 1..Len(starts) : starts[k] \in Nat
    BY <2>1, ElementOfSeq
  <2> QED BY <2>1, <2>2
\* The callback is over and the loop sleeps until the next deadline.
<1>1. ASSUME SleepUntilDeadline, UNCHANGED <<starts, planned>>, pc \notin {"sleep", "dead"},
             Explained(starts, now, next_deadline + Interval)
      PROVE  Lateness'
  <2>1. /\ pc' = "sleep" /\ due' = wake' /\ next_deadline' = next_deadline + Interval
        /\ wake' = Later(now, next_deadline + Interval)
    BY <1>1 DEF SleepUntilDeadline, Await
  <2>2. Explained(starts, Later(now, next_deadline + Interval), next_deadline + Interval)
    <3>1. CASE now >= next_deadline + Interval
      BY <1>1, <3>1 DEF Later
    <3>2. CASE ~(now >= next_deadline + Interval)
      <4>1. next_deadline + Interval <= next_deadline + Interval
        BY <1>0
      <4> QED BY <3>2, <4>1 DEF Later, Explained
    <3> QED BY <3>1, <3>2
  <2> QED BY <1>0, <1>1, <2>1, <2>2
\* An attempt that is over took no longer than AttemptTime.
<1>2. ASSUME pc \in InAttempt, now <= last_attempt + AttemptTime
      PROVE  Explained(starts, now, next_deadline + Interval)
  <2>1. next_deadline + Interval \in Nat /\ last_attempt + AttemptTime \in Int
    BY <1>0
  <2> QED BY <1>0, <1>2, <1>s, <2>1, EarlierIsExplained
<1>3. CASE Wake
  <2>1. /\ pc = "sleep" /\ pc' = "request" /\ wake' = now /\ due' = now + Timeout
        /\ planned' = planned + Interval /\ UNCHANGED <<starts, next_deadline>>
        /\ now = wake
    BY <1>0, <1>3 DEF Wake, Await, limiterVars
  <2> QED BY <1>0, <2>1
<1>4. CASE CheckOnce
  <2>1. /\ pc = "request" /\ pc' = "inspect" /\ due' = now
        /\ UNCHANGED <<starts, next_deadline, planned>>
    BY <1>4 DEF CheckOnce, Await, limiterVars
  <2>2. Explained(starts, now - Timeout, next_deadline)
    BY <1>0, <1>s, <2>1, EarlierIsExplained
  <2> QED BY <1>0, <2>1, <2>2
<1>5. CASE CheckConfig
  <2>1. /\ pc = "inspect" /\ pc' \in {"healthy", "unhealthy", "dead"} /\ due' = now
        /\ UNCHANGED <<starts, next_deadline, planned>>
    BY <1>5 DEF CheckConfig, Await, Dies, limiterVars, memoryVars
  <2>2. due = now
    BY <1>0, <2>1 DEF Instant
  <2> QED BY <1>0, <2>1, <2>2
<1>6. CASE HandleHealthy
  <2>1. /\ pc = "healthy" /\ UNCHANGED <<starts, planned>> /\ due = now
    BY <1>0, <1>6 DEF HandleHealthy, limiterVars, Instant
  <2>2. Explained(starts, now, next_deadline + Interval)
    BY <1>0, <1>s, <2>1, NextDeadline
  <2>3. CASE Dies
    BY <2>3 DEF Dies, Await
  <2>4. CASE SleepUntilDeadline
    BY <1>1, <2>1, <2>2, <2>4
  <2> QED BY <1>6, <2>3, <2>4 DEF HandleHealthy, Backup
<1>7. CASE HandleUnhealthy
  <2>1. /\ pc = "unhealthy" /\ planned' = planned /\ due = now
        /\ Explained(starts, now - Timeout, next_deadline)
    BY <1>0, <1>7 DEF HandleUnhealthy, limiterVars, Instant
  <2>2. CASE SleepUntilDeadline /\ starts' = starts
    <3>1. Explained(starts, now, next_deadline + Interval)
      BY <1>0, <1>s, <2>1, NextDeadline
    <3> QED BY <1>1, <2>1, <2>2, <3>1
  <2>3. CASE Start /\ FirstStep /\ UNCHANGED next_deadline
    <3>1. starts' = Append(starts, now) /\ last_attempt' = now
      BY <2>3 DEF Start
    <3>2. Explained(starts', now + AttemptTime, next_deadline + Interval)
      BY <1>0, <1>s, <2>1, <3>1, AttemptExplains
    <3>3. \/ pc' = "restart" /\ due' = now + RestartTime
          \/ pc' = "restore" /\ due' = now
      BY <2>3 DEF FirstStep, Await
    <3> QED BY <1>0, <2>1, <2>3, <3>1, <3>2, <3>3
  <2> QED BY <1>7, <2>2, <2>3 DEF HandleUnhealthy, Begin, GiveUp, Defer, limiterVars
<1>8. CASE Restore \/ Install
  <2>1. /\ pc \in {"restore", "install"} /\ UNCHANGED <<starts, last_attempt>>
        /\ now <= last_attempt + AttemptTime /\ now <= last_attempt
    BY <1>0, <1>8 DEF Restore, Install, limiterVars
  <2>2. CASE Fails
    BY <1>1, <1>2, <2>1, <2>2 DEF Fails
  <2>3. CASE ~Fails
    <3>1. /\ UNCHANGED <<next_deadline, planned>>
          /\ \/ pc' = "install" /\ due' = now
             \/ pc' = "restart" /\ due' = now + RestartTime
      BY <1>8, <2>3 DEF Restore, Install, Await, memoryVars
    <3> QED BY <1>0, <2>1, <3>1
  <2> QED BY <2>2, <2>3
<1>9. CASE RestartContainer
  <2>1. /\ pc = "restart" /\ UNCHANGED <<starts, last_attempt>>
        /\ now <= last_attempt + AttemptTime /\ now <= last_attempt + RestartTime
    BY <1>0, <1>9 DEF RestartContainer, limiterVars
  <2>2. CASE Fails
    BY <1>1, <1>2, <2>1, <2>2 DEF Fails
  <2>3. CASE ~Fails
    <3>1. /\ UNCHANGED <<next_deadline, planned>>
          /\ pc' = "waiting" /\ due' = now /\ deadline' = now + RestartWait
      BY <1>9, <2>3 DEF RestartContainer, Await, memoryVars
    <3> QED BY <1>0, <2>1, <3>1
  <2> QED BY <2>2, <2>3
<1>10. CASE WaitForRunning
  <2>1. /\ pc = "waiting" /\ UNCHANGED <<starts, last_attempt>>
        /\ now <= last_attempt + AttemptTime /\ now <= last_attempt + RestartTime + RestartWait
    BY <1>0, <1>10 DEF WaitForRunning, limiterVars
  <2>2. CASE Fails
    BY <1>1, <1>2, <2>1, <2>2 DEF Fails
  <2>3. CASE ~Fails
    <3>1. /\ UNCHANGED <<next_deadline, planned>>
          /\ \/ pc' = "probe" /\ deadline' = now + RestartWait /\ due' = now + Timeout
             \/ pc' = "waiting" /\ deadline' = deadline /\ due' <= deadline
      BY <1>0, <1>10, <2>3 DEF WaitForRunning, Await, Sooner, memoryVars
    <3> QED BY <1>0, <2>1, <3>1
  <2> QED BY <2>2, <2>3
<1>11. CASE Probe \/ ProbeAgain
  <2>1. /\ pc \in {"probe", "pause"} /\ UNCHANGED <<starts, last_attempt, planned>>
        /\ now <= last_attempt + AttemptTime
    BY <1>0, <1>11 DEF Probe, ProbeAgain, Fails, Succeeds, limiterVars, memoryVars
  <2>2. CASE SleepUntilDeadline
    BY <1>1, <1>2, <2>1, <2>2
  <2>3. CASE ~SleepUntilDeadline
    <3>1. /\ UNCHANGED <<next_deadline, deadline>> /\ pc' \in {"probe", "pause"}
          /\ due' <= deadline + Timeout
      <4>1. CASE Probe
        BY <1>0, <2>3, <4>1 DEF Probe, Succeeds, Fails, Await, Sooner
      <4>2. CASE ProbeAgain
        <5>1. now <= deadline
          BY <1>0, <4>2 DEF ProbeAgain, Watched, Soon
        <5> QED BY <1>0, <4>2, <5>1 DEF ProbeAgain, Await
      <4> QED BY <1>11, <4>1, <4>2
    <3> QED BY <1>0, <2>1, <3>1
  <2> QED BY <2>2, <2>3
<1>12. CASE RestartController
  <2>1. /\ pc' = "request" /\ wake' = now /\ due' = now + Timeout
        /\ next_deadline' = now /\ planned' = now
    BY <1>12 DEF RestartController, Await
  <2>2. Explained(starts', now, now)
    BY <1>0 DEF Explained
  <2> QED BY <1>0, <2>1, <2>2
<1>13. CASE TimePasses \/ (Environment /\ ~RestartController) \/ UNCHANGED vars
  <2>1. UNCHANGED <<starts, last_attempt, planned, taskVars>>
    BY <1>13 DEF TimePasses, Tick, Environment, WriteConfig, StopOrStartContainer, ChangeDocker,
                 ChangeNetwork, DamageBackup, limiterVars, memoryVars, vars
  <2> QED BY <2>1 DEF taskVars
<1> QED BY <1>3, <1>4, <1>5, <1>6, <1>7, <1>8, <1>9, <1>10, <1>11, <1>12, <1>13
        DEF Next, Task

(***************************************************************************)
(* AC-023: for requests no longer than the interval, a check begins on its *)
(* deadline or is late by what the attempts before it explain, less what   *)
(* the loop has won back at every deadline since; however long the         *)
(* controller runs, no delay adds up.                                      *)
(***************************************************************************)
THEOREM ChecksDoNotDrift ==
    ASSUME Timeout <= Interval
    PROVE  Spec => []NoDrift
<1>1. Init => Lateness
  BY SettingsAssumption DEF Init, Lateness, InAttempt, Explained
<1>2. Watched /\ Lateness /\ [Next]_vars => Lateness'
  BY LatenessStep
<1>3. Watched /\ Lateness => NoDrift
  BY DEF Watched, Soon, Lateness, NoDrift, InTime, Explained
<1> QED BY <1>1, <1>2, <1>3, WatchedInvariant, PTL DEF Spec

=============================================================================
