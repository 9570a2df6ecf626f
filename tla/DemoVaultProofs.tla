--------------------------- MODULE DemoVaultProofs ---------------------------
(***************************************************************************)
(* The safety of Guardian and DemoVault for any accounts, references and   *)
(* number of events.  The properties are read off the log, which only ever *)
(* grows; so each is split into a part about the past, which a step cannot *)
(* change, and one about the event the step emits, for which LogTellsState *)
(* connects the log with the state the contract's conditions are about.    *)
(***************************************************************************)
EXTENDS DemoVault, WellFoundedInduction, TLAPS

\* What the contracts emit.
Event ==
    [type : {"KeeperUpdated"}, keeper : Accounts, allowed : BOOLEAN]
        \cup [type : {"Paused"}, ref : Refs, severity : Nat, keeper : Accounts]
        \cup [type : {"Unpaused"}, ref : Refs, owner : Accounts]
        \cup [type : {"DemoCreditIssued"}, account : Accounts, amount : Nat]
        \cup [type : {"Withdrawal"}, account : Accounts, recipient : Accounts,
              triggeredBy : Accounts, amount : Nat, remainingCredit : Nat]

LogTypeOK == log \in Seq(Event)

\* What the log shows of the owner: it never became a keeper, and it alone
\* unpaused.
OwnerApart ==
    /\ \A i \in Positions("KeeperUpdated") : log[i].keeper = Owner => ~log[i].allowed
    /\ \A i \in Positions("Unpaused") : log[i].owner = Owner

ContractsInv ==
    /\ TypeOK /\ LogTypeOK /\ LogTellsState /\ OwnerApart
    /\ PausesAreAuthorised /\ UnpausesAreHuman /\ PauseStopsWithdrawals

\* The log with one more event: the old ones where they were, the new one last.
Grows(event) ==
    LET n == Len(log) + 1 IN
    /\ n \in Nat /\ n >= 1 /\ Len(log') = n
    /\ DOMAIN log = 1..Len(log) /\ DOMAIN log' = 1..n
    /\ \A k \in 1..Len(log) : log'[k] = log[k]
    /\ log'[n] = event

-----------------------------------------------------------------------------
(* The log. *)

(***************************************************************************)
(* Emit appends one event behind all others.                               *)
(***************************************************************************)
LEMMA EmitGrows ==
    ASSUME LogTypeOK, NEW event \in Event, Emit(event)
    PROVE  Grows(event) /\ LogTypeOK' /\ Len(log') <= MaxLog
<1>1. log \in Seq(Event) /\ log' = Append(log, event) /\ Len(log) < MaxLog
  BY DEF LogTypeOK, Emit
<1>2. Len(log) \in Nat /\ DOMAIN log = 1..Len(log)
  BY <1>1
<1>3. /\ log' \in Seq(Event) /\ Len(log') = Len(log) + 1
      /\ DOMAIN log' = 1..(Len(log) + 1)
      /\ \A k \in 1..Len(log) : log'[k] = log[k]
      /\ log'[Len(log) + 1] = event
  BY <1>1, <1>2
<1> QED BY <1>1, <1>2, <1>3, ConstructorAssumption DEF Grows, LogTypeOK

(***************************************************************************)
(* What the log says of a position it has reached stays so.                *)
(***************************************************************************)
LEMMA PastStays ==
    ASSUME NEW event, Grows(event), NEW i \in 1..(Len(log) + 1)
    PROVE  /\ PausedAt(i)' <=> PausedAt(i)
           /\ \A account : KeeperAt(account, i)' <=> KeeperAt(account, i)
<1>1. Len(log) \in Nat /\ i \in Nat
  BY DEF Grows
<1>2. \A j \in DOMAIN log' : j < i => j \in DOMAIN log /\ log'[j] = log[j]
  BY <1>1 DEF Grows
<1>3. \A j \in DOMAIN log : j \in DOMAIN log' /\ log'[j] = log[j]
  BY <1>1 DEF Grows
<1>4. \A j \in DOMAIN log : \A k \in j + 1..i - 1 : k \in DOMAIN log /\ log'[k] = log[k]
  BY <1>1 DEF Grows
<1>5. PausedAt(i)' <=> PausedAt(i)
  BY <1>2, <1>3, <1>4 DEF PausedAt, IsLast
<1>6. ASSUME NEW account PROVE KeeperAt(account, i)' <=> KeeperAt(account, i)
  BY <1>2, <1>3 DEF KeeperAt, Positions
<1> QED BY <1>5, <1>6

(***************************************************************************)
(* After an event the contract is paused, for a reader of the log, if the  *)
(* event says so, or says nothing about it and it was paused before.       *)
(***************************************************************************)
LEMMA PausedAfter ==
    ASSUME NEW event, Grows(event)
    PROVE  PausedAt(Len(log) + 1)'
               <=> \/ event.type = "Paused"
                   \/ event.type # "Unpaused" /\ PausedAt(Len(log) + 1)
<1> DEFINE types == {"Paused", "Unpaused"}
<1> PICK n \in Nat : n = Len(log) + 1
  BY DEF Grows
<1>1. /\ Len(log) \in Nat /\ Len(log) = n - 1 /\ Len(log') = n
      /\ DOMAIN log = 1..Len(log) /\ DOMAIN log' = 1..n
      /\ \A k \in 1..Len(log) : log'[k] = log[k]
      /\ log'[n] = event
  BY DEF Grows
<1>2. CASE event.type \in types
  <2>1. \A j \in DOMAIN log' : IsLast(j, Len(log) + 1, types)' => j = n
    <3> SUFFICES ASSUME NEW j \in 1..Len(log), IsLast(j, Len(log) + 1, types)' PROVE FALSE
      BY <1>1
    <3>1. n \in j + 1..Len(log') + 1 - 1
      BY <1>1
    <3> QED BY <1>1, <1>2, <3>1 DEF IsLast
  <2>2. IsLast(n, Len(log) + 1, types)'
    BY <1>1, <1>2 DEF IsLast
  <2> QED BY <1>1, <1>2, <2>1, <2>2 DEF PausedAt
<1>3. CASE event.type \notin types
  <2>1. ~IsLast(n, Len(log) + 1, types)'
    BY <1>1, <1>3 DEF IsLast
  <2>2. ASSUME NEW j \in 1..Len(log)
        PROVE  IsLast(j, Len(log) + 1, types)' <=> IsLast(j, Len(log) + 1, types)
    <3>1. j + 1..Len(log') + 1 - 1 = (j + 1..Len(log) + 1 - 1) \cup {n}
      BY <1>1
    <3>2. \A k \in j + 1..Len(log) + 1 - 1 : log'[k] = log[k]
      BY <1>1
    <3>3. j < Len(log) + 1 /\ j < Len(log') + 1 /\ log'[j] = log[j]
      BY <1>1
    <3> QED BY <1>1, <1>3, <3>1, <3>2, <3>3 DEF IsLast
  <2> QED BY <1>1, <1>3, <2>1, <2>2 DEF PausedAt
<1> QED BY <1>2, <1>3

(***************************************************************************)
(* After an event an account is keeper, for a reader of the log, if the    *)
(* event grants it the role, or does not name it and it was one before.    *)
(***************************************************************************)
LEMMA KeeperAfter ==
    ASSUME NEW event, Grows(event), NEW account
    PROVE  KeeperAt(account, Len(log) + 1)'
               <=> IF event.type = "KeeperUpdated" /\ event.keeper = account
                   THEN event.allowed ELSE KeeperAt(account, Len(log) + 1)
<1> DEFINE Named == event.type = "KeeperUpdated" /\ event.keeper = account
<1> PICK n \in Nat : n = Len(log) + 1
  BY DEF Grows
<1>1. /\ Len(log) \in Nat /\ Len(log) = n - 1 /\ Len(log') = n
      /\ DOMAIN log = 1..Len(log) /\ DOMAIN log' = 1..n
      /\ \A k \in 1..Len(log) : log'[k] = log[k]
      /\ log'[n] = event
  BY DEF Grows
<1>2. \A j \in 1..Len(log) : j \in Positions("KeeperUpdated")' <=> j \in Positions("KeeperUpdated")
  BY <1>1 DEF Positions
<1>3. n \in Positions("KeeperUpdated")' <=> event.type = "KeeperUpdated"
  BY <1>1 DEF Positions
<1>4. Positions("KeeperUpdated") \subseteq 1..Len(log) /\ Positions("KeeperUpdated")' \subseteq 1..n
  BY <1>1 DEF Positions
<1>5. CASE Named
  BY <1>1, <1>2, <1>3, <1>4, <1>5 DEF KeeperAt
<1>6. CASE ~Named
  BY <1>1, <1>2, <1>3, <1>4, <1>6 DEF KeeperAt
<1> QED BY <1>5, <1>6

-----------------------------------------------------------------------------
(* One more event: what each property asks of it. *)

(***************************************************************************)
(* The positions of one type: the old ones, and the new event's if it has  *)
(* that type.                                                              *)
(***************************************************************************)
LEMMA PositionsAfter ==
    ASSUME NEW event, Grows(event), NEW type
    PROVE  /\ \A i \in Positions(type)' : \/ i \in Positions(type) /\ log'[i] = log[i]
                                          \/ i = Len(log) + 1 /\ event.type = type
           /\ \A i \in Positions(type) : i \in Positions(type)' /\ log'[i] = log[i]
           /\ event.type = type => Len(log) + 1 \in Positions(type)'
           /\ Positions(type) \subseteq 1..Len(log)
           /\ log'[Len(log) + 1] = event
           /\ Len(log) \in Nat
BY DEF Grows, Positions

(***************************************************************************)
(* The state stays what the log says if the step changes it as its event   *)
(* says.                                                                   *)
(***************************************************************************)
LEMMA StateStep ==
    ASSUME LogTellsState, NEW event, Grows(event),
           paused' <=> (event.type = "Paused" \/ (event.type # "Unpaused" /\ paused)),
           keepers' = {a \in Accounts : IF event.type = "KeeperUpdated" /\ event.keeper = a
                                        THEN event.allowed ELSE a \in keepers},
           usedIncidentRefs' = IF event.type = "Paused" THEN usedIncidentRefs \cup {event.ref}
                               ELSE usedIncidentRefs
    PROVE  LogTellsState'
<1>1. paused' <=> PausedAt(Len(log) + 1)'
  BY PausedAfter DEF LogTellsState
<1>2. keepers' = {a \in Accounts : KeeperAt(a, Len(log) + 1)'}
  <2>1. \A a \in Accounts : a \in keepers <=> KeeperAt(a, Len(log) + 1)
    BY DEF LogTellsState
  <2>2. \A a \in Accounts : KeeperAt(a, Len(log) + 1)'
                                <=> IF event.type = "KeeperUpdated" /\ event.keeper = a
                                    THEN event.allowed ELSE a \in keepers
    BY <2>1, KeeperAfter
  <2> QED BY <2>2
<1>3. usedIncidentRefs' = {log'[i].ref : i \in Positions("Paused")'}
  BY PositionsAfter DEF LogTellsState
<1> QED BY <1>1, <1>2, <1>3 DEF LogTellsState

(***************************************************************************)
(* A pause by a keeper, while not paused, with an unused reference.        *)
(***************************************************************************)
LEMMA PausesStep ==
    ASSUME LogTellsState, PausesAreAuthorised, NEW event, Grows(event),
           event.type = "Paused" => /\ ~paused /\ event.keeper \in keepers
                                    /\ event.ref \notin usedIncidentRefs
    PROVE  PausesAreAuthorised'
<1> SUFFICES ASSUME NEW i \in Positions("Paused")'
             PROVE  /\ ~PausedAt(i)'
                    /\ KeeperAt(log[i].keeper, i)'
                    /\ \A j \in Positions("Paused")' : log'[j].ref = log'[i].ref => j = i
  BY DEF PausesAreAuthorised
<1> PICK keeper : keeper = log'[i].keeper
  OBVIOUS
<1>0. KeeperAt(keeper, i)' => KeeperAt(log[i].keeper, i)'
  BY DEF KeeperAt
<1>1. i \in 1..(Len(log) + 1)
  BY PositionsAfter
<1>2. CASE i \in Positions("Paused") /\ log'[i] = log[i]
  <2>1. ~PausedAt(i)' /\ KeeperAt(keeper, i)'
    BY <1>1, <1>2, PastStays DEF PausesAreAuthorised
  <2>2. \A j \in Positions("Paused")' : log'[j].ref = log'[i].ref => j = i
    BY <1>2, PositionsAfter DEF PausesAreAuthorised, LogTellsState
  <2> QED BY <1>0, <2>1, <2>2
<1>3. CASE i = Len(log) + 1 /\ event.type = "Paused"
  <2>1. ~PausedAt(i)' /\ KeeperAt(event.keeper, i)'
    BY <1>1, <1>3, PastStays DEF LogTellsState
  <2>2. log'[i] = event
    BY <1>3, PositionsAfter
  <2>3. \A j \in Positions("Paused")' : log'[j].ref = log'[i].ref => j = i
    BY <1>3, <2>2, PositionsAfter DEF LogTellsState
  <2> QED BY <1>0, <2>1, <2>2, <2>3
<1> QED BY <1>2, <1>3, PositionsAfter

(***************************************************************************)
(* An unpause by the owner, while paused; the role of a keeper never for   *)
(* the owner.                                                              *)
(***************************************************************************)
LEMMA UnpausesStep ==
    ASSUME LogTellsState, OwnerApart, UnpausesAreHuman, NEW event, Grows(event),
           event.type = "Unpaused" => paused /\ event.owner = Owner,
           event.type = "KeeperUpdated" => (event.keeper = Owner => ~event.allowed)
    PROVE  OwnerApart' /\ UnpausesAreHuman'
<1>1. OwnerApart'
  BY PositionsAfter DEF OwnerApart
<1>2. \A j : ~KeeperAt(Owner, j)'
  BY <1>1 DEF OwnerApart, KeeperAt
<1>3. ASSUME NEW i \in Positions("Unpaused")' PROVE PausedAt(i)' /\ log'[i].owner = Owner
  <2>1. i \in 1..(Len(log) + 1)
    BY PositionsAfter
  <2>2. CASE i \in Positions("Unpaused") /\ log'[i] = log[i]
    BY <2>1, <2>2, PastStays DEF UnpausesAreHuman, OwnerApart
  <2>3. CASE i = Len(log) + 1 /\ event.type = "Unpaused"
    BY <2>1, <2>3, PastStays, PositionsAfter DEF LogTellsState
  <2> QED BY <2>2, <2>3, PositionsAfter
<1> QED BY <1>1, <1>2, <1>3 DEF UnpausesAreHuman

(***************************************************************************)
(* A withdrawal while not paused.                                          *)
(***************************************************************************)
LEMMA WithdrawalsStep ==
    ASSUME LogTellsState, PauseStopsWithdrawals, NEW event, Grows(event),
           event.type = "Withdrawal" => ~paused
    PROVE  PauseStopsWithdrawals'
<1> SUFFICES ASSUME NEW i \in Positions("Withdrawal")' PROVE ~PausedAt(i)'
  BY DEF PauseStopsWithdrawals
<1>1. i \in 1..(Len(log) + 1)
  BY PositionsAfter
<1>2. CASE i \in Positions("Withdrawal")
  BY <1>1, <1>2, PastStays DEF PauseStopsWithdrawals
<1>3. CASE i = Len(log) + 1 /\ event.type = "Withdrawal"
  BY <1>1, <1>3, PastStays DEF LogTellsState
<1> QED BY <1>2, <1>3, PositionsAfter

-----------------------------------------------------------------------------
(* The contracts' functions. *)

(***************************************************************************)
(* The constructors establish the invariant.                               *)
(***************************************************************************)
LEMMA InitInv == Init => ContractsInv
<1> SUFFICES ASSUME Init PROVE ContractsInv
  OBVIOUS
<1> DEFINE first == KeeperUpdated(InitialKeeper, TRUE)
<1>1. /\ paused = FALSE /\ keepers = {InitialKeeper} /\ usedIncidentRefs = {}
      /\ log = <<first>> /\ demoCredits = [account \in Accounts |-> 0]
  BY DEF Init, GuardianInit
<1>2. /\ first \in Event /\ first.type = "KeeperUpdated"
      /\ first.keeper = InitialKeeper /\ first.allowed
  BY ConstructorAssumption DEF Event, KeeperUpdated
<1> HIDE DEF first
<1>3. Len(log) = 1 /\ DOMAIN log = {1} /\ log[1] = first /\ log \in Seq(Event)
  BY <1>1, <1>2
<1>4. TypeOK /\ LogTypeOK
  <2>1. demoCredits \in [Accounts -> 0..MaxUint]
    BY <1>1, AmountAssumption
  <2>2. keepers \subseteq Accounts \ {ZeroAddress, Owner} /\ Len(log) <= MaxLog
    BY <1>1, <1>3, ConstructorAssumption
  <2> QED BY <1>1, <1>3, <2>1, <2>2 DEF TypeOK, LogTypeOK
<1>5. /\ Positions("KeeperUpdated") = {1}
      /\ \A type : type # "KeeperUpdated" => Positions(type) = {}
  BY <1>2, <1>3 DEF Positions
<1>6. LogTellsState
  <2>1. ~PausedAt(Len(log) + 1)
    BY <1>2, <1>3 DEF PausedAt, IsLast
  <2>2. \A account : KeeperAt(account, 2) <=> account = InitialKeeper
    BY <1>2, <1>3, <1>5 DEF KeeperAt
  <2>3. Len(log) + 1 = 2 /\ InitialKeeper \in Accounts
    BY <1>3, ConstructorAssumption
  <2> QED BY <1>1, <1>5, <2>1, <2>2, <2>3 DEF LogTellsState
<1>7. OwnerApart /\ PausesAreAuthorised /\ UnpausesAreHuman /\ PauseStopsWithdrawals
  BY <1>2, <1>3, <1>5, ConstructorAssumption
     DEF OwnerApart, PausesAreAuthorised, UnpausesAreHuman, PauseStopsWithdrawals
<1> QED BY <1>4, <1>6, <1>7 DEF ContractsInv

(***************************************************************************)
(* setKeeper keeps the invariant.                                          *)
(***************************************************************************)
LEMMA SetKeeperInv ==
    ASSUME ContractsInv, NEW sender \in Accounts, NEW keeper \in Accounts,
           NEW allowed \in BOOLEAN, SetKeeper(sender, keeper, allowed), UNCHANGED demoCredits
    PROVE  ContractsInv'
<1> DEFINE event == KeeperUpdated(keeper, allowed)
<1>1. /\ event \in Event /\ event.type = "KeeperUpdated"
      /\ event.keeper = keeper /\ event.allowed = allowed
  BY DEF Event, KeeperUpdated
<1> HIDE DEF event
<1>2. Emit(event) /\ UNCHANGED <<paused, usedIncidentRefs>>
  BY DEF SetKeeper, event
<1>3. Grows(event) /\ LogTypeOK' /\ Len(log') <= MaxLog
  BY <1>1, <1>2, EmitGrows DEF ContractsInv
<1>4. keeper # ZeroAddress /\ (allowed => keeper # Owner)
  BY DEF SetKeeper, RolesDiffer
<1>5. /\ keepers \subseteq Accounts \ {ZeroAddress, Owner}
      /\ keepers' = IF allowed THEN keepers \cup {keeper} ELSE keepers \ {keeper}
  BY DEF SetKeeper, KeepersAfter, ContractsInv, TypeOK
<1>6. TypeOK'
  BY <1>2, <1>3, <1>4, <1>5 DEF ContractsInv, TypeOK
<1>7. LogTellsState'
  <2>1. keepers' = {a \in Accounts : IF event.type = "KeeperUpdated" /\ event.keeper = a
                                     THEN event.allowed ELSE a \in keepers}
    BY <1>1, <1>5
  <2> QED BY <1>1, <1>2, <1>3, <2>1, StateStep DEF ContractsInv
<1>8. PausesAreAuthorised' /\ PauseStopsWithdrawals'
  BY <1>1, <1>3, PausesStep, WithdrawalsStep DEF ContractsInv
<1>9. OwnerApart' /\ UnpausesAreHuman'
  BY <1>1, <1>3, <1>4, UnpausesStep DEF ContractsInv
<1> QED BY <1>3, <1>6, <1>7, <1>8, <1>9 DEF ContractsInv

(***************************************************************************)
(* pause keeps the invariant.                                              *)
(***************************************************************************)
LEMMA PauseInv ==
    ASSUME ContractsInv, NEW sender \in Accounts, NEW ref \in Refs, NEW severity \in Severities,
           Pause(sender, ref, severity), UNCHANGED demoCredits
    PROVE  ContractsInv'
<1> DEFINE event == Paused(ref, severity, sender)
<1>1. event \in Event /\ event.type = "Paused" /\ event.ref = ref /\ event.keeper = sender
  BY ConstructorAssumption DEF Event, Paused
<1> HIDE DEF event
<1>2. /\ Emit(event) /\ sender \in keepers /\ ref # ZeroHash /\ ref \notin usedIncidentRefs
      /\ ~paused /\ paused' = TRUE /\ usedIncidentRefs' = usedIncidentRefs \cup {ref}
      /\ UNCHANGED keepers
  BY DEF Pause, Unused, event
<1>3. Grows(event) /\ LogTypeOK' /\ Len(log') <= MaxLog
  BY <1>1, <1>2, EmitGrows DEF ContractsInv
<1>4. TypeOK'
  BY <1>2, <1>3 DEF ContractsInv, TypeOK
<1>5. LogTellsState'
  <2>1. keepers' = {a \in Accounts : IF event.type = "KeeperUpdated" /\ event.keeper = a
                                     THEN event.allowed ELSE a \in keepers}
    BY <1>1, <1>2 DEF ContractsInv, TypeOK
  <2> QED BY <1>1, <1>2, <1>3, <2>1, StateStep DEF ContractsInv
<1>6. PausesAreAuthorised' /\ PauseStopsWithdrawals'
  BY <1>1, <1>2, <1>3, PausesStep, WithdrawalsStep DEF ContractsInv
<1>7. OwnerApart' /\ UnpausesAreHuman'
  BY <1>1, <1>3, UnpausesStep DEF ContractsInv
<1> QED BY <1>3, <1>4, <1>5, <1>6, <1>7 DEF ContractsInv

(***************************************************************************)
(* unpause keeps the invariant.                                            *)
(***************************************************************************)
LEMMA UnpauseInv ==
    ASSUME ContractsInv, NEW sender \in Accounts, NEW reason \in Refs,
           Unpause(sender, reason), UNCHANGED demoCredits
    PROVE  ContractsInv'
<1> DEFINE event == Unpaused(reason, sender)
<1>1. event \in Event /\ event.type = "Unpaused" /\ event.owner = sender
  BY DEF Event, Unpaused
<1> HIDE DEF event
<1>2. /\ Emit(event) /\ sender = Owner /\ paused /\ paused' = FALSE
      /\ UNCHANGED <<keepers, usedIncidentRefs>>
  BY DEF Unpause, event
<1>3. Grows(event) /\ LogTypeOK' /\ Len(log') <= MaxLog
  BY <1>1, <1>2, EmitGrows DEF ContractsInv
<1>4. TypeOK'
  BY <1>2, <1>3 DEF ContractsInv, TypeOK
<1>5. LogTellsState'
  <2>1. keepers' = {a \in Accounts : IF event.type = "KeeperUpdated" /\ event.keeper = a
                                     THEN event.allowed ELSE a \in keepers}
    BY <1>1, <1>2 DEF ContractsInv, TypeOK
  <2> QED BY <1>1, <1>2, <1>3, <2>1, StateStep DEF ContractsInv
<1>6. PausesAreAuthorised' /\ PauseStopsWithdrawals'
  BY <1>1, <1>3, PausesStep, WithdrawalsStep DEF ContractsInv
<1>7. OwnerApart' /\ UnpausesAreHuman'
  BY <1>1, <1>2, <1>3, UnpausesStep DEF ContractsInv
<1> QED BY <1>3, <1>4, <1>5, <1>6, <1>7 DEF ContractsInv

(***************************************************************************)
(* The vault's functions leave the Guardian alone and emit their own       *)
(* events, withdrawals only while not paused.                              *)
(***************************************************************************)
LEMMA VaultEventInv ==
    ASSUME ContractsInv, NEW event \in Event, Emit(event), UNCHANGED guardianVars,
           event.type \in {"DemoCreditIssued", "Withdrawal"},
           event.type = "Withdrawal" => ~paused,
           demoCredits' \in [Accounts -> 0..MaxUint]
    PROVE  ContractsInv'
<1>1. Grows(event) /\ LogTypeOK' /\ Len(log') <= MaxLog
  BY EmitGrows DEF ContractsInv
<1>2. UNCHANGED <<paused, keepers, usedIncidentRefs>>
  BY DEF guardianVars
<1>3. TypeOK'
  BY <1>1, <1>2 DEF ContractsInv, TypeOK
<1>4. LogTellsState'
  <2>1. keepers' = {a \in Accounts : IF event.type = "KeeperUpdated" /\ event.keeper = a
                                     THEN event.allowed ELSE a \in keepers}
    BY <1>2 DEF ContractsInv, TypeOK
  <2> QED BY <1>1, <1>2, <2>1, StateStep DEF ContractsInv
<1>5. PausesAreAuthorised' /\ PauseStopsWithdrawals'
  BY <1>1, PausesStep, WithdrawalsStep DEF ContractsInv
<1>6. OwnerApart' /\ UnpausesAreHuman'
  BY <1>1, UnpausesStep DEF ContractsInv
<1> QED BY <1>1, <1>3, <1>4, <1>5, <1>6 DEF ContractsInv

(***************************************************************************)
(* What faucetCredit does to the credits and to the log.                   *)
(***************************************************************************)
LEMMA FaucetStep ==
    ASSUME TypeOK, NEW account \in Accounts, NEW amount \in Amounts, FaucetCredit(account, amount)
    PROVE  LET event == DemoCreditIssued(account, amount) IN
           /\ event \in Event /\ event.type = "DemoCreditIssued"
           /\ event.account = account /\ event.amount = amount
           /\ Emit(event) /\ UNCHANGED guardianVars
           /\ demoCredits' = [demoCredits EXCEPT ![account] = @ + amount]
           /\ demoCredits' \in [Accounts -> 0..MaxUint]
<1>1. amount \in Nat /\ MaxUint \in Nat /\ demoCredits \in [Accounts -> 0..MaxUint]
  BY AmountAssumption DEF TypeOK
<1>2. demoCredits[account] + amount \in 0..MaxUint
  BY <1>1 DEF FaucetCredit, Sum
<1>3. demoCredits' = [demoCredits EXCEPT ![account] = @ + amount]
  BY DEF FaucetCredit, Sum
<1>4. demoCredits' \in [Accounts -> 0..MaxUint]
  BY <1>1, <1>2, <1>3
<1> QED BY <1>1, <1>3, <1>4 DEF FaucetCredit, DemoCreditIssued, Event

(***************************************************************************)
(* What a withdrawal does to the credits and to the log.                   *)
(***************************************************************************)
LEMMA WithdrawStep ==
    ASSUME TypeOK, NEW account \in Accounts, NEW recipient \in Accounts, NEW sender \in Accounts,
           NEW amount \in Amounts, WithdrawFrom(account, recipient, sender, amount)
    PROVE  LET event == Withdrawal(account, recipient, sender, amount,
                                   demoCredits[account] - amount) IN
           /\ event \in Event /\ event.type = "Withdrawal"
           /\ event.account = account /\ event.amount = amount
           /\ event.remainingCredit = demoCredits[account] - amount
           /\ Emit(event) /\ UNCHANGED guardianVars
           /\ demoCredits' = [demoCredits EXCEPT ![account] = @ - amount]
           /\ demoCredits' \in [Accounts -> 0..MaxUint]
<1>1. amount \in Nat /\ MaxUint \in Nat /\ demoCredits \in [Accounts -> 0..MaxUint]
  BY AmountAssumption DEF TypeOK
<1>2. demoCredits[account] - amount \in 0..MaxUint
  BY <1>1 DEF WithdrawFrom
<1>3. demoCredits' = [demoCredits EXCEPT ![account] = @ - amount]
  BY DEF WithdrawFrom
<1>4. demoCredits' \in [Accounts -> 0..MaxUint]
  BY <1>1, <1>2, <1>3
<1> QED BY <1>1, <1>2, <1>3, <1>4 DEF WithdrawFrom, Withdrawal, Event

(***************************************************************************)
(* Every call keeps the invariant.                                         *)
(***************************************************************************)
LEMMA NextInv == ContractsInv /\ [Next]_vars => ContractsInv'
<1> SUFFICES ASSUME ContractsInv, [Next]_vars PROVE ContractsInv'
  OBVIOUS
<1>1. CASE GuardianNext /\ UNCHANGED demoCredits
  BY <1>1, SetKeeperInv, PauseInv, UnpauseInv DEF GuardianNext
<1>2. ASSUME NEW account \in Accounts, NEW amount \in Amounts, FaucetCredit(account, amount)
      PROVE  ContractsInv'
  BY <1>2, FaucetStep, VaultEventInv DEF ContractsInv
<1>3. ASSUME NEW account \in Accounts, NEW recipient \in Accounts, NEW sender \in Accounts,
             NEW amount \in Amounts, ~paused, WithdrawFrom(account, recipient, sender, amount)
      PROVE  ContractsInv'
  BY <1>3, WithdrawStep, VaultEventInv DEF ContractsInv
<1>4. CASE VaultNext
  BY <1>2, <1>3, <1>4 DEF VaultNext, Withdraw, UnsafeWithdrawFrom, WhenNotPaused
<1>5. CASE UNCHANGED vars
  BY <1>5 DEF vars, guardianVars, ContractsInv, TypeOK, LogTypeOK, LogTellsState, OwnerApart,
              PausesAreAuthorised, UnpausesAreHuman, PauseStopsWithdrawals, Positions,
              PausedAt, IsLast, KeeperAt
<1> QED BY <1>1, <1>4, <1>5 DEF Next

-----------------------------------------------------------------------------
(* Theorems. *)

(***************************************************************************)
(* Credits fit a uint256 and the owner and the zero address never hold the *)
(* keeper role.                                                            *)
(***************************************************************************)
THEOREM TypeCorrect == Spec => []TypeOK
<1>1. ContractsInv => TypeOK
  BY DEF ContractsInv
<1> QED BY <1>1, InitInv, NextInv, PTL DEF Spec

(***************************************************************************)
(* Whoever has the log knows the state: whether the contract is paused,    *)
(* who may pause, and which references are used up.                        *)
(***************************************************************************)
THEOREM LogIsComplete == Spec => []LogTellsState
<1>1. ContractsInv => LogTellsState
  BY DEF ContractsInv
<1> QED BY <1>1, InitInv, NextInv, PTL DEF Spec

(***************************************************************************)
(* Every pause in the log was made by an account that was keeper then,     *)
(* while not paused, with a reference never used before or after.          *)
(***************************************************************************)
THEOREM OnlyKeepersPause == Spec => []PausesAreAuthorised
<1>1. ContractsInv => PausesAreAuthorised
  BY DEF ContractsInv
<1> QED BY <1>1, InitInv, NextInv, PTL DEF Spec

(***************************************************************************)
(* Every unpause in the log ended a pause and was made by an account that  *)
(* was never able to pause.                                                *)
(***************************************************************************)
THEOREM OnlyOwnerUnpauses == Spec => []UnpausesAreHuman
<1>1. ContractsInv => UnpausesAreHuman
  BY DEF ContractsInv
<1> QED BY <1>1, InitInv, NextInv, PTL DEF Spec

(***************************************************************************)
(* No withdrawal, of either kind, lies in the log between a pause and the  *)
(* next unpause.                                                           *)
(***************************************************************************)
THEOREM PausedVaultPaysNothing == Spec => []PauseStopsWithdrawals
<1>1. ContractsInv => PauseStopsWithdrawals
  BY DEF ContractsInv
<1> QED BY <1>1, InitInv, NextInv, PTL DEF Spec

-----------------------------------------------------------------------------
(* The ledger. *)

\* b[i] are the balances after event i: none at first, then each event's
\* movement, never outside a uint256, up to the credits of now; a Withdrawal
\* carries the balance it left.
IsLedger(b) ==
    /\ b[0] = [account \in Accounts |-> 0]
    /\ \A i \in 1..Len(log) : \A account \in Accounts :
           b[i][account] = b[i - 1][account] + Movement(i, account)
    /\ b[Len(log)] = demoCredits
    /\ \A i \in Positions("Withdrawal") : log[i].remainingCredit = b[i][log[i].account]

LedgerExists == \E b \in [0..Len(log) -> [Accounts -> 0..MaxUint]] : IsLedger(b)

(***************************************************************************)
(* A call that moves the credits as its event says prolongs the ledger.    *)
(***************************************************************************)
LEMMA LedgerStep ==
    ASSUME LedgerExists, NEW event, Grows(event),
           demoCredits' \in [Accounts -> 0..MaxUint],
           \A account \in Accounts :
               demoCredits'[account] = demoCredits[account] + Movement(Len(log), account)',
           event.type = "Withdrawal" => /\ event.account \in Accounts
                                        /\ event.remainingCredit = demoCredits'[event.account]
    PROVE  LedgerExists'
<1>1. PICK b \in [0..Len(log) -> [Accounts -> 0..MaxUint]] : IsLedger(b)
  BY DEF LedgerExists
<1> PICK n \in Nat : n = Len(log) + 1
  BY DEF Grows
<1>2. /\ Len(log) \in Nat /\ Len(log) = n - 1 /\ Len(log') = n /\ n >= 1
      /\ \A k \in 1..(n - 1) : log'[k] = log[k]
      /\ log'[n] = event
  BY DEF Grows
<1>c. PICK c : c = [i \in 0..n |-> IF i = n THEN demoCredits' ELSE b[i]]
  OBVIOUS
<1>3. c \in [0..Len(log') -> [Accounts -> 0..MaxUint]]
  BY <1>c, <1>1, <1>2
<1>4. c[n] = demoCredits' /\ \A i \in 0..(n - 1) : c[i] = b[i]
  BY <1>c, <1>2
<1>5. c[0] = [account \in Accounts |-> 0]
  BY <1>1, <1>2, <1>4 DEF IsLedger
<1>6. ASSUME NEW i \in 1..n, NEW account \in Accounts
      PROVE  c[i][account] = c[i - 1][account] + Movement(i, account)'
  <2>1. CASE i = n
    <3>1. c[n - 1] = demoCredits /\ c[n] = demoCredits'
      BY <1>1, <1>2, <1>4 DEF IsLedger
    <3>2. Movement(i, account)' = Movement(Len(log), account)'
      BY <1>2, <2>1 DEF Movement
    <3> QED BY <2>1, <3>1, <3>2
  <2>2. CASE i \in 1..(n - 1)
    <3>1. log'[i] = log[i] /\ i \in 1..Len(log)
      BY <1>2, <2>2
    <3>2. Movement(i, account)' = Movement(i, account)
      BY <3>1 DEF Movement
    <3>3. c[i] = b[i] /\ c[i - 1] = b[i - 1]
      BY <1>4, <2>2
    <3> QED BY <1>1, <3>1, <3>2, <3>3 DEF IsLedger
  <2> QED BY <2>1, <2>2
<1>7. ASSUME NEW i \in Positions("Withdrawal")'
      PROVE  log'[i].remainingCredit = c[i][log'[i].account]
  <2>1. CASE i = n /\ event.type = "Withdrawal"
    BY <1>2, <1>4, <2>1
  <2>2. CASE i \in Positions("Withdrawal") /\ log'[i] = log[i]
    <3>1. i \in 0..(n - 1)
      BY <1>2, <2>2, PositionsAfter
    <3> QED BY <1>1, <1>4, <2>2, <3>1 DEF IsLedger
  <2> QED BY <1>2, <2>1, <2>2, PositionsAfter
<1>8. IsLedger(c)'
  BY <1>2, <1>4, <1>5, <1>6, <1>7 DEF IsLedger
<1> QED BY <1>3, <1>8 DEF LedgerExists

(***************************************************************************)
(* An event that is no movement: the ledger goes on with the balances it   *)
(* has.                                                                    *)
(***************************************************************************)
LEMMA LedgerIdle ==
    ASSUME LedgerExists, TypeOK, NEW event, Grows(event), UNCHANGED demoCredits,
           event.type \notin {"DemoCreditIssued", "Withdrawal"}
    PROVE  LedgerExists'
<1>1. log'[Len(log')] = event
  BY DEF Grows
<1>2. \A account : Movement(Len(log), account)' = 0
  BY <1>1 DEF Movement
<1>3. demoCredits' \in [Accounts -> 0..MaxUint]
  BY DEF TypeOK
<1>4. \A account \in Accounts : demoCredits[account] \in Int
  BY AmountAssumption DEF TypeOK
<1> QED BY <1>2, <1>3, <1>4, LedgerStep

(***************************************************************************)
(* The credits are a running total of the movements in the log that stays  *)
(* inside a uint256 throughout, and each Withdrawal event carries the      *)
(* balance at its place.                                                   *)
(***************************************************************************)
THEOREM CreditsAreLedger == Spec => []LedgerExists
<1>1. Init => LedgerExists
  <2> SUFFICES ASSUME Init PROVE LedgerExists
    OBVIOUS
  <2>1. /\ log = <<KeeperUpdated(InitialKeeper, TRUE)>>
        /\ demoCredits = [account \in Accounts |-> 0]
    BY DEF Init, GuardianInit
  <2>2. Len(log) = 1 /\ DOMAIN log = {1} /\ log[1].type = "KeeperUpdated"
    BY <2>1 DEF KeeperUpdated
  <2> DEFINE b == [i \in 0..1 |-> demoCredits]
  <2>3. demoCredits \in [Accounts -> 0..MaxUint] /\ b \in [0..Len(log) -> [Accounts -> 0..MaxUint]]
    BY <2>1, <2>2, AmountAssumption
  <2>4. \A account : Movement(1, account) = 0
    BY <2>2 DEF Movement
  <2>5. \A i \in 1..Len(log) : \A account \in Accounts :
            b[i][account] = b[i - 1][account] + Movement(i, account)
    <3>1. \A i \in 1..Len(log) : i = 1 /\ b[i] = demoCredits /\ b[i - 1] = demoCredits
      BY <2>2
    <3>2. \A account \in Accounts : demoCredits[account] = 0
      BY <2>1
    <3>3. 0 = 0 + 0
      OBVIOUS
    <3> HIDE DEF b
    <3> QED BY <2>4, <3>1, <3>2, <3>3
  <2>6. Positions("Withdrawal") = {}
    BY <2>2 DEF Positions
  <2>7. IsLedger(b)
    BY <2>1, <2>2, <2>5, <2>6 DEF IsLedger
  <2> QED BY <2>3, <2>7 DEF LedgerExists
<1>2. ContractsInv /\ LedgerExists /\ [Next]_vars => LedgerExists'
  <2> SUFFICES ASSUME ContractsInv, LedgerExists, [Next]_vars PROVE LedgerExists'
    OBVIOUS
  <2>0. TypeOK /\ LogTypeOK /\ demoCredits \in [Accounts -> 0..MaxUint] /\ MaxUint \in Nat
    BY AmountAssumption DEF ContractsInv, TypeOK
  <2>1. CASE GuardianNext /\ UNCHANGED demoCredits
    <3>1. PICK event \in Event : Emit(event) /\ event.type \notin {"DemoCreditIssued", "Withdrawal"}
      <4>1. ASSUME NEW keeper \in Accounts, NEW allowed \in BOOLEAN
            PROVE  /\ KeeperUpdated(keeper, allowed) \in Event
                   /\ KeeperUpdated(keeper, allowed).type = "KeeperUpdated"
        BY DEF KeeperUpdated, Event
      <4>2. ASSUME NEW ref \in Refs, NEW severity \in Severities, NEW sender \in Accounts
            PROVE  /\ Paused(ref, severity, sender) \in Event
                   /\ Paused(ref, severity, sender).type = "Paused"
        BY ConstructorAssumption DEF Paused, Event
      <4>3. ASSUME NEW reason \in Refs, NEW sender \in Accounts
            PROVE  Unpaused(reason, sender) \in Event /\ Unpaused(reason, sender).type = "Unpaused"
        BY DEF Unpaused, Event
      <4> QED BY <2>1, <4>1, <4>2, <4>3 DEF GuardianNext, SetKeeper, Pause, Unpause
    <3> QED BY <2>0, <2>1, <3>1, EmitGrows, LedgerIdle
  <2>2. ASSUME NEW account \in Accounts, NEW amount \in Amounts, FaucetCredit(account, amount)
        PROVE  LedgerExists'
    <3>1. PICK event \in Event :
              /\ event.type = "DemoCreditIssued" /\ event.account = account
              /\ event.amount = amount /\ Emit(event)
      BY <2>0, <2>2, FaucetStep
    <3>2. Grows(event) /\ log'[Len(log')] = event
      BY <2>0, <3>1, EmitGrows DEF Grows
    <3>3. /\ demoCredits' = [demoCredits EXCEPT ![account] = @ + amount]
          /\ demoCredits' \in [Accounts -> 0..MaxUint]
      BY <2>0, <2>2, FaucetStep
    <3>4. \A a \in Accounts : Movement(Len(log), a)' = IF a = account THEN amount ELSE 0
      BY <3>1, <3>2 DEF Movement
    <3>5. amount \in Int /\ \A a \in Accounts : demoCredits[a] \in Int
      BY <2>0, AmountAssumption
    <3>6. \A a \in Accounts : demoCredits'[a] = demoCredits[a] + Movement(Len(log), a)'
      BY <2>0, <3>3, <3>4, <3>5
    <3> QED BY <3>1, <3>2, <3>3, <3>6, LedgerStep
  <2>3. ASSUME NEW account \in Accounts, NEW recipient \in Accounts, NEW sender \in Accounts,
               NEW amount \in Amounts, WithdrawFrom(account, recipient, sender, amount)
        PROVE  LedgerExists'
    <3>1. PICK event \in Event :
              /\ event.type = "Withdrawal" /\ event.account = account
              /\ event.amount = amount /\ event.remainingCredit = demoCredits[account] - amount
              /\ Emit(event)
      BY <2>0, <2>3, WithdrawStep
    <3>2. Grows(event) /\ log'[Len(log')] = event
      BY <2>0, <3>1, EmitGrows DEF Grows
    <3>3. /\ demoCredits' = [demoCredits EXCEPT ![account] = @ - amount]
          /\ demoCredits' \in [Accounts -> 0..MaxUint]
      BY <2>0, <2>3, WithdrawStep
    <3>4. \A a \in Accounts : Movement(Len(log), a)' = IF a = account THEN 0 - amount ELSE 0
      BY <3>1, <3>2 DEF Movement
    <3>5. amount \in Int /\ \A a \in Accounts : demoCredits[a] \in Int
      BY <2>0, AmountAssumption
    <3>6. \A a \in Accounts : demoCredits'[a] = demoCredits[a] + Movement(Len(log), a)'
      BY <2>0, <3>3, <3>4, <3>5
    <3>7. event.remainingCredit = demoCredits'[event.account]
      BY <2>0, <3>1, <3>3
    <3> QED BY <3>1, <3>2, <3>3, <3>6, <3>7, LedgerStep
  <2>4. CASE VaultNext
    BY <2>2, <2>3, <2>4 DEF VaultNext, Withdraw, UnsafeWithdrawFrom
  <2>5. CASE UNCHANGED vars
    <3>1. log' = log /\ demoCredits' = demoCredits
      BY <2>5 DEF vars
    <3>2. \A i, account : Movement(i, account)' = Movement(i, account)
      BY <3>1 DEF Movement
    <3>3. Positions("Withdrawal")' = Positions("Withdrawal")
      BY <3>1 DEF Positions
    <3>4. \A b : IsLedger(b)' <=> IsLedger(b)
      BY <3>1, <3>2, <3>3 DEF IsLedger
    <3> QED BY <3>1, <3>4 DEF LedgerExists
  <2> QED BY <2>1, <2>4, <2>5 DEF Next
<1> QED BY <1>1, <1>2, InitInv, NextInv, PTL DEF Spec

\* What a replay of the log does, event by event.
IsReplay(b) ==
    b = [i \in 0..Len(log) |->
            IF i = 0 THEN [account \in Accounts |-> 0]
            ELSE [account \in Accounts |-> b[i - 1][account] + Movement(i, account)]]

(***************************************************************************)
(* Two replays of one log agree: the first place where they differed would *)
(* have equal balances before it and the same event.                       *)
(***************************************************************************)
LEMMA ReplayIsUnique ==
    ASSUME Len(log) \in Nat, NEW b, NEW c, IsReplay(b), IsReplay(c)
    PROVE  \A i \in 0..Len(log) : b[i] = c[i]
<1> DEFINE N == {i \in 0..Len(log) : b[i] # c[i]}
<1> SUFFICES ASSUME N # {} PROVE FALSE
  OBVIOUS
<1>1. N \in SUBSET Nat
  OBVIOUS
<1>2. PICK n \in N : \A m \in N : ~(<<m, n>> \in OpToRel(<, Nat))
  BY <1>1, NatLessThanWellFounded, WFMin, Zenon
<1>3. n \in 0..Len(log) /\ b[n] # c[n] /\ \A m \in N : ~(m < n)
  BY <1>1, <1>2 DEF OpToRel
<1>4. n # 0
  BY <1>3 DEF IsReplay
<1>5. n - 1 \in 0..Len(log) /\ n - 1 < n
  BY <1>3, <1>4
<1>6. b[n - 1] = c[n - 1]
  BY <1>3, <1>5
<1>7. /\ b[n] = [account \in Accounts |-> b[n - 1][account] + Movement(n, account)]
      /\ c[n] = [account \in Accounts |-> c[n - 1][account] + Movement(n, account)]
  BY <1>3, <1>4 DEF IsReplay
<1> QED BY <1>3, <1>6, <1>7

(***************************************************************************)
(* The ledger of the invariant is the replay of the log.                   *)
(***************************************************************************)
LEMMA LedgerIsReplay ==
    ASSUME LogTypeOK, LedgerExists
    PROVE  LedgerBalances
<1>1. Len(log) \in Nat /\ DOMAIN log = 1..Len(log)
  BY DEF LogTypeOK
<1>2. PICK b \in [0..Len(log) -> [Accounts -> 0..MaxUint]] : IsLedger(b)
  BY DEF LedgerExists
<1>3. IsReplay(b)
  <2> DEFINE Replayed(i) == IF i = 0 THEN [account \in Accounts |-> 0]
                            ELSE [account \in Accounts |-> b[i - 1][account] + Movement(i, account)]
  <2>1. ASSUME NEW i \in 0..Len(log) PROVE b[i] = Replayed(i)
    <3>1. CASE i = 0
      BY <1>2, <3>1 DEF IsLedger
    <3>2. CASE i # 0
      <4>1. i \in 1..Len(log) /\ b[i] \in [Accounts -> 0..MaxUint]
        BY <1>1, <1>2, <3>2
      <4>2. \A account \in Accounts : b[i][account] = b[i - 1][account] + Movement(i, account)
        BY <1>2, <4>1 DEF IsLedger
      <4> QED BY <3>2, <4>1, <4>2
    <3> QED BY <3>1, <3>2
  <2>2. b = [i \in 0..Len(log) |-> Replayed(i)]
    BY <1>2, <2>1
  <2> QED BY <2>2 DEF IsReplay
<1>4. Ledger = CHOOSE c : IsReplay(c)
  BY DEF Ledger, IsReplay
<1>5. IsReplay(Ledger)
  BY <1>3, <1>4
<1>6. \A i \in 0..Len(log) : Ledger[i] = b[i]
  BY <1>1, <1>3, <1>5, ReplayIsUnique
<1>7. Len(log) \in 0..Len(log) /\ Positions("Withdrawal") \subseteq 0..Len(log)
  BY <1>1 DEF Positions
<1> QED BY <1>2, <1>6, <1>7 DEF IsLedger, LedgerBalances

(***************************************************************************)
(* In every history the credits are what the log says was issued less what *)
(* it says was withdrawn, for any accounts, amounts and uint size.         *)
(***************************************************************************)
THEOREM CreditsBalance == Spec => []LedgerBalances
<1>1. ContractsInv /\ LedgerExists => LedgerBalances
  BY LedgerIsReplay DEF ContractsInv
<1>2. Spec => []ContractsInv
  BY InitInv, NextInv, PTL DEF Spec
<1> QED BY <1>1, <1>2, CreditsAreLedger, PTL

=============================================================================
