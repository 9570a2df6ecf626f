--------------------------- MODULE BackupFilesProofs ---------------------------
(***************************************************************************)
(* What the backup directory holds, for any retention count and any number   *)
(* of calls, faults and outside writes. The inductive invariant follows the  *)
(* call under way: what it has read, which names its files have, what it     *)
(* has still to unlink, and which files it alone accounts for until it       *)
(* ends.                                                                     *)
(***************************************************************************)
EXTENDS BackupFiles, FiniteSetTheorems, WellFoundedInduction, TLAPS

Unplaced == {"backup_temp", "checksum_temp", "place_checksum", "place_backup"}

Pruning == {"unlink_checksum", "unlink_backup"}

Creating == Unplaced \cup Pruning \cup {"prune", "place_manifest"}

-----------------------------------------------------------------------------
(* The inductive invariant. *)

\* A checksum is the digest of a config that was valid, unless somebody garbled
\* it, and so is what a restore has read, unless the file changed after the
\* checksum was compared.
Snapshots ==
    /\ \A n \in DOMAIN sums : sums[n] \in taken \cup {None}
    /\ pc \in Unplaced => contents \in taken
    /\ pc = "read" => raced \/ name \notin DOMAIN yaml \/ yaml[name] \in taken
    /\ pc \in {"config_temp", "place_config"} =>
          contents \in Contents /\ (raced \/ contents \in taken)

\* The files of the call under way.
OwnFiles ==
    /\ pc \in Creating => name = clock /\ name \in Names
    /\ pc \in Unplaced => name \notin DOMAIN yaml
    /\ pc \in Unplaced \ {"place_backup"} => name \notin DOMAIN sums
    /\ pc = "place_backup" => name \in DOMAIN sums /\ sums[name] = contents
    /\ pc = "unlink_backup" => doomed # {} /\ Oldest(doomed) \notin DOMAIN sums

TempFiles ==
    \/ pc \in {"checksum_temp", "place_backup"} /\ temps = {"backup"}
    \/ pc = "place_checksum" /\ temps = {"backup", "checksum"}
    \/ pc = "place_manifest" /\ temps = {"manifest"}
    \/ pc = "place_config" /\ temps = {"config"}
    \/ /\ pc \notin {"checksum_temp", "place_backup", "place_checksum", "place_manifest",
                     "place_config"}
       /\ temps = {}

\* Other programs.
OutsideWrite(n, content) ==
    WriteConfig(content) \/ Lose(n) \/ GarbleChecksum(n) \/ Damage(n, content)

Unverified == {n \in Listed : ~Verifies(n)}

BadPairs == Cardinality(Unverified) <= outside

\* While the clock has not stepped back the pair taken last is the newest.
NewestLast ==
    stepbacks = 0 =>
        /\ \A n \in DOMAIN yaml \cup DOMAIN sums : n <= clock
        /\ pc \in Pruning => clock \notin doomed
        /\ (call = "running" /\ pc \in Creating \ Unplaced) => clock \in Listed

Pruned ==
    /\ pc \in Pruning => Cardinality(Listed \ doomed) <= Retention
    /\ pc = "place_manifest" => Cardinality(Listed) <= Retention

Reported ==
    /\ (call = "running" /\ pc = "place_manifest") => draft = [n \in Listed |-> sums[n]]
    /\ call = "running" => pc \in Creating
    /\ call = "returned" => /\ pc \notin Creating
                            /\ manifest = [n \in Listed |-> sums[n]]
                            /\ Cardinality(Listed) <= Retention
                            /\ stepbacks = 0 => clock \in Listed

\* The half of a pair that the call under way will complete or remove.
InFlight ==
    CASE pc = "place_backup"  -> {name}
      [] pc = "unlink_backup" -> {Oldest(doomed)}
      [] OTHER                -> {}

Loose == Orphans \ InFlight

LooseSums == (DOMAIN sums \ DOMAIN yaml) \ InFlight

LitterPaid == litter + Cardinality(Loose) <= 2 * crashes + errors + outside

SumsPaid == Cardinality(LooseSums) <= crashes + errors \div 2 + outside

\* The pair a call has placed and not yet pruned for.
Extra == IF pc \in Pruning \cup {"prune"} THEN 1 ELSE 0

PairsPaid == Cardinality(Listed) <= Retention + crashes + errors + Extra

FilesInv ==
    /\ TypeOK /\ Snapshots /\ OwnFiles /\ TempFiles /\ BadPairs /\ NewestLast /\ Pruned
    /\ Reported /\ LitterPaid /\ SumsPaid /\ PairsPaid

-----------------------------------------------------------------------------
(* Names and sets of names. *)

(***************************************************************************)
(* The oldest of some names is one of them.                                  *)
(***************************************************************************)
LEMMA OldestExists ==
    ASSUME NEW N \in SUBSET Nat, N # {}
    PROVE  Oldest(N) \in N /\ \A m \in N : Oldest(N) <= m
<1>1. PICK n \in N : \A m \in N : ~(<<m, n>> \in OpToRel(<, Nat))
  BY NatLessThanWellFounded, WFMin, Zenon
<1>2. \A m \in N : ~(m < n)
  BY <1>1 DEF OpToRel
<1>3. \A m \in N : n <= m
  BY <1>2
<1> QED BY <1>3 DEF Oldest

(***************************************************************************)
(* The newest of some names is one of them.                                  *)
(***************************************************************************)
LEMMA NewestExists ==
    ASSUME NEW N \in SUBSET Names, N # {}
    PROVE  Newest(N) \in N /\ \A m \in N : m <= Newest(N)
<1>0. MaxClock \in Nat /\ \A m \in N : m \in Nat /\ MaxClock - m \in Nat
  BY SettingsAssumption DEF Names
<1> DEFINE M == {MaxClock - m : m \in N}
<1>1. M \in SUBSET Nat /\ M # {}
  BY <1>0
<1>2. Oldest(M) \in M /\ \A k \in M : Oldest(M) <= k
  BY <1>1, OldestExists
<1>3. PICK n \in N : Oldest(M) = MaxClock - n
  BY <1>2
<1>4. \A m \in N : MaxClock - n <= MaxClock - m
  BY <1>2, <1>3
<1>5. \A m \in N : m <= n
  BY <1>0, <1>4
<1> QED BY <1>5 DEF Newest

(***************************************************************************)
(* Sets of names are finite, and a subset has no more members.               *)
(***************************************************************************)
LEMMA SubsetCount ==
    ASSUME NEW S \in SUBSET Names, NEW T \in SUBSET S
    PROVE  /\ IsFiniteSet(S) /\ IsFiniteSet(T)
           /\ Cardinality(S) \in Nat /\ Cardinality(T) \in Nat
           /\ Cardinality(T) <= Cardinality(S)
<1>1. IsFiniteSet(Names)
  BY SettingsAssumption, FS_Interval DEF Names
<1>2. IsFiniteSet(S)
  BY <1>1, FS_Subset
<1>3. IsFiniteSet(T) /\ Cardinality(T) <= Cardinality(S)
  BY <1>2, FS_Subset
<1> QED BY <1>2, <1>3, FS_CardinalityType

(***************************************************************************)
(* One name more is one member more at most.                                 *)
(***************************************************************************)
LEMMA OneMore ==
    ASSUME NEW S \in SUBSET Names, NEW x, NEW T \in SUBSET Names, T \subseteq S \cup {x}
    PROVE  /\ Cardinality(S) \in Nat /\ Cardinality(T) \in Nat
           /\ Cardinality(T) <= Cardinality(S) + 1
<1>1. IsFiniteSet(S) /\ Cardinality(S) \in Nat
  BY SubsetCount
<1>2. /\ IsFiniteSet(S \cup {x})
      /\ Cardinality(S \cup {x}) \in {Cardinality(S), Cardinality(S) + 1}
  BY <1>1, FS_AddElement
<1>3. IsFiniteSet(T) /\ Cardinality(T) <= Cardinality(S \cup {x})
  BY <1>2, FS_Subset
<1>4. Cardinality(T) \in Nat
  BY <1>3, FS_CardinalityType
<1> QED BY <1>1, <1>2, <1>3, <1>4

(***************************************************************************)
(* list_backups(...)[:-retention_count]: without the doomed pairs at most    *)
(* retention_count are left.                                                 *)
(***************************************************************************)
LEMMA PruneKeeps ==
    ASSUME Listed \in SUBSET Names
    PROVE  Cardinality(Listed \ Doomed) <= Retention
<1> DEFINE K == Listed \ Doomed
           Newer(n) == {m \in Listed : m > n}
<1>0. Retention \in Nat \ {0} /\ K \in SUBSET Names /\ K \in SUBSET Nat
  <2>1. Names \subseteq Nat /\ Retention \in Nat \ {0}
    BY SettingsAssumption DEF Names
  <2> QED BY <2>1
<1>1. CASE K = {}
  BY <1>0, <1>1, FS_EmptySet
<1>2. CASE K # {}
  <2> DEFINE n == Oldest(K)
  <2>1. n \in K /\ n \in Listed /\ n \notin Doomed /\ \A m \in K : n <= m
    BY <1>0, <1>2, OldestExists
  <2> HIDE DEF n
  <2>2. ~(Cardinality(Newer(n)) >= Retention)
    BY <2>1 DEF Doomed
  <2>3. K \ {n} \subseteq Newer(n) /\ Newer(n) \in SUBSET Names /\ n \in Nat
    BY <1>0, <2>1
  <2> HIDE DEF K
  <2>4. /\ Cardinality(K \ {n}) \in Nat /\ Cardinality(Newer(n)) \in Nat
        /\ Cardinality(K \ {n}) <= Cardinality(Newer(n))
    BY <2>3, SubsetCount
  <2>5. Cardinality(K) \in Nat /\ Cardinality(K \ {n}) = Cardinality(K) - 1
    <3>1. IsFiniteSet(K) /\ Cardinality(K) \in Nat
      BY <1>0, SubsetCount
    <3> QED BY <2>1, <3>1, FS_RemoveElement
  <2>6. Cardinality(K) <= Retention
    <3> DEFINE c == Cardinality(Newer(n))
    <3>1. c \in Nat /\ ~(c >= Retention) /\ Cardinality(K) - 1 <= c
      BY <2>2, <2>4, <2>5
    <3> HIDE DEF c
    <3> QED BY <1>0, <2>5, <3>1
  <2> QED BY <2>6 DEF K
<1> QED BY <1>1, <1>2

-----------------------------------------------------------------------------
(* Types. *)

(***************************************************************************)
(* Files by name, as a set and as a function.                                *)
(***************************************************************************)
LEMMA FilesShape ==
    ASSUME NEW f, NEW C
    PROVE  f \in Files(C) <=> DOMAIN f \subseteq Names /\ f \in [DOMAIN f -> C]
BY DEF Files

(***************************************************************************)
(* No files at all.                                                          *)
(***************************************************************************)
LEMMA NoFiles ==
    ASSUME NEW C
    PROVE  <<>> \in Files(C)
<1>1. <<>> \in Seq(C) /\ Len(<<>>) = 0
  OBVIOUS
<1>2. DOMAIN <<>> = {} /\ <<>> \in [DOMAIN <<>> -> C]
  BY <1>1
<1> QED BY <1>2, FilesShape

(***************************************************************************)
(* Placing and unlinking a file.                                             *)
(***************************************************************************)
LEMMA FilesStay ==
    ASSUME NEW C, NEW f \in Files(C), NEW n
    PROVE  /\ Unlink(f, n) \in Files(C)
           /\ \A c \in C : n \in Names => Write(f, n, c) \in Files(C)
<1>1. DOMAIN f \subseteq Names /\ f \in [DOMAIN f -> C]
  BY FilesShape
<1>2. /\ DOMAIN Unlink(f, n) = DOMAIN f \ {n}
      /\ \A m \in DOMAIN f \ {n} : Unlink(f, n)[m] = f[m] /\ f[m] \in C
      /\ Unlink(f, n) = [m \in DOMAIN Unlink(f, n) |-> Unlink(f, n)[m]]
  BY <1>1 DEF Unlink
<1>3. Unlink(f, n) \in Files(C)
  BY <1>1, <1>2, FilesShape
<1>4. ASSUME NEW c \in C, n \in Names PROVE Write(f, n, c) \in Files(C)
  <2>1. /\ DOMAIN Write(f, n, c) = DOMAIN f \cup {n}
        /\ \A m \in DOMAIN f \cup {n} : Write(f, n, c)[m] \in C
        /\ Write(f, n, c) = [m \in DOMAIN Write(f, n, c) |-> Write(f, n, c)[m]]
    BY <1>1 DEF Write
  <2> QED BY <1>1, <1>4, <2>1, FilesShape
<1> QED BY <1>3, <1>4


(***************************************************************************)
(* What the sets of names are made of.                                       *)
(***************************************************************************)
LEMMA ListedNames ==
    ASSUME TypeOK
    PROVE  /\ DOMAIN yaml \in SUBSET Names /\ DOMAIN sums \in SUBSET Names
           /\ Listed \in SUBSET Names /\ Orphans \in SUBSET Names
           /\ yaml \in [DOMAIN yaml -> Contents]
           /\ sums \in [DOMAIN sums -> Digests]
<1>1. yaml \in Files(Contents) /\ sums \in Files(Digests)
  BY DEF TypeOK
<1> QED BY <1>1, FilesShape DEF Listed, Orphans

(***************************************************************************)
(* How many temporary files a call has at each step.                         *)
(***************************************************************************)
LEMMA TempCount ==
    ASSUME TempFiles
    PROVE  /\ Cardinality(temps) \in 0..2
           /\ pc = "place_checksum" => Cardinality(temps) = 2
           /\ pc \in {"checksum_temp", "place_backup", "place_manifest", "place_config"}
                 => Cardinality(temps) = 1
           /\ pc \notin {"checksum_temp", "place_backup", "place_checksum", "place_manifest",
                         "place_config"} => Cardinality(temps) = 0
<1>1. Cardinality({"backup", "checksum"}) = 2
  <2>1. {"backup", "checksum"} = {"backup"} \cup {"checksum"} /\ "checksum" \notin {"backup"}
    OBVIOUS
  <2>2. IsFiniteSet({"backup"}) /\ Cardinality({"backup"}) = 1
    BY FS_Singleton
  <2>3. Cardinality({"backup"} \cup {"checksum"}) = Cardinality({"backup"}) + 1
    BY <2>1, <2>2, FS_AddElement
  <2> QED BY <2>1, <2>2, <2>3
<1>2. /\ Cardinality({"backup"}) = 1 /\ Cardinality({"manifest"}) = 1
      /\ Cardinality({"config"}) = 1 /\ Cardinality({}) = 0
  BY FS_Singleton, FS_EmptySet
<1> QED BY <1>1, <1>2 DEF TempFiles

(***************************************************************************)
(* A step of create_backup keeps the types.                                  *)
(***************************************************************************)
LEMMA CreateTypes ==
    ASSUME TypeOK, Snapshots, OwnFiles,
           \/ CreateBackup \/ BackupTemp \/ ChecksumTemp \/ PlaceChecksum \/ PlaceBackup
           \/ Prune \/ UnlinkChecksum \/ UnlinkBackup
           \/ WriteManifest \/ ManifestFails \/ PlaceManifest
    PROVE  TypeOK'
<1> USE DEF TypeOK, dirVars, clockVars, historyVars, faultVars
<1>0. /\ yaml \in Files(Contents) /\ sums \in Files(Digests)
      /\ manifest \in Files(Contents) /\ draft \in Files(Contents)
      /\ taken \subseteq Contents /\ Names \subseteq Nat
  BY SettingsAssumption DEF Contents, Names
<1>1. CASE CreateBackup
  BY <1>0, <1>1, SettingsAssumption DEF CreateBackup, ReadClock, Contents
<1>2. CASE BackupTemp \/ ChecksumTemp
  BY <1>2 DEF BackupTemp, ChecksumTemp, WriteTemp
<1>3. CASE PlaceChecksum
  <2>1. contents \in Contents /\ name \in Names
    BY <1>0, <1>3 DEF PlaceChecksum, Snapshots, OwnFiles, Unplaced, Creating
  <2>2. sums' \in Files(Digests)
    <3>1. contents \in Digests
      BY <2>1 DEF Digests
    <3> QED BY <1>0, <1>3, <2>1, <3>1, FilesStay DEF PlaceChecksum
  <2> QED BY <1>3, <2>2 DEF PlaceChecksum
<1>4. CASE PlaceBackup
  <2>1. contents \in Contents /\ name \in Names
    BY <1>0, <1>4 DEF PlaceBackup, Snapshots, OwnFiles, Unplaced, Creating
  <2>2. yaml' \in Files(Contents)
    BY <1>0, <1>4, <2>1, FilesStay DEF PlaceBackup
  <2> QED BY <1>4, <2>2 DEF PlaceBackup
<1>5. CASE Prune
  <2>1. Doomed \subseteq Names
    BY ListedNames DEF Doomed
  <2> QED BY <1>5, <2>1 DEF Prune
<1>6. CASE UnlinkChecksum
  <2>1. sums' \in Files(Digests)
    BY <1>0, <1>6, FilesStay DEF UnlinkChecksum
  <2> QED BY <1>6, <2>1 DEF UnlinkChecksum
<1>7. CASE UnlinkBackup
  <2>1. yaml' \in Files(Contents)
    BY <1>0, <1>7, FilesStay DEF UnlinkBackup
  <2> QED BY <1>7, <2>1 DEF UnlinkBackup
<1>8. CASE WriteManifest
  <2>1. draft' \in Files(Contents)
    <3>1. draft' = [n \in Listed |-> sums[n]] /\ DOMAIN draft' = Listed
      BY <1>8 DEF WriteManifest
    <3>2. \A n \in Listed : sums[n] \in Contents
      BY <1>8, ListedNames DEF WriteManifest, Listed, Legible, Digests
    <3>3. draft' \in [DOMAIN draft' -> Contents]
      BY <3>1, <3>2
    <3> QED BY <3>1, <3>3, FilesShape, ListedNames
  <2> QED BY <1>8, <2>1 DEF WriteManifest, WriteTemp
<1>9. CASE ManifestFails \/ PlaceManifest
  <2>1. <<>> \in Files(Contents)
    BY NoFiles
  <2> QED BY <1>0, <1>9, <2>1 DEF ManifestFails, PlaceManifest, Leave
<1> QED BY <1>1, <1>2, <1>3, <1>4, <1>5, <1>6, <1>7, <1>8, <1>9

(***************************************************************************)
(* A step of restore_backup keeps the types.                                 *)
(***************************************************************************)
LEMMA RestoreTypes ==
    ASSUME TypeOK, Restore \/ Verify \/ ReadBackup \/ ConfigTemp \/ PlaceConfig,
           pc = "place_config" => contents \in Contents
    PROVE  TypeOK'
<1> USE DEF TypeOK, dirVars, clockVars, historyVars, faultVars
<1>0. <<>> \in Files(Contents)
  BY NoFiles
<1>1. CASE Restore
  <2>1. Newest(Listed) \in Names
    BY <1>1, ListedNames, NewestExists DEF Restore
  <2> QED BY <1>1, <2>1 DEF Restore
<1>2. CASE Verify
  BY <1>0, <1>2 DEF Verify, Leave
<1>3. CASE ReadBackup
  <2>1. name \in DOMAIN yaml => yaml[name] \in Contents
    BY ListedNames
  <2> QED BY <1>0, <1>3, <2>1 DEF ReadBackup, Leave
<1>4. CASE ConfigTemp
  BY <1>4 DEF ConfigTemp, WriteTemp
<1>5. CASE PlaceConfig
  BY <1>0, <1>5 DEF PlaceConfig, Leave
<1> QED BY <1>1, <1>2, <1>3, <1>4, <1>5

(***************************************************************************)
(* A fault and another program keep the types.                               *)
(***************************************************************************)
LEMMA FaultTypes ==
    ASSUME TypeOK, TempFiles, Fault
    PROVE  TypeOK'
<1> USE DEF TypeOK, callVars, dirVars, clockVars, faultVars
<1>0. /\ <<>> \in Files(Contents) /\ yaml \in Files(Contents) /\ sums \in Files(Digests)
      /\ \A n : Unlink(sums, n) \in Files(Digests) /\ Unlink(yaml, n) \in Files(Contents)
  BY NoFiles, FilesStay
<1>1. Cardinality(temps) \in Nat
  BY TempCount
<1>2. CASE IOError
  <2>1. sums' \in Files(Digests)
    BY <1>0, <1>2 DEF IOError, SumsCleaned
  <2> QED BY <1>0, <1>1, <1>2, <2>1, SettingsAssumption DEF IOError, Leave
<1>3. CASE CleanUpFails
  BY <1>0, <1>1, <1>3, SettingsAssumption DEF CleanUpFails, Leave
<1>4. CASE Crash
  BY <1>0, <1>1, <1>4, SettingsAssumption DEF Crash, Leave
<1>5. ASSUME NEW content \in Contents, WriteConfig(content) PROVE TypeOK'
  BY <1>5, SettingsAssumption DEF WriteConfig, Outside
<1>6. ASSUME NEW n \in Listed, Lose(n) PROVE TypeOK'
  BY <1>0, <1>6, SettingsAssumption DEF Lose, Outside
<1>7. ASSUME NEW n \in Listed, NEW content \in Contents, Damage(n, content) PROVE TypeOK'
  <2>1. yaml' = [yaml EXCEPT ![n] = content] /\ DOMAIN yaml' = DOMAIN yaml
    BY <1>7 DEF Damage
  <2>2. yaml' \in [DOMAIN yaml' -> Contents]
    BY <2>1, ListedNames
  <2>3. yaml' \in Files(Contents)
    BY <2>1, <2>2, FilesShape, ListedNames
  <2>4. raced' \in BOOLEAN
    BY <1>7 DEF Damage
  <2>5. outside' \in 0..MaxOutside
    BY <1>7, SettingsAssumption DEF Damage, Outside
  <2> QED BY <1>7, <2>3, <2>4, <2>5 DEF Damage
<1>8. ASSUME NEW n \in Listed, GarbleChecksum(n) PROVE TypeOK'
  <2>1. sums' = [sums EXCEPT ![n] = None] /\ DOMAIN sums' = DOMAIN sums
    BY <1>8 DEF GarbleChecksum
  <2>2. sums' \in [DOMAIN sums' -> Digests]
    BY <2>1, ListedNames DEF Digests
  <2>3. sums' \in Files(Digests)
    BY <2>1, <2>2, FilesShape, ListedNames
  <2>4. outside' \in 0..MaxOutside
    BY <1>8, SettingsAssumption DEF GarbleChecksum, Outside
  <2> QED BY <1>8, <2>3, <2>4 DEF GarbleChecksum
<1> QED BY <1>2, <1>3, <1>4, <1>5, <1>6, <1>7, <1>8 DEF Fault

-----------------------------------------------------------------------------
(* What is read and written. *)

(***************************************************************************)
(* create_backup writes only the digest of the valid config it read;         *)
(* restore_backup goes on only with what that digest confirmed.              *)
(***************************************************************************)
LEMMA SnapshotsStep ==
    ASSUME TypeOK, Snapshots, Next
    PROVE  Snapshots'
<1> USE DEF Snapshots, Unplaced, dirVars, callVars, clockVars, historyVars, faultVars
<1>1. CASE CreateBackup
  BY <1>1 DEF CreateBackup
<1>2. CASE BackupTemp \/ ChecksumTemp \/ ConfigTemp
  BY <1>2 DEF BackupTemp, ChecksumTemp, ConfigTemp, WriteTemp
<1>3. CASE PlaceChecksum
  BY <1>3 DEF PlaceChecksum, Write
<1>4. CASE PlaceBackup
  BY <1>4 DEF PlaceBackup
<1>5. CASE Prune \/ WriteManifest
  BY <1>5 DEF Prune, WriteManifest, WriteTemp
<1>6. CASE UnlinkChecksum \/ UnlinkBackup
  BY <1>6 DEF UnlinkChecksum, UnlinkBackup, Unlink
<1>7. CASE ManifestFails \/ PlaceManifest \/ PlaceConfig
  BY <1>7 DEF ManifestFails, PlaceManifest, PlaceConfig, Leave
<1>8. CASE Restore
  BY <1>8 DEF Restore
<1>9. CASE Verify
  <2>1. Verifies(name) => yaml[name] # None
    BY ListedNames, SettingsAssumption DEF Verifies, Listed, Contents
  <2> QED BY <1>9, <2>1 DEF Verify, Verifies, Listed, Leave
<1>10. CASE ReadBackup
  <2>1. name \in DOMAIN yaml => yaml[name] \in Contents
    BY ListedNames
  <2> QED BY <1>10, <2>1 DEF ReadBackup, Leave
<1>11. CASE IOError
  BY <1>11 DEF IOError, SumsCleaned, Unlink, Leave
<1>12. CASE CleanUpFails \/ Crash
  BY <1>12 DEF CleanUpFails, Crash, Leave
<1>13. ASSUME NEW content \in Contents, WriteConfig(content) PROVE Snapshots'
  BY <1>13 DEF WriteConfig
<1>14. ASSUME NEW n \in Listed, Lose(n) PROVE Snapshots'
  BY <1>14 DEF Lose, Unlink
<1>15. ASSUME NEW n \in Listed, NEW content \in Contents, Damage(n, content) PROVE Snapshots'
  <2>1. /\ UNCHANGED <<sums, taken, pc, name, contents>>
        /\ DOMAIN yaml' = DOMAIN yaml
        /\ \A m \in DOMAIN yaml : m # n => yaml'[m] = yaml[m]
    BY <1>15, ListedNames DEF Damage
  <2>2. raced => raced'
    BY <1>15 DEF Damage
  <2>3. (pc = "read" /\ n = name) => raced'
    BY <1>15 DEF Damage
  <2> QED BY <2>1, <2>2, <2>3
<1>16. ASSUME NEW n \in Listed, GarbleChecksum(n) PROVE Snapshots'
  BY <1>16 DEF GarbleChecksum
<1> QED BY <1>1, <1>2, <1>3, <1>4, <1>5, <1>6, <1>7, <1>8, <1>9, <1>10, <1>11, <1>12, <1>13,
           <1>14, <1>15, <1>16 DEF Next, Call, Fault

(***************************************************************************)
(* The names a call works on: its pair is new until it has placed it, and    *)
(* the checksum of a pruned pair goes first.                                 *)
(***************************************************************************)
LEMMA OwnFilesStep ==
    ASSUME TypeOK, OwnFiles, Next
    PROVE  OwnFiles'
<1> USE DEF OwnFiles, Unplaced, Pruning, Creating, dirVars, callVars, clockVars, historyVars,
            faultVars
<1>1. CASE CreateBackup
  BY <1>1 DEF CreateBackup, ReadClock
<1>2. CASE BackupTemp \/ ChecksumTemp \/ ConfigTemp
  BY <1>2 DEF BackupTemp, ChecksumTemp, ConfigTemp, WriteTemp
<1>3. CASE PlaceChecksum
  BY <1>3 DEF PlaceChecksum, Write
<1>4. CASE PlaceBackup
  BY <1>4 DEF PlaceBackup
<1>5. CASE Prune \/ WriteManifest
  BY <1>5 DEF Prune, WriteManifest, WriteTemp
<1>6. CASE UnlinkChecksum
  <2>1. Oldest(doomed) \notin DOMAIN sums'
    BY <1>6 DEF UnlinkChecksum, Unlink
  <2>2. UNCHANGED <<doomed, name, clock>> /\ pc = "unlink_checksum" /\ pc' = "unlink_backup"
        /\ doomed # {}
    BY <1>6 DEF UnlinkChecksum
  <2> QED BY <2>1, <2>2 DEF Oldest
<1>7. CASE UnlinkBackup
  BY <1>7 DEF UnlinkBackup
<1>8. CASE ManifestFails \/ PlaceManifest \/ PlaceConfig
  BY <1>8 DEF ManifestFails, PlaceManifest, PlaceConfig, Leave
<1>9. CASE Restore \/ Verify \/ ReadBackup
  BY <1>9 DEF Restore, Verify, ReadBackup, Leave
<1>10. CASE IOError \/ CleanUpFails \/ Crash
  BY <1>10 DEF IOError, CleanUpFails, Crash, Leave
<1>11. ASSUME NEW content \in Contents, WriteConfig(content) PROVE OwnFiles'
  BY <1>11 DEF WriteConfig, Oldest
<1>12. ASSUME NEW n \in Listed, Lose(n) PROVE OwnFiles'
  <2>1. /\ UNCHANGED <<pc, name, contents, doomed, clock>>
        /\ DOMAIN yaml' \subseteq DOMAIN yaml
        /\ DOMAIN sums' \subseteq DOMAIN sums /\ DOMAIN sums \ DOMAIN sums' \subseteq {n}
        /\ \A m \in DOMAIN sums' : sums'[m] = sums[m]
    BY <1>12 DEF Lose, Unlink
  <2> QED BY <2>1 DEF Oldest, Listed
<1>13. ASSUME NEW n \in Listed, NEW content \in Contents, Damage(n, content) PROVE OwnFiles'
  BY <1>13 DEF Damage, Oldest
<1>14. ASSUME NEW n \in Listed, GarbleChecksum(n) PROVE OwnFiles'
  BY <1>14 DEF GarbleChecksum, Oldest, Listed
<1> QED BY <1>1, <1>2, <1>3, <1>4, <1>5, <1>6, <1>7, <1>8, <1>9, <1>10, <1>11, <1>12, <1>13,
           <1>14
        DEF Next, Call, Fault

(***************************************************************************)
(* The temporary files of a call, step by step.                              *)
(***************************************************************************)
LEMMA TempFilesStep ==
    ASSUME TempFiles, Next
    PROVE  TempFiles'
<1> USE DEF TempFiles, callVars
<1>1. CASE CreateBackup \/ Prune \/ Restore
  BY <1>1 DEF CreateBackup, Prune, Restore
<1>2. CASE BackupTemp \/ ChecksumTemp \/ ConfigTemp \/ WriteManifest
  BY <1>2 DEF BackupTemp, ChecksumTemp, ConfigTemp, WriteManifest, WriteTemp
<1>3. CASE PlaceChecksum \/ PlaceBackup
  BY <1>3 DEF PlaceChecksum, PlaceBackup
<1>4. CASE UnlinkChecksum \/ UnlinkBackup
  BY <1>4 DEF UnlinkChecksum, UnlinkBackup
<1>5. CASE ManifestFails \/ PlaceManifest \/ PlaceConfig \/ IOError \/ CleanUpFails \/ Crash
  BY <1>5 DEF ManifestFails, PlaceManifest, PlaceConfig, IOError, CleanUpFails, Crash, Leave
<1>6. CASE Verify \/ ReadBackup
  BY <1>6 DEF Verify, ReadBackup, Leave
<1>7. ASSUME NEW n, NEW content, OutsideWrite(n, content)
      PROVE  TempFiles'
  BY <1>7 DEF OutsideWrite, WriteConfig, Lose, GarbleChecksum, Damage
<1> QED BY <1>1, <1>2, <1>3, <1>4, <1>5, <1>6, <1>7 DEF Next, Call, Fault, OutsideWrite

-----------------------------------------------------------------------------
(* Which pairs there are. *)

\* The files of the directory, but for what was removed.
Shrinks ==
    /\ DOMAIN yaml' \subseteq DOMAIN yaml /\ DOMAIN sums' \subseteq DOMAIN sums
    /\ \A n \in DOMAIN yaml' : yaml'[n] = yaml[n]
    /\ \A n \in DOMAIN sums' : sums'[n] = sums[n]

(***************************************************************************)
(* Unlinking removes one file, and no step but the two that place a pair     *)
(* and the damage of another program does more.                              *)
(***************************************************************************)
LEMMA DirectorySteps ==
    ASSUME TypeOK, Next
    PROVE  \/ Shrinks
           \/ PlaceChecksum \/ PlaceBackup
           \/ \E n \in Listed, content \in Contents : Damage(n, content)
           \/ \E n \in Listed : GarbleChecksum(n)
<1> USE DEF Shrinks, dirVars, historyVars, callVars
<1>1. CASE CreateBackup \/ BackupTemp \/ ChecksumTemp \/ ConfigTemp \/ Prune
  BY <1>1 DEF CreateBackup, BackupTemp, ChecksumTemp, ConfigTemp, Prune
<1>2. CASE WriteManifest \/ ManifestFails \/ PlaceManifest \/ PlaceConfig
  BY <1>2 DEF WriteManifest, ManifestFails, PlaceManifest, PlaceConfig
<1>3. CASE UnlinkChecksum \/ UnlinkBackup
  BY <1>3 DEF UnlinkChecksum, UnlinkBackup, Unlink
<1>4. CASE Restore \/ Verify \/ ReadBackup \/ CleanUpFails \/ Crash
  BY <1>4 DEF Restore, Verify, ReadBackup, CleanUpFails, Crash
<1>5. CASE IOError
  BY <1>5 DEF IOError, SumsCleaned, Unlink
<1>6. ASSUME NEW n, NEW content, WriteConfig(content) \/ Lose(n) PROVE Shrinks
  BY <1>6 DEF WriteConfig, Lose, Unlink
<1> QED BY <1>1, <1>2, <1>3, <1>4, <1>5, <1>6 DEF Next, Call, Fault

(***************************************************************************)
(* Only another program counts as outside.                                   *)
(***************************************************************************)
LEMMA OutsideGrows ==
    ASSUME TypeOK, Next
    PROVE  outside \in Nat /\ outside' \in {outside, outside + 1}
<1>0. outside \in Nat
  BY SettingsAssumption DEF TypeOK
<1>1. CASE Call
  BY <1>0, <1>1 DEF Call, CreateBackup, BackupTemp, ChecksumTemp, PlaceChecksum, PlaceBackup,
           Prune, UnlinkChecksum, UnlinkBackup, WriteManifest, ManifestFails,
           PlaceManifest, Restore, Verify,
           ReadBackup, ConfigTemp, PlaceConfig, historyVars, faultVars
<1>2. CASE Fault
  BY <1>0, <1>2 DEF Fault, IOError, CleanUpFails, Crash, WriteConfig, Lose, GarbleChecksum,
           Damage, Outside
<1> QED BY <1>1, <1>2 DEF Next

(***************************************************************************)
(* A pair that does not verify was damaged: none is ever placed so, and one  *)
(* write from outside damages one.                                           *)
(***************************************************************************)
LEMMA BadPairsStep ==
    ASSUME TypeOK, OwnFiles, BadPairs, TypeOK', Next
    PROVE  BadPairs'
<1>0. /\ outside \in Nat /\ outside' \in {outside, outside + 1}
      /\ Unverified \in SUBSET Names /\ Unverified' \in SUBSET Names
      /\ Cardinality(Unverified) <= outside
  <2>1. Listed \in SUBSET Names /\ Listed' \in SUBSET Names
    BY ListedNames DEF Names, Listed, TypeOK, Files
  <2> QED BY <2>1, OutsideGrows DEF BadPairs, Unverified
<1>1. ASSUME Unverified' \subseteq Unverified PROVE BadPairs'
  <2>1. /\ Cardinality(Unverified') \in Nat /\ Cardinality(Unverified) \in Nat
        /\ Cardinality(Unverified') <= Cardinality(Unverified)
    BY <1>0, <1>1, SubsetCount
  <2> QED BY <1>0, <2>1 DEF BadPairs
<1>2. CASE Shrinks
  BY <1>1, <1>2 DEF Shrinks, Unverified, Verifies, Listed
<1>3. CASE PlaceChecksum
  BY <1>1, <1>3 DEF PlaceChecksum, Write, OwnFiles, Unplaced, Unverified, Verifies, Listed
<1>4. CASE PlaceBackup
  BY <1>1, <1>4 DEF PlaceBackup, Write, OwnFiles, Unplaced, Unverified, Verifies, Listed
<1>5. ASSUME NEW n \in Listed, NEW content \in Contents,
             Damage(n, content) \/ GarbleChecksum(n)
      PROVE  BadPairs'
  <2>1. Unverified' \subseteq Unverified \cup {n}
    BY <1>5 DEF Damage, GarbleChecksum, Unverified, Verifies, Listed
  <2>2. outside' = outside + 1
    BY <1>5 DEF Damage, GarbleChecksum, Outside
  <2>3. /\ Cardinality(Unverified') \in Nat /\ Cardinality(Unverified) \in Nat
        /\ Cardinality(Unverified') <= Cardinality(Unverified) + 1
    BY <1>0, <2>1, OneMore
  <2> QED BY <1>0, <2>2, <2>3 DEF BadPairs
<1>6. Contents # {}
  BY DEF TypeOK
<1> QED BY <1>2, <1>3, <1>4, <1>5, <1>6, DirectorySteps

(***************************************************************************)
(* The pair just taken is not pruned while names follow time: nothing in     *)
(* the directory is newer.                                                   *)
(***************************************************************************)
LEMMA LastIsKept ==
    ASSUME Retention \in Nat \ {0}, NEW n, \A m \in Listed : ~(m > n)
    PROVE  n \notin Doomed
<1>1. {m \in Listed : m > n} = {}
  OBVIOUS
<1>2. ASSUME n \in Doomed PROVE FALSE
  <2>1. Cardinality({m \in Listed : m > n}) >= Retention
    BY <1>2 DEF Doomed
  <2> QED BY <1>1, <2>1, FS_EmptySet
<1> QED BY <1>2

(***************************************************************************)
(* While the clock has not stepped back, no name is newer than the last one  *)
(* given, and a call that nobody disturbs has its pair in place.             *)
(***************************************************************************)
LEMMA NewestLastStep ==
    ASSUME TypeOK, OwnFiles, NewestLast, Next
    PROVE  NewestLast'
<1>0. /\ clock \in Nat /\ stepbacks \in Nat /\ Retention \in Nat \ {0}
      /\ DOMAIN yaml \subseteq Nat /\ DOMAIN sums \subseteq Nat
  <2>1. Names \subseteq Nat
    BY DEF Names
  <2> QED BY <2>1, SettingsAssumption, ListedNames DEF TypeOK
<1> USE DEF NewestLast, Unplaced, Pruning, Creating, clockVars, historyVars, faultVars, callVars,
            dirVars
<1>1. CASE CreateBackup
  <2>1. stepbacks' = 0 => stepbacks = 0 /\ clock' \in Nat /\ clock' > clock
    BY <1>0, <1>1 DEF CreateBackup, ReadClock
  <2>2. pc' = "backup_temp" /\ UNCHANGED <<yaml, sums>>
    BY <1>1 DEF CreateBackup
  <2> QED BY <1>0, <2>1, <2>2
<1>2. CASE BackupTemp \/ ChecksumTemp \/ ConfigTemp
  BY <1>2 DEF BackupTemp, ChecksumTemp, ConfigTemp, WriteTemp
<1>3. CASE PlaceChecksum
  BY <1>0, <1>3 DEF PlaceChecksum, Write, OwnFiles
<1>4. CASE PlaceBackup
  BY <1>0, <1>4 DEF PlaceBackup, Write, OwnFiles, Listed
<1>5. CASE Prune
  <2>1. stepbacks = 0 => clock \notin Doomed
    BY <1>0, LastIsKept DEF Listed
  <2> QED BY <1>5, <2>1 DEF Prune, Listed
<1>6. CASE UnlinkChecksum \/ UnlinkBackup
  <2>1. doomed # {} /\ doomed \in SUBSET Nat
    <3>1. Names \subseteq Nat
      BY DEF Names
    <3> QED BY <1>6, <3>1 DEF UnlinkChecksum, UnlinkBackup, OwnFiles, TypeOK
  <2>2. Oldest(doomed) \in doomed
    BY <2>1, OldestExists
  <2>3. PICK n : n = Oldest(doomed)
    OBVIOUS
  <2>4. stepbacks = 0 => n # clock
    BY <1>6, <2>2, <2>3 DEF UnlinkChecksum, UnlinkBackup
  <2>5. /\ \/ sums' = Unlink(sums, n) /\ yaml' = yaml
           \/ yaml' = Unlink(yaml, n) /\ sums' = sums
        /\ doomed' \subseteq doomed /\ UNCHANGED <<clock, stepbacks, call>>
        /\ pc \in Pruning /\ pc' \in Pruning
    BY <1>6, <2>3 DEF UnlinkChecksum, UnlinkBackup
  <2> QED BY <1>0, <2>4, <2>5 DEF Unlink, Listed
<1>7. CASE WriteManifest
  BY <1>7 DEF WriteManifest, WriteTemp, Listed
<1>8. CASE ManifestFails \/ PlaceManifest \/ PlaceConfig
  BY <1>8 DEF ManifestFails, PlaceManifest, PlaceConfig, Leave
<1>9. CASE Restore \/ Verify \/ ReadBackup
  BY <1>9 DEF Restore, Verify, ReadBackup, Leave
<1>10. CASE IOError \/ CleanUpFails \/ Crash
  BY <1>10 DEF IOError, SumsCleaned, Unlink, CleanUpFails, Crash, Leave
<1>11. ASSUME NEW content \in Contents, WriteConfig(content) PROVE NewestLast'
  BY <1>11 DEF WriteConfig, Listed
<1>12. ASSUME NEW n \in Listed, Lose(n) PROVE NewestLast'
  BY <1>12 DEF Lose, Unlink
<1>13. ASSUME NEW n \in Listed, NEW content \in Contents, Damage(n, content) PROVE NewestLast'
  BY <1>13 DEF Damage
<1>14. ASSUME NEW n \in Listed, GarbleChecksum(n) PROVE NewestLast'
  BY <1>14 DEF GarbleChecksum
<1> QED BY <1>1, <1>2, <1>3, <1>4, <1>5, <1>6, <1>7, <1>8, <1>9, <1>10, <1>11, <1>12, <1>13,
           <1>14
        DEF Next, Call, Fault

(***************************************************************************)
(* Pruning comes down to the retention count, whatever other programs        *)
(* remove meanwhile.                                                         *)
(***************************************************************************)
LEMMA PrunedStep ==
    ASSUME TypeOK, TypeOK', Pruned, Next
    PROVE  Pruned'
<1>0. /\ Retention \in Nat /\ Listed \in SUBSET Names /\ Listed' \in SUBSET Names
      /\ Listed \ doomed \in SUBSET Names
  BY SettingsAssumption, ListedNames DEF Names, Listed, TypeOK, Files
<1> USE DEF Pruned, Pruning
<1>1. CASE pc' \notin Pruning \cup {"place_manifest"}
  BY <1>1
<1>2. CASE Prune
  <2>1. Cardinality(Listed \ Doomed) <= Retention
    BY <1>0, PruneKeeps
  <2>2. Listed' = Listed /\ doomed' = Doomed /\ pc' = "unlink_checksum"
    BY <1>2 DEF Prune, Listed, dirVars
  <2> QED BY <2>1, <2>2
<1>3. ASSUME Listed' \ doomed' \subseteq Listed \ doomed, pc \in Pruning, pc' \in Pruning
      PROVE  Pruned'
  <2>1. /\ Cardinality(Listed' \ doomed') \in Nat /\ Cardinality(Listed \ doomed) \in Nat
        /\ Cardinality(Listed' \ doomed') <= Cardinality(Listed \ doomed)
    BY <1>0, <1>3, SubsetCount
  <2> QED BY <1>0, <1>3, <2>1
<1>4. CASE UnlinkChecksum
  BY <1>3, <1>4 DEF UnlinkChecksum, Unlink, Listed
<1>5. CASE UnlinkBackup
  BY <1>3, <1>5 DEF UnlinkBackup, Unlink, Listed
<1>6. CASE WriteManifest
  <2>1. /\ Listed' = Listed /\ Listed = Listed \ doomed
        /\ pc = "unlink_checksum" /\ pc' = "place_manifest"
    BY <1>6 DEF WriteManifest, WriteTemp, Listed, dirVars
  <2> QED BY <2>1
<1>7. ASSUME Listed' \subseteq Listed, UNCHANGED <<pc, doomed>> PROVE Pruned'
  <2>1. /\ Cardinality(Listed') \in Nat /\ Cardinality(Listed) \in Nat
        /\ Cardinality(Listed') <= Cardinality(Listed)
    BY <1>0, <1>7, SubsetCount
  <2>2. CASE pc \in Pruning
    BY <1>3, <1>7, <2>2
  <2> QED BY <1>0, <1>7, <2>1, <2>2
<1>8. ASSUME NEW n, NEW content, OutsideWrite(n, content)
      PROVE  Pruned'
  BY <1>7, <1>8 DEF OutsideWrite, WriteConfig, Lose, GarbleChecksum, Damage, Unlink, Listed,
        dirVars, callVars
<1>9. CASE \/ CreateBackup \/ BackupTemp \/ ChecksumTemp \/ PlaceChecksum \/ PlaceBackup
           \/ ManifestFails \/ PlaceManifest \/ Restore \/ Verify \/ ReadBackup \/ ConfigTemp
           \/ PlaceConfig \/ IOError \/ CleanUpFails \/ Crash
  BY <1>1, <1>9 DEF CreateBackup, BackupTemp, ChecksumTemp, PlaceChecksum, PlaceBackup,
        ManifestFails, PlaceManifest, Restore, Verify, ReadBackup, ConfigTemp, PlaceConfig,
        IOError, CleanUpFails, Crash, WriteTemp, Leave
<1> QED BY <1>2, <1>4, <1>5, <1>6, <1>8, <1>9 DEF Next, Call, Fault, OutsideWrite

(***************************************************************************)
(* The manifest of an undisturbed call is that of the directory it leaves,   *)
(* and stays so until the next call or fault.                                *)
(***************************************************************************)
LEMMA ReportedStep ==
    ASSUME TypeOK, NewestLast, Pruned, Reported, Next
    PROVE  Reported'
<1> USE DEF Reported, Unplaced, Pruning, Creating, clockVars, historyVars, faultVars, callVars,
            dirVars
<1>1. CASE CreateBackup
  BY <1>1 DEF CreateBackup
<1>2. CASE \/ BackupTemp \/ ChecksumTemp \/ PlaceChecksum \/ PlaceBackup \/ Prune
           \/ UnlinkChecksum \/ UnlinkBackup
  BY <1>2 DEF BackupTemp, ChecksumTemp, PlaceChecksum, PlaceBackup, Prune, UnlinkChecksum,
              UnlinkBackup, WriteTemp
<1>3. CASE WriteManifest
  BY <1>3 DEF WriteManifest, WriteTemp, Listed
<1>4. CASE PlaceManifest
  <2>1. Listed' = Listed /\ pc = "place_manifest" /\ pc' = "idle"
    BY <1>4 DEF PlaceManifest, Leave, Listed
  <2>2. call # "returned"
    BY <2>1
  <2> QED BY <1>4, <2>1, <2>2 DEF PlaceManifest, NewestLast, Pruned
<1>5. CASE Restore \/ Verify \/ ReadBackup \/ ConfigTemp \/ PlaceConfig
  <2>1. /\ UNCHANGED <<yaml, sums, manifest, clock, stepbacks, call>> /\ Listed' = Listed
        /\ pc \notin Creating /\ pc' \notin Creating
    BY <1>5 DEF Restore, Verify, ReadBackup, ConfigTemp, PlaceConfig, WriteTemp, Leave, Listed
  <2> QED BY <2>1
<1>6. CASE ManifestFails \/ IOError \/ CleanUpFails \/ Crash
  BY <1>6 DEF ManifestFails, IOError, CleanUpFails, Crash, Leave
<1>7. ASSUME NEW content, WriteConfig(content) PROVE Reported'
  BY <1>7 DEF WriteConfig, Listed
<1>8. ASSUME NEW n, NEW content, Lose(n) \/ GarbleChecksum(n) \/ Damage(n, content)
      PROVE  Reported'
  BY <1>8 DEF Lose, GarbleChecksum, Damage
<1> QED BY <1>1, <1>2, <1>3, <1>4, <1>5, <1>6, <1>7, <1>8 DEF Next, Call, Fault

-----------------------------------------------------------------------------
(* What is left behind. *)

(***************************************************************************)
(* Where a call is when a fault ends it, the half of a pair it leaves.       *)
(***************************************************************************)
LEMMA LooseNames ==
    ASSUME TypeOK
    PROVE  /\ Loose \in SUBSET Names /\ LooseSums \in SUBSET Names
           /\ litter \in Nat /\ crashes \in Nat /\ errors \in Nat /\ outside \in Nat
           /\ Cardinality(Loose) \in Nat /\ Cardinality(LooseSums) \in Nat
           /\ Cardinality(Listed) \in Nat
<1>1. Loose \in SUBSET Names /\ LooseSums \in SUBSET Names /\ Listed \in SUBSET Names
  BY ListedNames DEF Loose, LooseSums
<1>2. litter \in Nat /\ crashes \in Nat /\ errors \in Nat /\ outside \in Nat
  BY SettingsAssumption DEF TypeOK
<1> QED BY <1>1, <1>2, SubsetCount

(***************************************************************************)
(* A step of a call leaves no half of a pair but the one it will itself      *)
(* complete or remove.                                                       *)
(***************************************************************************)
LEMMA CallLeaves ==
    ASSUME OwnFiles, Call
    PROVE  Loose' \subseteq Loose /\ LooseSums' \subseteq LooseSums
<1> USE DEF Loose, LooseSums, Orphans, dirVars
<1>1. CASE \/ CreateBackup \/ BackupTemp \/ ChecksumTemp \/ Prune \/ WriteManifest
           \/ ManifestFails \/ PlaceManifest \/ Restore \/ Verify \/ ReadBackup \/ ConfigTemp
           \/ PlaceConfig
  <2>1. UNCHANGED <<yaml, sums>>
    BY <1>1 DEF CreateBackup, BackupTemp, ChecksumTemp, Prune, WriteManifest, ManifestFails,
                PlaceManifest,
                Restore, Verify, ReadBackup, ConfigTemp, PlaceConfig
  <2>2. pc \notin {"place_backup", "unlink_backup"} /\ pc' \notin {"place_backup", "unlink_backup"}
    BY <1>1 DEF CreateBackup, BackupTemp, ChecksumTemp, Prune, WriteManifest, ManifestFails,
                PlaceManifest,
                Restore, Verify, ReadBackup, ConfigTemp, PlaceConfig, WriteTemp, Leave
  <2>3. InFlight = {} /\ InFlight' = {}
    BY <2>2 DEF InFlight
  <2> QED BY <2>1, <2>3
<1>2. CASE PlaceChecksum
  <2>1. InFlight = {} /\ InFlight' = {name} /\ DOMAIN sums' = DOMAIN sums \cup {name}
        /\ yaml' = yaml
    BY <1>2 DEF PlaceChecksum, InFlight, Write
  <2> QED BY <2>1
<1>3. CASE PlaceBackup
  <2>1. /\ InFlight = {name} /\ InFlight' = {} /\ DOMAIN yaml' = DOMAIN yaml \cup {name}
        /\ sums' = sums /\ name \in DOMAIN sums
    BY <1>3 DEF PlaceBackup, InFlight, Write, OwnFiles
  <2> QED BY <2>1
<1>4. CASE UnlinkChecksum
  <2>1. PICK n : n = Oldest(doomed)
    OBVIOUS
  <2>2. InFlight = {} /\ InFlight' = {n} /\ DOMAIN sums' = DOMAIN sums \ {n} /\ yaml' = yaml
    BY <1>4, <2>1 DEF UnlinkChecksum, InFlight, Unlink, Oldest
  <2> QED BY <2>2
<1>5. CASE UnlinkBackup
  <2>1. PICK n : n = Oldest(doomed)
    OBVIOUS
  <2>2. /\ InFlight = {n} /\ InFlight' = {} /\ DOMAIN yaml' = DOMAIN yaml \ {n}
        /\ sums' = sums /\ n \notin DOMAIN sums
    BY <1>5, <2>1 DEF UnlinkBackup, InFlight, Unlink, OwnFiles
  <2> QED BY <2>2
<1> QED BY <1>1, <1>2, <1>3, <1>4, <1>5 DEF Call

(***************************************************************************)
(* What a fault that ends the call leaves: the half of a pair it was         *)
(* working on, and no checksum alone after an error whose clean-up worked.   *)
(***************************************************************************)
LEMMA EndLeaves ==
    ASSUME TypeOK, OwnFiles, IOError \/ CleanUpFails \/ Crash
    PROVE  /\ IF pc \in {"place_backup", "unlink_backup"}
              THEN \E x : Loose' \subseteq Loose \cup {x}
              ELSE Loose' \subseteq Loose
           /\ \E x : LooseSums' \subseteq LooseSums \cup {x}
           /\ IOError => /\ LooseSums' \subseteq LooseSums
                         /\ pc # "unlink_backup" => Loose' \subseteq Loose
<1>1. pc' = "idle" /\ yaml' = yaml /\ InFlight' = {}
  BY DEF IOError, CleanUpFails, Crash, Leave, dirVars, InFlight
<1>2. Loose' = Orphans' /\ LooseSums' = DOMAIN sums' \ DOMAIN yaml
  BY <1>1 DEF Loose, LooseSums
<1>3. PICK x : InFlight \subseteq {x}
  BY DEF InFlight
<1>4. CASE CleanUpFails \/ Crash
  <2>1. sums' = sums
    BY <1>4 DEF CleanUpFails, Crash, dirVars
  <2>2. Orphans' = Orphans
    BY <1>1, <2>1 DEF Orphans
  <2>3. ~IOError
    <3>1. errors \in Nat
      BY LooseNames
    <3>2. errors' # errors + 1
      BY <1>4, <3>1 DEF CleanUpFails, Crash
    <3> QED BY <3>2 DEF IOError
  <2>4. pc \notin {"place_backup", "unlink_backup"} => InFlight = {}
    BY DEF InFlight
  <2> QED BY <1>2, <1>3, <2>1, <2>2, <2>3, <2>4 DEF Loose, LooseSums
<1>5. CASE IOError /\ pc = "place_backup"
  <2>1. /\ DOMAIN sums' = DOMAIN sums \ {name} /\ InFlight = {name}
        /\ name \notin DOMAIN yaml
    BY <1>5 DEF IOError, SumsCleaned, Unlink, OwnFiles, Unplaced, InFlight
  <2>2. Loose' \subseteq Loose /\ LooseSums' \subseteq LooseSums
    BY <1>1, <1>2, <2>1 DEF Loose, LooseSums, Orphans
  <2> QED BY <1>5, <2>2
<1>6. CASE IOError /\ pc = "place_checksum"
  <2>1. sums' = Unlink(sums, name) /\ InFlight = {} /\ name \notin DOMAIN yaml
    BY <1>6 DEF IOError, SumsCleaned, OwnFiles, Unplaced, InFlight
  <2>2. DOMAIN sums' = DOMAIN sums \ {name}
    BY <2>1 DEF Unlink
  <2> QED BY <1>1, <1>2, <1>6, <2>1, <2>2 DEF Loose, LooseSums, Orphans
<1>7. CASE IOError /\ pc = "unlink_backup"
  <2>1. sums' = sums /\ InFlight \cap DOMAIN sums = {}
    BY <1>7 DEF IOError, SumsCleaned, OwnFiles, InFlight
  <2> QED BY <1>1, <1>2, <1>3, <1>7, <2>1 DEF Loose, LooseSums, Orphans
<1>8. CASE IOError /\ pc \notin {"place_checksum", "place_backup", "unlink_backup"}
  <2>1. sums' = sums /\ InFlight = {}
    BY <1>8 DEF IOError, SumsCleaned, InFlight
  <2> QED BY <1>1, <1>2, <1>8, <2>1 DEF Loose, LooseSums, Orphans
<1> QED BY <1>4, <1>5, <1>6, <1>7, <1>8

(***************************************************************************)
(* What another program leaves: it makes at most one half out of a pair.     *)
(***************************************************************************)
LEMMA OutsideLeaves ==
    ASSUME NEW n, NEW content, OutsideWrite(n, content)
    PROVE  /\ Loose' \subseteq Loose \cup {n}
           /\ LooseSums' \subseteq LooseSums \cup {n}
           /\ outside' = outside + 1 /\ UNCHANGED <<litter, crashes, errors, pc>>
           /\ Listed' \subseteq Listed
<1>1. UNCHANGED <<pc, name, doomed, litter, crashes, errors>> /\ outside' = outside + 1
  BY DEF OutsideWrite, WriteConfig, Lose, GarbleChecksum, Damage, Outside, callVars
<1>2. InFlight' = InFlight
  BY <1>1 DEF InFlight, Oldest
<1>3. /\ DOMAIN yaml' \subseteq DOMAIN yaml /\ DOMAIN yaml \subseteq DOMAIN yaml' \cup {n}
      /\ DOMAIN sums' \subseteq DOMAIN sums /\ DOMAIN sums \subseteq DOMAIN sums' \cup {n}
  BY DEF OutsideWrite, WriteConfig, Lose, GarbleChecksum, Damage, Unlink, dirVars
<1> QED BY <1>1, <1>2, <1>3 DEF Loose, LooseSums, Orphans, Listed

(***************************************************************************)
(* FR-007, file by file: what a fault leaves behind is paid for by it.       *)
(***************************************************************************)
LEMMA LitterStep ==
    ASSUME TypeOK, TypeOK', OwnFiles, TempFiles, LitterPaid, Next
    PROVE  LitterPaid'
<1>0. /\ Loose \in SUBSET Names /\ Loose' \in SUBSET Names
      /\ litter \in Nat /\ crashes \in Nat /\ errors \in Nat /\ outside \in Nat
      /\ Cardinality(Loose) \in Nat /\ Cardinality(Loose') \in Nat
      /\ litter + Cardinality(Loose) <= 2 * crashes + errors + outside
  <2>1. Loose' \in SUBSET Names
    BY DEF Loose, Orphans, TypeOK, Files
  <2>2. Cardinality(Loose') \in Nat
    BY <2>1, SubsetCount
  <2> QED BY <2>1, <2>2, LooseNames DEF LitterPaid
<1>1. Loose' \subseteq Loose => Cardinality(Loose') <= Cardinality(Loose)
  BY <1>0, SubsetCount
<1>2. ASSUME NEW x, Loose' \subseteq Loose \cup {x}
      PROVE  Cardinality(Loose') <= Cardinality(Loose) + 1
  BY <1>0, <1>2, OneMore
<1>3. PICK a \in Nat, b \in Nat : a = Cardinality(Loose) /\ b = Cardinality(Loose')
  BY <1>0
<1>4. CASE Call
  <2>1. UNCHANGED <<litter, crashes, errors, outside>>
    BY <1>4 DEF Call, CreateBackup, BackupTemp, ChecksumTemp, PlaceChecksum, PlaceBackup, Prune,
             UnlinkChecksum, UnlinkBackup, WriteManifest, ManifestFails,
             PlaceManifest, Restore, Verify,
             ReadBackup, ConfigTemp, PlaceConfig, historyVars, faultVars
  <2>2. b <= a
    BY <1>1, <1>3, <1>4, CallLeaves
  <2> QED BY <1>0, <1>3, <2>1, <2>2 DEF LitterPaid
<1>5. CASE IOError \/ CleanUpFails \/ Crash
  <2>0. PICK t \in 0..2 : t = Cardinality(temps)
    BY TempCount
  <2>1. /\ pc = "place_checksum" => t = 2
        /\ pc \in {"checksum_temp", "place_backup", "place_manifest", "place_config"} => t = 1
        /\ pc \notin {"checksum_temp", "place_backup", "place_checksum", "place_manifest",
                      "place_config"} => t = 0
    BY <2>0, TempCount
  <2>2. /\ b <= a + 1
        /\ pc \notin {"place_backup", "unlink_backup"} => b <= a
        /\ (IOError /\ pc # "unlink_backup") => b <= a
    BY <1>1, <1>2, <1>3, <1>5, EndLeaves
  <2>3. CASE IOError
    <3>1. /\ errors' = errors + 1 /\ UNCHANGED <<crashes, outside>>
          /\ litter' = litter + (IF pc \in Guarded THEN 0 ELSE t)
      BY <2>0, <2>3 DEF IOError
    <3>2. PICK l \in 0..1 : litter' = litter + l /\ l + b <= a + 1
      BY <2>1, <2>2, <2>3, <3>1 DEF Guarded
    <3> QED BY <1>0, <1>3, <3>1, <3>2 DEF LitterPaid
  <2>4. CASE CleanUpFails
    <3>1. errors' = errors + 2 /\ UNCHANGED <<crashes, outside>> /\ pc \in Guarded
      BY <2>4 DEF CleanUpFails
    <3>2. PICK l \in 0..t : litter' = litter + l
      BY <2>0, <2>4 DEF CleanUpFails
    <3>3. l + b <= a + 2 /\ l \in Nat
      BY <2>1, <2>2, <3>1, <3>2 DEF Guarded
    <3> QED BY <1>0, <1>3, <3>1, <3>2, <3>3 DEF LitterPaid
  <2>5. CASE Crash
    <3>1. crashes' = crashes + 1 /\ UNCHANGED <<errors, outside>>
      BY <2>5 DEF Crash
    <3>2. PICK partial \in 0..1 :
             /\ litter' = litter + t + partial
             /\ pc \notin {"backup_temp", "checksum_temp", "unlink_checksum", "config_temp"}
                   => partial = 0
      BY <2>0, <2>5 DEF Crash
    <3>3. t + partial + b <= a + 2
      BY <1>3, <2>0, <2>1, <2>2, <3>2
    <3> QED BY <1>0, <1>3, <3>1, <3>2, <3>3 DEF LitterPaid
  <2> QED BY <1>5, <2>3, <2>4, <2>5
<1>6. ASSUME NEW n, NEW content, OutsideWrite(n, content)
      PROVE  LitterPaid'
  <2>1. outside' = outside + 1 /\ UNCHANGED <<litter, crashes, errors>> /\ b <= a + 1
    BY <1>2, <1>3, <1>6, OutsideLeaves
  <2> QED BY <1>0, <1>3, <2>1 DEF LitterPaid
<1> QED BY <1>4, <1>5, <1>6 DEF Next, Fault, OutsideWrite

(***************************************************************************)
(* A checksum without its backup takes a death of the process, an error in   *)
(* the clean-up, or another program.                                         *)
(***************************************************************************)
LEMMA SumsStep ==
    ASSUME TypeOK, TypeOK', OwnFiles, SumsPaid, Next
    PROVE  SumsPaid'
<1>0. /\ LooseSums \in SUBSET Names /\ LooseSums' \in SUBSET Names
      /\ crashes \in Nat /\ errors \in Nat /\ outside \in Nat
      /\ Cardinality(LooseSums) \in Nat /\ Cardinality(LooseSums') \in Nat
      /\ Cardinality(LooseSums) <= crashes + errors \div 2 + outside
  <2>1. LooseSums' \in SUBSET Names
    BY DEF LooseSums, TypeOK, Files
  <2>2. Cardinality(LooseSums') \in Nat
    BY <2>1, SubsetCount
  <2> QED BY <2>1, <2>2, LooseNames DEF SumsPaid
<1>1. LooseSums' \subseteq LooseSums => Cardinality(LooseSums') <= Cardinality(LooseSums)
  BY <1>0, SubsetCount
<1>2. ASSUME NEW x, LooseSums' \subseteq LooseSums \cup {x}
      PROVE  Cardinality(LooseSums') <= Cardinality(LooseSums) + 1
  BY <1>0, <1>2, OneMore
<1>3. PICK a \in Nat, b \in Nat : a = Cardinality(LooseSums) /\ b = Cardinality(LooseSums')
  BY <1>0
<1>4. /\ errors \div 2 \in Nat
      /\ (errors + 1) \div 2 \in Nat /\ errors \div 2 <= (errors + 1) \div 2
      /\ (errors + 2) \div 2 = errors \div 2 + 1
  BY <1>0
<1>5. CASE Call
  <2>1. UNCHANGED <<crashes, errors, outside>>
    BY <1>5 DEF Call, CreateBackup, BackupTemp, ChecksumTemp, PlaceChecksum, PlaceBackup, Prune,
             UnlinkChecksum, UnlinkBackup, WriteManifest, ManifestFails,
             PlaceManifest, Restore, Verify,
             ReadBackup, ConfigTemp, PlaceConfig, historyVars, faultVars
  <2>2. b <= a
    BY <1>1, <1>3, <1>5, CallLeaves
  <2> QED BY <1>0, <1>3, <1>4, <2>1, <2>2 DEF SumsPaid
<1>6. CASE IOError
  <2>1. errors' = errors + 1 /\ UNCHANGED <<crashes, outside>> /\ b <= a
    BY <1>1, <1>3, <1>6, EndLeaves DEF IOError
  <2> QED BY <1>0, <1>3, <1>4, <2>1 DEF SumsPaid
<1>7. CASE CleanUpFails
  <2>1. errors' = errors + 2 /\ UNCHANGED <<crashes, outside>> /\ b <= a + 1
    BY <1>2, <1>3, <1>7, EndLeaves DEF CleanUpFails
  <2> QED BY <1>0, <1>3, <1>4, <2>1 DEF SumsPaid
<1>8. CASE Crash
  <2>1. crashes' = crashes + 1 /\ UNCHANGED <<errors, outside>> /\ b <= a + 1
    BY <1>2, <1>3, <1>8, EndLeaves DEF Crash
  <2> QED BY <1>0, <1>3, <1>4, <2>1 DEF SumsPaid
<1>9. ASSUME NEW n, NEW content, OutsideWrite(n, content)
      PROVE  SumsPaid'
  <2>1. outside' = outside + 1 /\ UNCHANGED <<crashes, errors>> /\ b <= a + 1
    BY <1>2, <1>3, <1>9, OutsideLeaves
  <2> QED BY <1>0, <1>3, <1>4, <2>1 DEF SumsPaid
<1> QED BY <1>5, <1>6, <1>7, <1>8, <1>9 DEF Next, Fault, OutsideWrite

(***************************************************************************)
(* A pair beyond the retention count takes a call that was cut off before    *)
(* it had pruned.                                                            *)
(***************************************************************************)
LEMMA PairsStep ==
    ASSUME TypeOK, TypeOK', OwnFiles, Pruned, Pruned', PairsPaid, Next
    PROVE  PairsPaid'
<1>0. /\ Listed \in SUBSET Names /\ Listed' \in SUBSET Names
      /\ crashes \in Nat /\ errors \in Nat /\ Retention \in Nat
      /\ Cardinality(Listed) \in Nat /\ Cardinality(Listed') \in Nat
      /\ Extra \in 0..1 /\ Extra' \in 0..1
  <2>1. Listed' \in SUBSET Names
    BY DEF Listed, TypeOK, Files
  <2>2. Cardinality(Listed') \in Nat
    BY <2>1, SubsetCount
  <2>3. Extra \in 0..1 /\ Extra' \in 0..1
    BY DEF Extra
  <2> QED BY <2>1, <2>2, <2>3, LooseNames, ListedNames, SettingsAssumption
<1>1. Listed' \subseteq Listed => Cardinality(Listed') <= Cardinality(Listed)
  BY <1>0, SubsetCount
<1>2. PICK a \in Nat, b \in Nat : a = Cardinality(Listed) /\ b = Cardinality(Listed')
  BY <1>0
<1>3. ASSUME Listed' \subseteq Listed, UNCHANGED <<crashes, errors>>, Extra' = Extra
      PROVE  PairsPaid'
  BY <1>0, <1>1, <1>2, <1>3 DEF PairsPaid
<1>4. CASE \/ CreateBackup \/ BackupTemp \/ ChecksumTemp \/ Prune
           \/ PlaceManifest \/ Restore \/ Verify \/ ReadBackup \/ ConfigTemp \/ PlaceConfig
  <2>1. UNCHANGED <<yaml, sums, crashes, errors>>
    BY <1>4 DEF CreateBackup, BackupTemp, ChecksumTemp, Prune, PlaceManifest, Restore, Verify,
                ReadBackup, ConfigTemp, PlaceConfig, dirVars, historyVars, faultVars
  <2>2. Extra' = Extra
    BY <1>4 DEF CreateBackup, BackupTemp, ChecksumTemp, Prune, PlaceManifest, Restore, Verify,
                ReadBackup, ConfigTemp, PlaceConfig, WriteTemp, Leave, Extra, Pruning
  <2> QED BY <1>3, <2>1, <2>2 DEF Listed
<1>5. CASE PlaceChecksum
  <2>1. UNCHANGED <<crashes, errors>> /\ Extra = 0 /\ Extra' = 0
    BY <1>5 DEF PlaceChecksum, historyVars, faultVars, Extra, Pruning
  <2>2. Listed' \subseteq Listed
    BY <1>5 DEF PlaceChecksum, Write, Listed, OwnFiles, Unplaced
  <2> QED BY <1>3, <2>1, <2>2
<1>6. CASE PlaceBackup
  <2>1. Listed' \subseteq Listed \cup {name}
    BY <1>6 DEF PlaceBackup, Write, Listed
  <2>2. UNCHANGED <<crashes, errors>> /\ Extra = 0 /\ Extra' = 1
    BY <1>6 DEF PlaceBackup, historyVars, faultVars, Extra, Pruning
  <2>3. b <= a + 1
    BY <1>0, <1>2, <2>1, OneMore
  <2> QED BY <1>0, <1>2, <2>2, <2>3 DEF PairsPaid
<1>7. CASE UnlinkChecksum \/ UnlinkBackup
  <2>1. UNCHANGED <<crashes, errors>> /\ Extra = 1 /\ Extra' = 1 /\ Listed' \subseteq Listed
    BY <1>7 DEF UnlinkChecksum, UnlinkBackup, Unlink, Listed, historyVars, faultVars, Extra,
                Pruning
  <2> QED BY <1>3, <2>1
<1>8. CASE WriteManifest
  <2>1. pc' = "place_manifest" /\ UNCHANGED <<crashes, errors>>
    BY <1>8 DEF WriteManifest, WriteTemp, historyVars, faultVars
  <2>2. b <= Retention
    BY <1>2, <2>1 DEF Pruned
  <2> QED BY <1>0, <1>2, <2>1, <2>2 DEF PairsPaid
<1>m. CASE ManifestFails
  <2>1. /\ pc = "unlink_checksum" /\ doomed = {} /\ UNCHANGED <<crashes, errors>>
        /\ Listed' = Listed
    BY <1>m DEF ManifestFails, Listed, dirVars, faultVars
  <2>2. b <= Retention
    <3>1. Listed' = Listed \ doomed
      BY <2>1
    <3> QED BY <1>2, <2>1, <3>1 DEF Pruned, Pruning
  <2> QED BY <1>0, <1>2, <2>1, <2>2 DEF PairsPaid
<1>9. CASE IOError \/ CleanUpFails \/ Crash
  <2>1. Listed' \subseteq Listed /\ Extra' = 0
    BY <1>9 DEF IOError, CleanUpFails, Crash, SumsCleaned, Unlink, Leave, Listed, dirVars, Extra,
                Pruning
  <2>2. \/ errors' \in {errors + 1, errors + 2} /\ crashes' = crashes
        \/ errors' = errors /\ crashes' = crashes + 1
    BY <1>9 DEF IOError, CleanUpFails, Crash
  <2>3. b <= a
    BY <1>1, <1>2, <2>1
  <2> QED BY <1>0, <1>2, <2>1, <2>2, <2>3 DEF PairsPaid
<1>10. ASSUME NEW n, NEW content, OutsideWrite(n, content)
       PROVE  PairsPaid'
  BY <1>3, <1>10, OutsideLeaves DEF Extra
<1> QED BY <1>4, <1>5, <1>6, <1>7, <1>8, <1>m, <1>9, <1>10 DEF Next, Call, Fault, OutsideWrite

-----------------------------------------------------------------------------
(* Theorems. *)

(***************************************************************************)
(* The invariant holds throughout.                                           *)
(***************************************************************************)
LEMMA FilesInvariant == Spec => []FilesInv
<1>1. Init => FilesInv
  <2> SUFFICES ASSUME Init PROVE FilesInv
    OBVIOUS
  <2>1. DOMAIN yaml = {} /\ DOMAIN sums = {} /\ pc = "idle" /\ outside = 0
    BY DEF Init
  <2>2. /\ Listed = {} /\ Orphans = {} /\ Loose = {} /\ LooseSums = {} /\ Unverified = {}
        /\ Extra = 0 /\ Cardinality({}) = 0
    BY <2>1, FS_EmptySet DEF Listed, Orphans, Loose, LooseSums, Unverified, Extra, Pruning
  <2>3. TypeOK
    <3>1. /\ 0 \in 0..MaxStepBacks /\ 0 \in 0..MaxCrashes /\ 0 \in 0..MaxErrors
          /\ 0 \in 0..MaxOutside
      BY SettingsAssumption
    <3>2. {yaml, manifest, draft} \subseteq Files(Contents) /\ sums \in Files(Digests)
      BY NoFiles DEF Init
    <3> QED BY <3>1, <3>2 DEF Init, TypeOK, Contents
  <2>4. Snapshots /\ OwnFiles /\ TempFiles
    BY <2>1 DEF Init, Snapshots, OwnFiles, TempFiles, Unplaced, Creating, Pruning
  <2>5. BadPairs /\ NewestLast /\ Pruned /\ Reported
    BY <2>1, <2>2 DEF Init, BadPairs, NewestLast, Pruned, Reported, Unplaced, Creating, Pruning
  <2>6. LitterPaid
    BY <2>2 DEF Init, LitterPaid
  <2>7. SumsPaid
    BY <2>2 DEF Init, SumsPaid
  <2>8. PairsPaid
    BY <2>2, SettingsAssumption DEF Init, PairsPaid
  <2> QED BY <2>3, <2>4, <2>5, <2>6, <2>7, <2>8 DEF FilesInv
<1>2. FilesInv /\ Next => FilesInv'
  <2> SUFFICES ASSUME FilesInv, Next PROVE FilesInv'
    OBVIOUS
  <2>0. /\ TypeOK /\ Snapshots /\ OwnFiles /\ TempFiles /\ BadPairs /\ NewestLast /\ Pruned
        /\ Reported /\ LitterPaid /\ SumsPaid /\ PairsPaid
    BY DEF FilesInv
  <2>1. TypeOK'
    <3>1. pc = "place_config" => contents \in Contents
      BY <2>0 DEF Snapshots
    <3> QED BY <2>0, <3>1, CreateTypes, RestoreTypes, FaultTypes DEF Next, Call
  <2>2. Snapshots' /\ OwnFiles' /\ TempFiles'
    BY <2>0, SnapshotsStep, OwnFilesStep, TempFilesStep
  <2>3. BadPairs' /\ NewestLast' /\ Pruned' /\ Reported'
    BY <2>0, <2>1, BadPairsStep, NewestLastStep, PrunedStep, ReportedStep
  <2>4. LitterPaid' /\ SumsPaid' /\ PairsPaid'
    BY <2>0, <2>1, <2>3, LitterStep, SumsStep, PairsStep
  <2> QED BY <2>1, <2>2, <2>3, <2>4 DEF FilesInv
<1>3. FilesInv /\ UNCHANGED vars => FilesInv'
  <2> SUFFICES ASSUME FilesInv, UNCHANGED vars PROVE FilesInv'
    OBVIOUS
  <2>1. /\ UNCHANGED <<config, yaml, sums, manifest, pc, name, contents, doomed, draft, temps>>
        /\ UNCHANGED <<clock, stepbacks, litter, crashes, errors, outside, taken, call, raced>>
    BY DEF vars, dirVars, callVars, clockVars, historyVars, faultVars
  <2>2. TypeOK' /\ Snapshots' /\ TempFiles'
    BY <2>1 DEF FilesInv, TypeOK, Snapshots, TempFiles
  <2>3. Oldest(doomed)' = Oldest(doomed) /\ Listed' = Listed /\ Orphans' = Orphans
    BY <2>1 DEF Oldest, Listed, Orphans
  <2>4. OwnFiles' /\ NewestLast' /\ Pruned' /\ Reported'
    BY <2>1, <2>3 DEF FilesInv, OwnFiles, NewestLast, Pruned, Reported
  <2>5. Unverified' = Unverified /\ InFlight' = InFlight /\ Extra' = Extra
    BY <2>1, <2>3 DEF Unverified, Verifies, InFlight, Extra
  <2>6. BadPairs' /\ LitterPaid' /\ SumsPaid' /\ PairsPaid'
    BY <2>1, <2>3, <2>5 DEF FilesInv, BadPairs, LitterPaid, SumsPaid, PairsPaid, Loose, LooseSums
  <2> QED BY <2>2, <2>4, <2>6 DEF FilesInv
<1> QED BY <1>1, <1>2, <1>3, PTL DEF Spec

(***************************************************************************)
(* FR-008: restore_backup puts only a config in place of which a backup was  *)
(* made, whatever was damaged, lost or left half done before it compared     *)
(* the checksum.                                                             *)
(***************************************************************************)
THEOREM RestoresSnapshots == Spec => InstallsSnapshots
<1>1. FilesInv /\ [Next]_vars =>
         [(config' # config /\ outside' = outside) => config' \in taken \/ raced]_vars
  <2> SUFFICES ASSUME FilesInv, Next, config' # config, outside' = outside
               PROVE  config' \in taken \/ raced
    BY DEF vars
  <2>0. outside \in Nat
    BY LooseNames DEF FilesInv
  <2>1. ~(\E content \in Contents : WriteConfig(content))
    BY <2>0 DEF WriteConfig, Outside
  <2>2. PlaceConfig
    BY <2>1 DEF Next, Call, Fault, CreateBackup, BackupTemp, ChecksumTemp, PlaceChecksum,
             PlaceBackup, Prune, UnlinkChecksum, UnlinkBackup, WriteManifest, ManifestFails,
             PlaceManifest,
             Restore, Verify, ReadBackup, ConfigTemp, IOError, CleanUpFails, Crash, Lose,
             GarbleChecksum, Damage
  <2> QED BY <2>2 DEF PlaceConfig, FilesInv, Snapshots
<1> QED BY <1>1, FilesInvariant, PTL DEF Spec, InstallsSnapshots

(***************************************************************************)
(* AC-024: what an undisturbed create_backup leaves, also after calls that   *)
(* were cut off anywhere: at most the retention count of pairs, the          *)
(* manifest of exactly those, no pair that does not verify but for damage,   *)
(* and, while the clock has not stepped back, the backup just taken as the   *)
(* newest.                                                                   *)
(***************************************************************************)
THEOREM ManifestIsTrue == Spec => []ManifestTellsRetained
<1>1. FilesInv => ManifestTellsRetained
  <2> SUFFICES ASSUME FilesInv, call = "returned"
               PROVE  /\ manifest = [n \in Listed |-> sums[n]]
                      /\ Cardinality(Listed) <= Retention
                      /\ Cardinality(Unverified) <= outside
                      /\ stepbacks = 0 => clock \in Listed /\ clock = Newest(Listed)
    BY DEF ManifestTellsRetained, Unverified
  <2>1. /\ manifest = [n \in Listed |-> sums[n]] /\ Cardinality(Listed) <= Retention
        /\ stepbacks = 0 => clock \in Listed
        /\ Cardinality(Unverified) <= outside
    BY DEF FilesInv, Reported, BadPairs
  <2>2. ASSUME stepbacks = 0 PROVE clock = Newest(Listed)
    <3>1. Listed \in SUBSET Names /\ clock \in Listed
      BY <2>1, <2>2, ListedNames DEF FilesInv
    <3>2. Newest(Listed) \in Listed /\ clock <= Newest(Listed)
      BY <3>1, NewestExists
    <3>3. Newest(Listed) <= clock
      BY <2>2, <3>2 DEF FilesInv, NewestLast, Listed
    <3>4. clock \in Nat /\ Newest(Listed) \in Nat
      <4>1. Names \subseteq Nat
        BY DEF Names
      <4> QED BY <3>1, <3>2, <4>1
    <3> QED BY <3>2, <3>3, <3>4
  <2> QED BY <2>1, <2>2
<1> QED BY <1>1, FilesInvariant, PTL

(***************************************************************************)
(* FR-007: between calls, the files left behind are accounted for by the     *)
(* faults there were: one file for an error, two for a death, and one pair   *)
(* beyond the retention count for a call that was cut off.                   *)
(***************************************************************************)
THEOREM LitterIsAccounted == Spec => []LitterAccounted
<1>1. FilesInv => LitterAccounted
  <2> SUFFICES ASSUME FilesInv, pc = "idle"
               PROVE  /\ litter + Cardinality(Orphans) <= 2 * crashes + errors + outside
                      /\ Cardinality(DOMAIN sums \ DOMAIN yaml)
                            <= crashes + errors \div 2 + outside
                      /\ Cardinality(Listed) <= Retention + crashes + errors
    BY DEF LitterAccounted
  <2>1. InFlight = {} /\ Extra = 0
    BY DEF InFlight, Extra, Pruning
  <2>2. Loose = Orphans /\ LooseSums = DOMAIN sums \ DOMAIN yaml
    BY <2>1 DEF Loose, LooseSums
  <2>3. LitterPaid /\ SumsPaid /\ PairsPaid /\ TypeOK
    BY DEF FilesInv
  <2>4. Cardinality(Listed) <= Retention + crashes + errors
    <3>1. crashes \in Nat /\ errors \in Nat /\ Retention \in Nat /\ Cardinality(Listed) \in Nat
      BY <2>3, LooseNames, SettingsAssumption
    <3> QED BY <2>1, <2>3, <3>1 DEF PairsPaid
  <2> QED BY <2>2, <2>3, <2>4 DEF LitterPaid, SumsPaid
<1> QED BY <1>1, FilesInvariant, PTL

-----------------------------------------------------------------------------
(* Names in order. *)

\* The place of a name among some names, counted from the oldest.
Rank(L, n) == Cardinality({m \in L : m <= n})

\* The name at a place.
AtRank(L, i) == CHOOSE n \in L : Rank(L, n) = i

\* What f tells of the names, oldest first.
InOrder(L, f) == [i \in 1..Cardinality(L) |-> f[AtRank(L, i)]]

(***************************************************************************)
(* Ranks are places, and a later name has a higher one.                      *)
(***************************************************************************)
LEMMA RankOrder ==
    ASSUME NEW L \in SUBSET Names
    PROVE  /\ Cardinality(L) \in Nat
           /\ \A n \in L : n \in Nat /\ Rank(L, n) \in 1..Cardinality(L)
           /\ \A m, n \in L : m < n => Rank(L, m) < Rank(L, n)
           /\ \A m, n \in L : Rank(L, m) = Rank(L, n) => m = n
<1> DEFINE UpTo(n) == {m \in L : m <= n}
<1>0. Names \subseteq Nat
  BY SettingsAssumption DEF Names
<1>1. ASSUME NEW n \in L
      PROVE  /\ n \in Nat /\ IsFiniteSet(UpTo(n)) /\ IsFiniteSet(L) /\ Cardinality(L) \in Nat
             /\ Cardinality(UpTo(n)) \in 1..Cardinality(L)
  <2>1. /\ IsFiniteSet(UpTo(n)) /\ IsFiniteSet(L)
        /\ Cardinality(UpTo(n)) \in Nat /\ Cardinality(L) \in Nat
        /\ Cardinality(UpTo(n)) <= Cardinality(L)
    BY SubsetCount
  <2>2. n \in UpTo(n) /\ n \in Nat
    BY <1>0
  <2>3. Cardinality(UpTo(n)) # 0
    BY <2>1, <2>2, FS_EmptySet
  <2> QED BY <2>1, <2>2, <2>3
<1>2. ASSUME NEW m \in L, NEW n \in L, m < n PROVE Cardinality(UpTo(m)) < Cardinality(UpTo(n))
  <2>0. m \in Nat /\ n \in Nat /\ \A j \in L : j \in Nat
    BY <1>0
  <2>1. UpTo(m) \subseteq UpTo(n) /\ n \in UpTo(n) /\ n \notin UpTo(m)
    <3>1. (\A j \in L : j <= m => j <= n) /\ n <= n /\ ~(n <= m)
      BY <1>2, <2>0
    <3> QED BY <3>1
  <2>a. PICK S : S = UpTo(n)
    OBVIOUS
  <2>b. PICK T : T = UpTo(m)
    OBVIOUS
  <2>2. T \subseteq S /\ S # T /\ IsFiniteSet(S) /\ Cardinality(S) \in Nat /\ Cardinality(T) \in Nat
    <3>1. /\ IsFiniteSet(UpTo(n)) /\ Cardinality(UpTo(n)) \in Nat
          /\ Cardinality(UpTo(m)) \in Nat
      BY <1>1
    <3> HIDE DEF UpTo
    <3> QED BY <2>1, <2>a, <2>b, <3>1
  <2>3. Cardinality(T) <= Cardinality(S) /\ Cardinality(S) # Cardinality(T)
    BY <2>2, FS_Subset
  <2> QED BY <2>2, <2>3, <2>a, <2>b
<1>3. ASSUME NEW m \in L, NEW n \in L, Cardinality(UpTo(m)) = Cardinality(UpTo(n)) PROVE m = n
  <2>1. Cardinality(UpTo(m)) \in Nat /\ Cardinality(UpTo(n)) \in Nat /\ m \in Nat /\ n \in Nat
    BY <1>1
  <2>2. ~(m < n) /\ ~(n < m)
    <3> HIDE DEF UpTo
    <3> QED BY <1>2, <1>3, <2>1
  <2> QED BY <2>1, <2>2
<1>4. Cardinality(L) \in Nat
  BY SubsetCount
<1> QED BY <1>1, <1>2, <1>3, <1>4 DEF Rank

(***************************************************************************)
(* Every place has exactly one name.                                         *)
(***************************************************************************)
LEMMA EveryPlace ==
    ASSUME NEW L \in SUBSET Names
    PROVE  /\ \A i \in 1..Cardinality(L) : AtRank(L, i) \in L /\ Rank(L, AtRank(L, i)) = i
           /\ \A n \in L : AtRank(L, Rank(L, n)) = n
<1> DEFINE f == [n \in L |-> Rank(L, n)]
           c == Cardinality(L)
<1>1. /\ c \in Nat
      /\ \A n \in L : Rank(L, n) \in 1..c
      /\ \A m, n \in L : Rank(L, m) = Rank(L, n) => m = n
  BY RankOrder
<1>2. IsFiniteSet(1..c) /\ Cardinality(1..c) = c
  BY <1>1, FS_Interval
<1>3. f \in Injection(L, 1..c)
  BY <1>1 DEF Injection, IsInjective
<1>4. f \in Surjection(L, 1..c)
  <2> HIDE DEF f
  <2> QED BY <1>2, <1>3, FS_Injection
<1>5. \A i \in 1..c : \E n \in L : Rank(L, n) = i
  BY <1>4 DEF Surjection
<1>6. \A i \in 1..c : AtRank(L, i) \in L /\ Rank(L, AtRank(L, i)) = i
  BY <1>5 DEF AtRank
<1> QED BY <1>1, <1>6

(***************************************************************************)
(* A name newer than all others comes last.                                  *)
(***************************************************************************)
LEMMA NewestAppends ==
    ASSUME NEW L \in SUBSET Names, NEW x \in Names, \A m \in L : m < x,
           NEW f \in [L -> Vault!Pair], NEW g \in [L \cup {x} -> Vault!Pair],
           \A m \in L : g[m] = f[m]
    PROVE  InOrder(L \cup {x}, g) = Append(InOrder(L, f), g[x])
<1> DEFINE M == L \cup {x}
           c == Cardinality(L)
           K == InOrder(L, f)
<1>0. x \notin L /\ x \in Nat /\ M \in SUBSET Names /\ Names \subseteq Nat
  BY SettingsAssumption DEF Names
<1>1. c \in Nat /\ Cardinality(M) = c + 1
  <2>1. IsFiniteSet(L) /\ c \in Nat
    BY SubsetCount
  <2> QED BY <1>0, <2>1, FS_AddElement
<1>2. \A m \in L : Rank(M, m) = Rank(L, m)
  <2>1. ASSUME NEW m \in L PROVE {k \in M : k <= m} = {k \in L : k <= m}
    BY <1>0
  <2> QED BY <2>1 DEF Rank
<1>3. Rank(M, x) = c + 1
  <2>0. \A k \in L : k \in Nat /\ k < x
    BY <1>0
  <2>1. {k \in M : k <= x} = M
    <3>1. \A k \in M : k <= x
      BY <1>0, <2>0
    <3> QED BY <3>1
  <2> QED BY <1>1, <2>1 DEF Rank
<1> HIDE DEF M
<1>4. AtRank(M, c + 1) = x
  BY <1>0, <1>3, EveryPlace DEF M
<1>5. ASSUME NEW i \in 1..c PROVE AtRank(M, i) = AtRank(L, i) /\ AtRank(L, i) \in L
  <2>1. AtRank(L, i) \in L /\ Rank(L, AtRank(L, i)) = i
    BY EveryPlace
  <2>2. AtRank(L, i) \in M /\ Rank(M, AtRank(L, i)) = i
    BY <1>2, <2>1 DEF M
  <2> QED BY <1>0, <2>1, <2>2, EveryPlace
<1>6. K \in Seq(Vault!Pair) /\ Len(K) = c
  <2>1. K = [i \in 1..c |-> f[AtRank(L, i)]] /\ \A i \in 1..c : f[AtRank(L, i)] \in Vault!Pair
    BY <1>5 DEF InOrder
  <2> QED BY <1>1, <2>1
<1>7. /\ g[x] \in Vault!Pair
      /\ Append(K, g[x]) = [i \in 1..(c + 1) |-> IF i = c + 1 THEN g[x] ELSE K[i]]
  <2>1. g[x] \in Vault!Pair
    OBVIOUS
  <2> HIDE DEF K, c
  <2>2. /\ Append(K, g[x]) \in Seq(Vault!Pair) /\ Len(Append(K, g[x])) = c + 1
        /\ Append(K, g[x])[c + 1] = g[x] /\ \A i \in 1..c : Append(K, g[x])[i] = K[i]
    BY <1>1, <1>6, <2>1
  <2> QED BY <1>1, <2>1, <2>2
<1>8. \A i \in 1..(c + 1) : g[AtRank(M, i)] = IF i = c + 1 THEN g[x] ELSE K[i]
  BY <1>1, <1>4, <1>5 DEF InOrder
<1>9. InOrder(M, g) = [i \in 1..(c + 1) |-> IF i = c + 1 THEN g[x] ELSE K[i]]
  BY <1>1, <1>8 DEF InOrder
<1> QED BY <1>7, <1>9 DEF M

(***************************************************************************)
(* Without one name the places after it move up.                             *)
(***************************************************************************)
LEMMA RemovalCloses ==
    ASSUME NEW L \in SUBSET Names, NEW n \in L, NEW f \in [L -> Vault!Pair],
           NEW g \in [L \ {n} -> Vault!Pair], \A m \in L \ {n} : g[m] = f[m]
    PROVE  LET K == InOrder(L, f)
               k == Rank(L, n)
           IN  /\ K \in Seq(Vault!Pair) /\ Len(K) = Cardinality(L) /\ k \in 1..Len(K)
               /\ InOrder(L \ {n}, g)
                     = [i \in 1..(Len(K) - 1) |-> IF i < k THEN K[i] ELSE K[i + 1]]
<1> DEFINE M == L \ {n}
           c == Cardinality(L)
           K == InOrder(L, f)
           k == Rank(L, n)
<1>0. n \in Nat /\ M \in SUBSET Names /\ Names \subseteq Nat
  BY SettingsAssumption DEF Names
<1>1. c \in Nat /\ Cardinality(M) = c - 1 /\ IsFiniteSet(L) /\ k \in 1..c
  <2>1. IsFiniteSet(L) /\ c \in Nat
    BY SubsetCount
  <2> QED BY <2>1, FS_RemoveElement, RankOrder
<1>2. ASSUME NEW m \in M PROVE Rank(M, m) = IF m < n THEN Rank(L, m) ELSE Rank(L, m) - 1
  <2>0. m \in Nat /\ m # n /\ m \in L
    BY <1>0
  <2>1. CASE m < n
    <3>1. {j \in M : j <= m} = {j \in L : j <= m}
      BY <1>0, <2>0, <2>1
    <3> QED BY <2>1, <3>1 DEF Rank
  <2>2. CASE ~(m < n)
    <3> PICK T : T = {j \in L : j <= m}
      OBVIOUS
    <3>1. {j \in M : j <= m} = T \ {n} /\ n \in T /\ IsFiniteSet(T)
      BY <1>0, <1>1, <2>0, <2>2, FS_Subset
    <3>2. Cardinality(T \ {n}) = Cardinality(T) - 1
      BY <3>1, FS_RemoveElement
    <3> QED BY <2>2, <3>1, <3>2 DEF Rank
  <2> QED BY <2>1, <2>2
<1>3. \A i \in 1..c : AtRank(L, i) \in L /\ Rank(L, AtRank(L, i)) = i
  BY EveryPlace
<1>4. ASSUME NEW i \in 1..(c - 1)
      PROVE  /\ AtRank(M, i) = IF i < k THEN AtRank(L, i) ELSE AtRank(L, i + 1)
             /\ AtRank(M, i) \in M
  <2> DEFINE m == IF i < k THEN AtRank(L, i) ELSE AtRank(L, i + 1)
  <2>1. /\ m \in L /\ Rank(L, m) = IF i < k THEN i ELSE i + 1
    BY <1>1, <1>3
  <2> HIDE DEF m
  <2>2. m # n /\ m \in M /\ m \in Nat
    BY <1>0, <1>1, <2>1
  <2>3. m < n <=> i < k
    <3>1. /\ m < n => Rank(L, m) < k
          /\ n < m => k < Rank(L, m)
      BY <2>1, RankOrder
    <3> HIDE DEF k
    <3>2. k \in Nat /\ i \in Nat
      BY <1>1
    <3> QED BY <1>0, <2>1, <2>2, <3>1, <3>2
  <2>4. Rank(M, m) = i
    BY <1>1, <1>2, <2>1, <2>2, <2>3
  <2>5. AtRank(M, i) = m
    <3> HIDE DEF M
    <3> QED BY <1>0, <2>2, <2>4, EveryPlace
  <2> QED BY <2>2, <2>5 DEF m
<1>5. K \in Seq(Vault!Pair) /\ Len(K) = c /\ \A i \in 1..c : K[i] = f[AtRank(L, i)]
  <2>1. K = [i \in 1..c |-> f[AtRank(L, i)]] /\ \A i \in 1..c : f[AtRank(L, i)] \in Vault!Pair
    BY <1>3 DEF InOrder
  <2> QED BY <1>1, <2>1
<1>6. ASSUME NEW i \in 1..(c - 1) PROVE g[AtRank(M, i)] = IF i < k THEN K[i] ELSE K[i + 1]
  <2>1. g[AtRank(M, i)] = f[AtRank(M, i)]
    BY <1>4
  <2>2. i \in 1..c /\ i + 1 \in 1..c
    BY <1>1
  <2> HIDE DEF K, k, M
  <2> QED BY <1>4, <1>5, <2>1, <2>2
<1>7. InOrder(M, g) = [i \in 1..(c - 1) |-> IF i < k THEN K[i] ELSE K[i + 1]]
  <2> HIDE DEF K, k
  <2> QED BY <1>1, <1>6 DEF InOrder
<1> QED BY <1>1, <1>5, <1>7

(***************************************************************************)
(* A change to one name shows at its place only.                             *)
(***************************************************************************)
LEMMA ChangeInPlace ==
    ASSUME NEW L \in SUBSET Names, NEW n \in L, NEW f \in [L -> Vault!Pair],
           NEW g \in [L -> Vault!Pair], \A m \in L \ {n} : g[m] = f[m]
    PROVE  InOrder(L, g) = [InOrder(L, f) EXCEPT ![Rank(L, n)] = g[n]]
<1> DEFINE c == Cardinality(L)
           k == Rank(L, n)
<1>1. \A i \in 1..c : /\ AtRank(L, i) \in L /\ Rank(L, AtRank(L, i)) = i
                      /\ i = k => AtRank(L, i) = n
  BY EveryPlace, RankOrder
<1>2. \A i \in 1..c : g[AtRank(L, i)] = IF i = k THEN g[n] ELSE f[AtRank(L, i)]
  BY <1>1
<1> QED BY <1>2 DEF InOrder

-----------------------------------------------------------------------------
(* What is pruned. *)

NewerThan(L, n) == {m \in L : m > n}

\* The names still to unlink are the oldest, and the retention count of pairs
\* is left beside each, but for those that other programs removed.
PruneOrder ==
    pc \in Pruning =>
        /\ \A n \in doomed, m \in Listed : m <= n => m \in doomed
        /\ \A n \in doomed : Cardinality(NewerThan(Listed, n)) + outside >= Retention

(***************************************************************************)
(* Fewer pairs, fewer newer ones: by one at most if one pair went.           *)
(***************************************************************************)
LEMMA NewerCount ==
    ASSUME NEW L \in SUBSET Names, NEW n
    PROVE  /\ Cardinality(NewerThan(L, n)) \in Nat
           /\ \A x : /\ Cardinality(NewerThan(L \ {x}, n)) \in Nat
                     /\ Cardinality(NewerThan(L, n)) <= Cardinality(NewerThan(L \ {x}, n)) + 1
<1>1. NewerThan(L, n) \in SUBSET Names
  BY DEF NewerThan
<1>2. ASSUME NEW x
      PROVE  /\ NewerThan(L \ {x}, n) \in SUBSET Names
             /\ NewerThan(L, n) \subseteq NewerThan(L \ {x}, n) \cup {x}
  BY DEF NewerThan
<1> QED BY <1>1, <1>2, OneMore

(***************************************************************************)
(* What list_backups(...)[:-retention_count] dooms are the oldest pairs.     *)
(***************************************************************************)
LEMMA DoomedAreOldest ==
    ASSUME Listed \in SUBSET Names
    PROVE  /\ \A n \in Doomed, m \in Listed : m <= n => m \in Doomed
           /\ \A n \in Doomed : Cardinality(NewerThan(Listed, n)) >= Retention
<1>1. Names \subseteq Nat /\ Retention \in Nat
  BY SettingsAssumption DEF Names
<1>2. ASSUME NEW n \in Doomed PROVE n \in Listed /\ Cardinality(NewerThan(Listed, n)) >= Retention
  BY DEF Doomed, NewerThan
<1>3. ASSUME NEW n \in Doomed, NEW m \in Listed, m <= n PROVE m \in Doomed
  <2>1. m \in Nat /\ n \in Nat /\ \A j \in Listed : j \in Nat
    BY <1>1, <1>2
  <2>2. \A j \in Listed : j > n => j > m
    BY <1>3, <2>1
  <2>3. NewerThan(Listed, n) \subseteq NewerThan(Listed, m) /\ NewerThan(Listed, m) \in SUBSET Names
    BY <2>2 DEF NewerThan
  <2>4. /\ Cardinality(NewerThan(Listed, n)) \in Nat /\ Cardinality(NewerThan(Listed, m)) \in Nat
        /\ Cardinality(NewerThan(Listed, n)) <= Cardinality(NewerThan(Listed, m))
    BY <2>3, SubsetCount
  <2>5. Cardinality(NewerThan(Listed, m)) >= Retention
    BY <1>1, <1>2, <2>4
  <2> QED BY <2>5 DEF Doomed, NewerThan
<1> QED BY <1>2, <1>3

(***************************************************************************)
(* Every step keeps the order of pruning.                                    *)
(***************************************************************************)
LEMMA PruneOrderStep ==
    ASSUME FilesInv, FilesInv', PruneOrder, Next
    PROVE  PruneOrder'
<1>0. /\ Retention \in Nat /\ Listed \in SUBSET Names /\ Listed' \in SUBSET Names
      /\ doomed \in SUBSET Nat /\ Listed \in SUBSET Nat
      /\ outside \in Nat /\ outside' \in {outside, outside + 1}
  <2>1. Names \subseteq Nat
    BY DEF Names
  <2>2. Listed \in SUBSET Names /\ Listed' \in SUBSET Names /\ doomed \in SUBSET Names
    BY ListedNames DEF Names, Listed, TypeOK, Files, FilesInv
  <2> QED BY <2>1, <2>2, SettingsAssumption, OutsideGrows DEF FilesInv
<1> USE DEF Pruning
<1>1. CASE pc' \notin Pruning
  BY <1>1 DEF PruneOrder
<1>2. CASE Prune
  <2>1. Listed' = Listed /\ doomed' = Doomed /\ outside' = outside
    BY <1>2 DEF Prune, Listed, dirVars, historyVars, faultVars
  <2>2. \A n \in Doomed : Cardinality(NewerThan(Listed, n)) \in Nat
    BY <1>0, NewerCount
  <2> QED BY <1>0, <2>1, <2>2, DoomedAreOldest DEF PruneOrder
<1>3. CASE UnlinkChecksum
  <2>1. PICK x : x = Oldest(doomed)
    OBVIOUS
  <2>2. x \in doomed /\ (\A n \in doomed : x <= n) /\ pc \in Pruning
    BY <1>0, <1>3, <2>1, OldestExists DEF UnlinkChecksum
  <2>3. Listed' = Listed \ {x} /\ doomed' = doomed /\ outside' = outside
    BY <1>3, <2>1 DEF UnlinkChecksum, Unlink, Listed, historyVars, faultVars
  <2>4. ASSUME NEW n \in doomed PROVE NewerThan(Listed', n) = NewerThan(Listed, n)
    <3>1. ~(x > n) /\ x <= n
      BY <1>0, <2>2
    <3> QED BY <2>3, <3>1 DEF NewerThan
  <2> QED BY <2>2, <2>3, <2>4 DEF PruneOrder
<1>4. CASE UnlinkBackup
  <2>1. PICK x : x = Oldest(doomed)
    OBVIOUS
  <2>2. x \notin DOMAIN sums /\ pc \in Pruning
    BY <1>4, <2>1 DEF UnlinkBackup, FilesInv, OwnFiles
  <2>3. Listed' = Listed /\ doomed' = doomed \ {x} /\ outside' = outside /\ x \notin Listed
    BY <1>4, <2>1, <2>2 DEF UnlinkBackup, Unlink, Listed, historyVars, faultVars
  <2> QED BY <2>2, <2>3 DEF PruneOrder
<1>5. ASSUME NEW n \in Listed, Lose(n) PROVE PruneOrder'
  <2>1. Listed' = Listed \ {n} /\ UNCHANGED <<pc, doomed>> /\ outside' = outside + 1
    BY <1>5 DEF Lose, Outside, Unlink, Listed, callVars
  <2>2. ASSUME NEW d \in doomed, pc \in Pruning
        PROVE  Cardinality(NewerThan(Listed', d)) + outside' >= Retention
    <3>1. /\ Cardinality(NewerThan(Listed, d)) \in Nat
          /\ Cardinality(NewerThan(Listed', d)) \in Nat
          /\ Cardinality(NewerThan(Listed, d)) <= Cardinality(NewerThan(Listed', d)) + 1
      BY <1>0, <2>1, NewerCount
    <3>2. Cardinality(NewerThan(Listed, d)) + outside >= Retention
      BY <2>2 DEF PruneOrder
    <3> QED BY <1>0, <2>1, <3>1, <3>2
  <2> QED BY <2>1, <2>2 DEF PruneOrder
<1>6. ASSUME Listed' = Listed, UNCHANGED <<pc, doomed>> PROVE PruneOrder'
  <2>1. ASSUME NEW d \in doomed, pc \in Pruning
        PROVE  Cardinality(NewerThan(Listed, d)) + outside' >= Retention
    <3>1. Cardinality(NewerThan(Listed, d)) \in Nat
      BY <1>0, NewerCount
    <3>2. Cardinality(NewerThan(Listed, d)) + outside >= Retention
      BY <2>1 DEF PruneOrder
    <3> QED BY <1>0, <3>1, <3>2
  <2> QED BY <1>6, <2>1 DEF PruneOrder
<1>7. ASSUME NEW n, NEW content,
             WriteConfig(content) \/ GarbleChecksum(n) \/ Damage(n, content)
      PROVE  PruneOrder'
  BY <1>6, <1>7 DEF WriteConfig, GarbleChecksum, Damage, Listed, dirVars, callVars
<1>8. CASE \/ CreateBackup \/ BackupTemp \/ ChecksumTemp \/ PlaceChecksum \/ PlaceBackup
           \/ WriteManifest \/ ManifestFails \/ PlaceManifest
           \/ Restore \/ Verify \/ ReadBackup \/ ConfigTemp
           \/ PlaceConfig \/ IOError \/ CleanUpFails \/ Crash
  BY <1>1, <1>8 DEF CreateBackup, BackupTemp, ChecksumTemp, PlaceChecksum, PlaceBackup,
        WriteManifest, ManifestFails,
        PlaceManifest, Restore, Verify, ReadBackup, ConfigTemp, PlaceConfig,
        IOError, CleanUpFails, Crash, WriteTemp, Leave
<1> QED BY <1>2, <1>3, <1>4, <1>5, <1>7, <1>8 DEF Next, Call, Fault

-----------------------------------------------------------------------------
(* The complete pairs, oldest first. *)

PairOf(y, s) ==
    [n \in DOMAIN y \cap DOMAIN s |->
        [content |-> y[n], intact |-> s[n] = y[n], legible |-> s[n] # None]]

KeptOf(y, s) == InOrder(DOMAIN y \cap DOMAIN s, PairOf(y, s))

(***************************************************************************)
(* Sequences without their first, and without any one, element.              *)
(***************************************************************************)
LEMMA WithoutOne ==
    ASSUME NEW S, NEW K \in Seq(S)
    PROVE  /\ Vault!Without(K, 0) = K
           /\ K # <<>> => Vault!Without(K, 1) = [i \in 1..(Len(K) - 1) |-> K[i + 1]]
           /\ \A k \in 1..Len(K) :
                 SubSeq(K, 1, k - 1) \o Vault!Without(K, k)
                    = [i \in 1..(Len(K) - 1) |-> IF i < k THEN K[i] ELSE K[i + 1]]
<1>0. Len(K) \in Nat /\ K = [i \in 1..Len(K) |-> K[i]] /\ \A i \in 1..Len(K) : K[i] \in S
  OBVIOUS
<1>1. Vault!Without(K, 0) = K
  BY <1>0 DEF Vault!Without
<1>2. ASSUME K # <<>> PROVE Vault!Without(K, 1) = [i \in 1..(Len(K) - 1) |-> K[i + 1]]
  BY <1>0, <1>2 DEF Vault!Without
<1>3. ASSUME NEW k \in 1..Len(K)
      PROVE  SubSeq(K, 1, k - 1) \o Vault!Without(K, k)
                = [i \in 1..(Len(K) - 1) |-> IF i < k THEN K[i] ELSE K[i + 1]]
  <2>a. PICK A : A = SubSeq(K, 1, k - 1)
    OBVIOUS
  <2>b. PICK B : B = Vault!Without(K, k)
    OBVIOUS
  <2>1. A \in Seq(S) /\ Len(A) = k - 1 /\ \A i \in 1..(k - 1) : A[i] = K[i]
    BY <1>0, <2>a
  <2>2. B \in Seq(S) /\ Len(B) = Len(K) - k /\ \A i \in 1..(Len(K) - k) : B[i] = K[i + k]
    BY <1>0, <2>b DEF Vault!Without
  <2>c. PICK C : C = A \o B
    OBVIOUS
  <2>3. /\ C \in Seq(S) /\ Len(C) = Len(A) + Len(B)
        /\ \A i \in 1..(Len(A) + Len(B)) : C[i] = IF i <= Len(A) THEN A[i] ELSE B[i - Len(A)]
    <3>1. A \in Seq(S) /\ B \in Seq(S)
      BY <2>1, <2>2
    <3> QED BY ONLY <2>c, <3>1
  <2>4. ASSUME NEW i \in 1..(Len(K) - 1) PROVE C[i] = IF i < k THEN K[i] ELSE K[i + 1]
    <3>1. CASE i < k
      BY <1>0, <2>1, <2>2, <2>3, <3>1
    <3>2. CASE ~(i < k)
      <4>1. C[i] = B[i - Len(A)] /\ i - Len(A) = i - k + 1 /\ i - k + 1 \in 1..(Len(K) - k)
        BY <1>0, <2>1, <2>2, <2>3, <3>2
      <4>2. B[i - k + 1] = K[i - k + 1 + k] /\ i - k + 1 + k = i + 1
        BY <1>0, <2>2, <4>1
      <4> QED BY <3>2, <4>1, <4>2
    <3> QED BY <3>1, <3>2
  <2>5. C = [i \in 1..(Len(K) - 1) |-> IF i < k THEN K[i] ELSE K[i + 1]]
    <3>1. Len(C) = Len(K) - 1 /\ C = [i \in 1..Len(C) |-> C[i]]
      BY <1>0, <2>1, <2>2, <2>3
    <3> QED BY <2>4, <3>1
  <2> QED BY <2>5, <2>a, <2>b, <2>c
<1> QED BY <1>1, <1>2, <1>3

(***************************************************************************)
(* What the pairs are made of.                                               *)
(***************************************************************************)
LEMMA PairsShape ==
    ASSUME NEW y \in Files(Contents), NEW s \in Files(Digests)
    PROVE  /\ DOMAIN y \cap DOMAIN s \in SUBSET Names
           /\ PairOf(y, s) \in [DOMAIN y \cap DOMAIN s -> Vault!Pair]
           /\ KeptOf(y, s) \in Seq(Vault!Pair)
           /\ Len(KeptOf(y, s)) = Cardinality(DOMAIN y \cap DOMAIN s)
           /\ \A n \in DOMAIN y \cap DOMAIN s :
                 /\ Rank(DOMAIN y \cap DOMAIN s, n) \in 1..Len(KeptOf(y, s))
                 /\ KeptOf(y, s)[Rank(DOMAIN y \cap DOMAIN s, n)] = PairOf(y, s)[n]
<1> DEFINE L == DOMAIN y \cap DOMAIN s
           f == PairOf(y, s)
           K == KeptOf(y, s)
<1>1. /\ L \in SUBSET Names
      /\ f \in [L -> Vault!Pair]
  <2>1. DOMAIN y \subseteq Names /\ \A n \in L : y[n] \in Contents
    BY FilesShape
  <2> QED BY <2>1 DEF PairOf, Vault!Pair
<1>2. /\ Cardinality(L) \in Nat
      /\ K = [i \in 1..Cardinality(L) |-> f[AtRank(L, i)]]
      /\ \A i \in 1..Cardinality(L) : AtRank(L, i) \in L
      /\ \A n \in L : Rank(L, n) \in 1..Cardinality(L) /\ AtRank(L, Rank(L, n)) = n
  BY <1>1, SubsetCount, EveryPlace, RankOrder DEF KeptOf, InOrder
<1> HIDE DEF K, L, f
<1>3. K \in Seq(Vault!Pair) /\ Len(K) = Cardinality(L)
  BY <1>1, <1>2
<1> QED BY <1>1, <1>2, <1>3 DEF K, L, f

(***************************************************************************)
(* Kept, before and after a step, lists the pairs by rank.                   *)
(***************************************************************************)
LEMMA KeptIsOrdered ==
    ASSUME TypeOK, TypeOK'
    PROVE  /\ yaml \in Files(Contents) /\ sums \in Files(Digests)
           /\ yaml' \in Files(Contents) /\ sums' \in Files(Digests)
           /\ Kept = KeptOf(yaml, sums) /\ Kept' = KeptOf(yaml', sums')
<1>1. /\ yaml \in Files(Contents) /\ sums \in Files(Digests)
      /\ yaml' \in Files(Contents) /\ sums' \in Files(Digests)
  BY DEF TypeOK
<1>2. ASSUME NEW y \in Files(Contents), NEW s \in Files(Digests)
      PROVE  KeptOf(y, s) = [i \in 1..Cardinality(DOMAIN y \cap DOMAIN s) |->
                LET n == AtRank(DOMAIN y \cap DOMAIN s, i)
                IN  [content |-> y[n],
                     intact |-> n \in DOMAIN y \cap DOMAIN s /\ s[n] = y[n],
                     legible |-> s[n] # None]]
  <2>1. \A i \in 1..Cardinality(DOMAIN y \cap DOMAIN s) :
           AtRank(DOMAIN y \cap DOMAIN s, i) \in DOMAIN y \cap DOMAIN s
    BY PairsShape, EveryPlace
  <2> QED BY <2>1 DEF KeptOf, InOrder, PairOf
<1>3. /\ Kept = [i \in 1..Cardinality(DOMAIN yaml \cap DOMAIN sums) |->
                   LET n == AtRank(DOMAIN yaml \cap DOMAIN sums, i)
                   IN  [content |-> yaml[n],
                        intact |-> n \in DOMAIN yaml \cap DOMAIN sums /\ sums[n] = yaml[n],
                        legible |-> sums[n] # None]]
      /\ Kept' = [i \in 1..Cardinality(DOMAIN yaml' \cap DOMAIN sums') |->
                   LET n == AtRank(DOMAIN yaml' \cap DOMAIN sums', i)
                   IN  [content |-> yaml'[n],
                        intact |-> n \in DOMAIN yaml' \cap DOMAIN sums' /\ sums'[n] = yaml'[n],
                        legible |-> sums'[n] # None]]
  BY DEF Kept, Listed, Verifies, Legible, AtRank, Rank
<1> QED BY <1>1, <1>2, <1>3

(***************************************************************************)
(* Whoever leaves the listed files alone leaves the vault alone.             *)
(***************************************************************************)
LEMMA SamePairs ==
    ASSUME TypeOK, TypeOK', Listed' = Listed,
           \A n \in Listed : yaml'[n] = yaml[n] /\ sums'[n] = sums[n]
    PROVE  Kept' = Kept
<1>1. PairOf(yaml', sums') = PairOf(yaml, sums)
  BY DEF PairOf, Listed
<1>2. KeptOf(yaml', sums') = KeptOf(yaml, sums)
  BY <1>1 DEF KeptOf, Listed
<1> QED BY <1>2, KeptIsOrdered

(***************************************************************************)
(* os.replace of the backup puts a snapshot at the end.                      *)
(***************************************************************************)
LEMMA VaultTakes ==
    ASSUME FilesInv, FilesInv', PlaceBackup, stepbacks' = 0
    PROVE  \E content \in Good : Vault!Take(content)
<1>0. TypeOK /\ TypeOK'
  BY DEF FilesInv
<1>1. /\ yaml \in Files(Contents) /\ sums \in Files(Digests)
      /\ yaml' \in Files(Contents)
      /\ Kept = KeptOf(yaml, sums) /\ Kept' = KeptOf(yaml', sums)
  <2>1. sums' = sums
    BY DEF PlaceBackup
  <2> QED BY <1>0, <2>1, KeptIsOrdered
<1>2. /\ name \in Names /\ name = clock /\ name \notin DOMAIN yaml
      /\ name \in DOMAIN sums /\ sums[name] = contents /\ contents \in Good
  BY <1>0 DEF FilesInv, PlaceBackup, OwnFiles, Snapshots, Unplaced, Creating, TypeOK
<1>3. \A m \in Listed : m < name
  <2>1. \A m \in Listed : m <= clock /\ m # name
    BY <1>2 DEF FilesInv, NewestLast, PlaceBackup, clockVars, Listed
  <2>2. clock \in Nat /\ \A m \in Listed : m \in Nat
    BY <1>0, <1>2, ListedNames DEF Names
  <2> QED BY <1>2, <2>1, <2>2
<1> DEFINE f == PairOf(yaml, sums)
           g == PairOf(yaml', sums)
<1>4. /\ DOMAIN yaml \cap DOMAIN sums = Listed
      /\ DOMAIN yaml' \cap DOMAIN sums = Listed \cup {name}
  BY <1>2 DEF PlaceBackup, Write, Listed
<1>5. /\ \A m \in Listed : g[m] = f[m]
      /\ g[name] = Vault!Snapshot(contents)
  <2>1. yaml'[name] = contents /\ \A m \in Listed : yaml'[m] = yaml[m]
    BY <1>2 DEF PlaceBackup, Write, Listed
  <2>2. contents # None
    BY <1>2, SettingsAssumption
  <2> QED BY <1>2, <1>4, <2>1, <2>2 DEF PairOf, Vault!Snapshot
<1>6. /\ Listed \in SUBSET Names
      /\ f \in [Listed -> Vault!Pair] /\ g \in [Listed \cup {name} -> Vault!Pair]
  BY <1>1, <1>4, PairsShape
<1>7. KeptOf(yaml', sums) = Append(KeptOf(yaml, sums), g[name])
  <2>1. InOrder(Listed \cup {name}, g) = Append(InOrder(Listed, f), g[name])
    <3> HIDE DEF f, g
    <3>1. /\ Listed \in SUBSET Names /\ name \in Names /\ \A m \in Listed : m < name
          /\ f \in [Listed -> Vault!Pair] /\ g \in [Listed \cup {name} -> Vault!Pair]
          /\ \A m \in Listed : g[m] = f[m]
      BY <1>2, <1>3, <1>5, <1>6
    <3> QED BY <3>1, NewestAppends
  <2> QED BY <1>4, <2>1 DEF KeptOf
<1>8. Kept' = Vault!WithSnapshot(contents)
  BY <1>1, <1>5, <1>7 DEF Vault!WithSnapshot
<1>9. /\ Vault!WithSnapshot(contents) \in Seq(Vault!Pair)
      /\ Vault!Without(Vault!WithSnapshot(contents), 0) = Vault!WithSnapshot(contents)
  <2>1. Kept' \in Seq(Vault!Pair)
    BY <1>1, PairsShape
  <2> QED BY <1>8, <2>1, WithoutOne
<1>10. 0 \in 0..Vault!Excess(Vault!WithSnapshot(contents))
  <2>1. PICK k : k = Len(Vault!WithSnapshot(contents))
    OBVIOUS
  <2>2. k \in Nat /\ Retention \in Nat
    BY <1>9, <2>1, SettingsAssumption
  <2> QED BY <2>1, <2>2 DEF Vault!Excess
<1>11. Vault!Take(contents)
  BY <1>2, <1>8, <1>9, <1>10 DEF Vault!Take
<1> QED BY <1>2, <1>11

(***************************************************************************)
(* A pair of which one file goes, and no other pair, closes its place.       *)
(***************************************************************************)
LEMMA PairGoes ==
    ASSUME TypeOK, TypeOK', NEW n \in Listed, Listed' = Listed \ {n},
           \A m \in Listed' : yaml'[m] = yaml[m] /\ sums'[m] = sums[m]
    PROVE  LET k == Rank(Listed, n)
           IN  /\ Kept \in Seq(Vault!Pair) /\ Len(Kept) = Cardinality(Listed)
               /\ k \in 1..Len(Kept) /\ k \in DOMAIN Kept
               /\ Kept' = SubSeq(Kept, 1, k - 1) \o Vault!Without(Kept, k)
               /\ k = 1 => Kept' = Vault!Without(Kept, 1)
<1> DEFINE f == PairOf(yaml, sums)
           g == PairOf(yaml', sums')
           k == Rank(Listed, n)
<1>1. /\ Kept = InOrder(Listed, f) /\ Kept' = InOrder(Listed \ {n}, g)
      /\ Listed \in SUBSET Names
      /\ f \in [Listed -> Vault!Pair] /\ g \in [Listed \ {n} -> Vault!Pair]
  <2>1. /\ DOMAIN yaml \cap DOMAIN sums = Listed
        /\ DOMAIN yaml' \cap DOMAIN sums' = Listed \ {n}
    BY DEF Listed
  <2> QED BY <2>1, KeptIsOrdered, PairsShape DEF KeptOf
<1>2. \A m \in Listed \ {n} : g[m] = f[m]
  BY DEF PairOf, Listed
<1> HIDE DEF f, g
<1>3. /\ Kept \in Seq(Vault!Pair) /\ Len(Kept) = Cardinality(Listed) /\ k \in 1..Len(Kept)
      /\ Kept' = [i \in 1..(Len(Kept) - 1) |-> IF i < k THEN Kept[i] ELSE Kept[i + 1]]
  <2>1. LET K == InOrder(Listed, f)
        IN  /\ K \in Seq(Vault!Pair) /\ Len(K) = Cardinality(Listed) /\ k \in 1..Len(K)
            /\ InOrder(Listed \ {n}, g)
                  = [i \in 1..(Len(K) - 1) |-> IF i < k THEN K[i] ELSE K[i + 1]]
    BY <1>1, <1>2, RemovalCloses
  <2> QED BY <1>1, <2>1
<1>a. PICK K : K = Kept
  OBVIOUS
<1>4. Kept' = SubSeq(Kept, 1, k - 1) \o Vault!Without(Kept, k)
  <2> HIDE DEF k
  <2>1. K \in Seq(Vault!Pair) /\ k \in 1..Len(K)
    BY <1>3, <1>a
  <2>2. SubSeq(K, 1, k - 1) \o Vault!Without(K, k)
            = [i \in 1..(Len(K) - 1) |-> IF i < k THEN K[i] ELSE K[i + 1]]
    BY <2>1, WithoutOne
  <2> QED BY <1>3, <1>a, <2>2
<1>5. ASSUME k = 1 PROVE Kept' = Vault!Without(Kept, 1)
  <2> HIDE DEF k
  <2>1. K \in Seq(Vault!Pair) /\ K # <<>> /\ Len(K) \in Nat
    BY <1>3, <1>a, <1>5
  <2>2. Vault!Without(K, 1) = [i \in 1..(Len(K) - 1) |-> K[i + 1]]
    BY <2>1, WithoutOne
  <2>3. [i \in 1..(Len(K) - 1) |-> IF i < k THEN K[i] ELSE K[i + 1]]
            = [i \in 1..(Len(K) - 1) |-> K[i + 1]]
    BY <1>5, <2>1
  <2> QED BY <1>3, <1>a, <2>2, <2>3
<1>6. k \in DOMAIN Kept
  <2> HIDE DEF k
  <2> QED BY <1>3
<1> QED BY <1>3, <1>4, <1>5, <1>6

(***************************************************************************)
(* Unlinking the checksum of a doomed pair removes the oldest pair, and the  *)
(* retention count is left but for what other programs removed.  If the pair *)
(* is gone already nothing changes.                                          *)
(***************************************************************************)
LEMMA VaultPrunes ==
    ASSUME FilesInv, FilesInv', PruneOrder, UnlinkChecksum
    PROVE  Vault!Prune \/ Kept' = Kept
<1>0. TypeOK /\ TypeOK' /\ pc \in Pruning /\ Retention \in Nat /\ outside \in Nat
  BY SettingsAssumption DEF FilesInv, UnlinkChecksum, Pruning, TypeOK
<1>1. /\ doomed # {} /\ doomed \in SUBSET Nat
      /\ Listed \in SUBSET Names /\ Listed \in SUBSET Nat
  <2>1. Listed \in SUBSET Names /\ doomed \in SUBSET Names /\ Names \subseteq Nat
    BY <1>0, ListedNames DEF TypeOK, Names
  <2> QED BY <2>1 DEF UnlinkChecksum
<1>2. PICK x : x = Oldest(doomed)
  OBVIOUS
<1>3. x \in doomed /\ x \in Nat /\ \A n \in doomed : x <= n
  BY <1>1, <1>2, OldestExists
<1>4. /\ Listed' = Listed \ {x}
      /\ \A m \in Listed' : yaml'[m] = yaml[m] /\ sums'[m] = sums[m]
  BY <1>2 DEF UnlinkChecksum, Unlink, Listed
<1>5. CASE x \notin Listed
  <2>1. Listed' = Listed
    BY <1>4, <1>5
  <2> QED BY <1>0, <1>4, <2>1, SamePairs
<1>6. CASE x \in Listed
  <2>1. \A m \in Listed : m \in Nat /\ (m <= x => x <= m)
    BY <1>0, <1>1, <1>3 DEF PruneOrder
  <2>2. \A m \in Listed : (m <= x <=> m = x) /\ (m > x <=> m # x)
    BY <1>3, <2>1
  <2>3. Rank(Listed, x) = 1
    <3>1. {m \in Listed : m <= x} = {x}
      BY <1>6, <2>2
    <3> QED BY <3>1, FS_Singleton DEF Rank
  <2>4. 1 \in 1..Len(Kept) /\ Kept' = Vault!Without(Kept, 1) /\ Len(Kept) = Cardinality(Listed)
    BY <1>0, <1>4, <1>6, <2>3, PairGoes
  <2>5. Cardinality(NewerThan(Listed, x)) = Cardinality(Listed) - 1 /\ Cardinality(Listed) \in Nat
    <3>1. NewerThan(Listed, x) = Listed \ {x}
      BY <2>2 DEF NewerThan
    <3>2. IsFiniteSet(Listed) /\ Cardinality(Listed) \in Nat
      BY <1>1, SubsetCount
    <3> QED BY <1>6, <3>1, <3>2, FS_RemoveElement
  <2>6. Cardinality(NewerThan(Listed, x)) + outside >= Retention
    BY <1>0, <1>3 DEF PruneOrder
  <2>7. 1 + Retention <= Len(Kept) + outside
    BY <1>0, <2>4, <2>5, <2>6
  <2> QED BY <2>4, <2>7 DEF Vault!Prune
<1> QED BY <1>5, <1>6

(***************************************************************************)
(* A pair that another program removes is lost at its place.                 *)
(***************************************************************************)
LEMMA VaultLoses ==
    ASSUME FilesInv, FilesInv', NEW n \in Listed, Lose(n)
    PROVE  \E k \in DOMAIN Kept : Vault!Lose(k)
<1>1. /\ Listed' = Listed \ {n} /\ outside' = outside + 1
      /\ \A m \in Listed' : yaml'[m] = yaml[m] /\ sums'[m] = sums[m]
  BY DEF Lose, Outside, Unlink, Listed
<1>2. PICK k : k = Rank(Listed, n)
  OBVIOUS
<1>3. k \in DOMAIN Kept /\ Kept' = SubSeq(Kept, 1, k - 1) \o Vault!Without(Kept, k)
  BY <1>1, <1>2, PairGoes DEF FilesInv
<1> QED BY <1>1, <1>3 DEF Vault!Lose

(***************************************************************************)
(* A pair of which another program overwrites one half is damaged at its     *)
(* place.                                                                    *)
(***************************************************************************)
LEMMA VaultDamaged ==
    ASSUME FilesInv, FilesInv', NEW n \in Listed, NEW content \in Contents,
           Damage(n, content) \/ GarbleChecksum(n)
    PROVE  \E k \in DOMAIN Kept, pair \in Vault!Pair : Vault!Damage(k, pair)
<1> DEFINE f == PairOf(yaml, sums)
           g == PairOf(yaml', sums')
<1>1. /\ Listed' = Listed /\ outside' = outside + 1
      /\ \A m \in Listed \ {n} : yaml'[m] = yaml[m] /\ sums'[m] = sums[m]
  BY DEF Damage, GarbleChecksum, Outside, Listed
<1>2. DOMAIN yaml \cap DOMAIN sums = Listed /\ DOMAIN yaml' \cap DOMAIN sums' = Listed
  BY <1>1 DEF Listed
<1>d. sums'[n] # yaml'[n]
  <2>1. CASE Damage(n, content)
    BY <2>1 DEF Damage, Listed, Verifies
  <2>2. CASE GarbleChecksum(n)
    <3>1. sums'[n] = None /\ yaml'[n] = yaml[n]
      BY <2>2 DEF GarbleChecksum, Listed
    <3>2. yaml[n] \in Contents
      BY ListedNames DEF FilesInv, Listed
    <3> QED BY <3>1, <3>2, SettingsAssumption DEF Contents
  <2> QED BY <2>1, <2>2
<1>3. (\A m \in Listed \ {n} : g[m] = f[m]) /\ ~g[n].intact
  BY <1>1, <1>2, <1>d DEF PairOf
<1>4. /\ yaml \in Files(Contents) /\ sums \in Files(Digests)
      /\ yaml' \in Files(Contents) /\ sums' \in Files(Digests)
      /\ Kept = InOrder(Listed, f) /\ Kept' = InOrder(Listed, g)
  BY <1>2, KeptIsOrdered DEF FilesInv, KeptOf
<1>5. PICK k : k = Rank(Listed, n)
  OBVIOUS
<1>6. /\ Listed \in SUBSET Names
      /\ f \in [Listed -> Vault!Pair] /\ g \in [Listed -> Vault!Pair]
      /\ k \in 1..Len(Kept) /\ Kept \in Seq(Vault!Pair)
  BY <1>2, <1>4, <1>5, PairsShape DEF KeptOf
<1> HIDE DEF f, g
<1>7. Kept' = [Kept EXCEPT ![k] = g[n]]
  <2>1. InOrder(Listed, g) = [InOrder(Listed, f) EXCEPT ![Rank(Listed, n)] = g[n]]
    <3>1. /\ Listed \in SUBSET Names /\ n \in Listed
          /\ f \in [Listed -> Vault!Pair] /\ g \in [Listed -> Vault!Pair]
          /\ \A m \in Listed \ {n} : g[m] = f[m]
      BY <1>3, <1>6
    <3> QED BY ONLY <3>1, ChangeInPlace
  <2> QED BY <1>4, <1>5, <2>1
<1>8. k \in DOMAIN Kept /\ g[n] \in Vault!Pair
  BY <1>6
<1> QED BY <1>1, <1>3, <1>7, <1>8 DEF Vault!Damage

(***************************************************************************)
(* Every other step, an error and the clean-up it leads to included, leaves  *)
(* the vault as it is.                                                       *)
(***************************************************************************)
LEMMA VaultUntouched ==
    ASSUME FilesInv, FilesInv',
           \/ CreateBackup \/ BackupTemp \/ ChecksumTemp \/ PlaceChecksum \/ Prune
           \/ UnlinkBackup \/ WriteManifest \/ ManifestFails \/ PlaceManifest \/ Restore \/ Verify
           \/ ReadBackup \/ ConfigTemp \/ PlaceConfig \/ IOError \/ CleanUpFails \/ Crash
           \/ \E content \in Contents : WriteConfig(content)
    PROVE  Kept' = Kept
<1>0. TypeOK /\ TypeOK'
  BY DEF FilesInv
<1>1. CASE UNCHANGED <<yaml, sums>>
  <2>1. Listed' = Listed
    BY <1>1 DEF Listed
  <2> QED BY <1>0, <1>1, <2>1, SamePairs
<1>2. CASE PlaceChecksum
  <2>1. name \notin DOMAIN yaml
    BY <1>2 DEF PlaceChecksum, FilesInv, OwnFiles, Unplaced
  <2>2. Listed' = Listed /\ \A n \in Listed : yaml'[n] = yaml[n] /\ sums'[n] = sums[n]
    BY <1>2, <2>1 DEF PlaceChecksum, Write, Listed
  <2> QED BY <1>0, <2>2, SamePairs
<1>3. CASE UnlinkBackup
  <2>1. Oldest(doomed) \notin DOMAIN sums
    BY <1>3 DEF UnlinkBackup, FilesInv, OwnFiles
  <2>2. Listed' = Listed /\ \A n \in Listed : yaml'[n] = yaml[n] /\ sums'[n] = sums[n]
    BY <1>3, <2>1 DEF UnlinkBackup, Unlink, Listed
  <2> QED BY <1>0, <2>2, SamePairs
<1>4. CASE IOError
  <2>1. yaml' = yaml /\ (sums' = sums \/ (name \notin DOMAIN yaml /\ sums' = Unlink(sums, name)))
    BY <1>4 DEF IOError, SumsCleaned
  <2>2. Listed' = Listed /\ \A n \in Listed : yaml'[n] = yaml[n] /\ sums'[n] = sums[n]
    BY <2>1 DEF Unlink, Listed
  <2> QED BY <1>0, <2>2, SamePairs
<1>5. CASE \/ CreateBackup \/ BackupTemp \/ ChecksumTemp \/ Prune
           \/ WriteManifest \/ ManifestFails \/ PlaceManifest \/ Restore \/ Verify
           \/ ReadBackup \/ ConfigTemp \/ PlaceConfig \/ CleanUpFails \/ Crash
           \/ \E content \in Contents : WriteConfig(content)
  BY <1>1, <1>5 DEF CreateBackup, BackupTemp, ChecksumTemp, Prune, WriteManifest, ManifestFails,
        PlaceManifest,
        Restore, Verify, ReadBackup, ConfigTemp, PlaceConfig, CleanUpFails, Crash, WriteConfig,
        dirVars
<1> QED BY <1>2, <1>3, <1>4, <1>5

(***************************************************************************)
(* What is pruned is the oldest at every step.                               *)
(***************************************************************************)
LEMMA PruneOrderInvariant == Spec => []PruneOrder
<1>1. Init => PruneOrder
  BY DEF Init, PruneOrder, Pruning
<1>2. FilesInv /\ FilesInv' /\ PruneOrder /\ [Next]_vars => PruneOrder'
  <2>1. ASSUME FilesInv, FilesInv', PruneOrder, Next PROVE PruneOrder'
    BY <2>1, PruneOrderStep
  <2>2. ASSUME PruneOrder, UNCHANGED vars PROVE PruneOrder'
    BY <2>2 DEF PruneOrder, vars, callVars, dirVars, historyVars, faultVars, Listed
  <2> QED BY <2>1, <2>2
<1> QED BY <1>1, <1>2, FilesInvariant, PTL DEF Spec

(***************************************************************************)
(* The backup directory implements the vault: whatever call is cut off,      *)
(* fails or cleans up after itself, the complete pairs only gain a snapshot  *)
(* at the end, lose the oldest beyond the retention count, or change by the  *)
(* hand of another program, as long as the clock has not stepped back.       *)
(***************************************************************************)
THEOREM FilesImplementVault == Spec => ImplementsVault
<1>1. Init => Vault!Init
  <2> SUFFICES ASSUME Init PROVE Kept = <<>> /\ outside = 0
    BY DEF Vault!Init
  <2>1. Listed = {}
    <3>1. DOMAIN yaml = {}
      BY DEF Init
    <3> QED BY <3>1 DEF Listed
  <2>2. Cardinality(Listed) = 0
    BY <2>1, FS_EmptySet
  <2> QED BY <2>2 DEF Kept, Init
<1>2. FilesInv /\ FilesInv' /\ PruneOrder /\ [Next]_vars
        => [stepbacks' = 0 => Vault!Next]_Kept
  <2>1. ASSUME FilesInv, FilesInv', PruneOrder, Next, stepbacks' = 0
        PROVE  Vault!Next \/ Kept' = Kept
    <3>1. CASE PlaceBackup
      BY <2>1, <3>1, VaultTakes DEF Vault!Next
    <3>2. CASE UnlinkChecksum
      BY <2>1, <3>2, VaultPrunes DEF Vault!Next
    <3>3. ASSUME NEW n \in Listed, Lose(n) PROVE Vault!Next
      BY <2>1, <3>3, VaultLoses DEF Vault!Next
    <3>4. ASSUME NEW n \in Listed, NEW content \in Contents,
                 Damage(n, content) \/ GarbleChecksum(n)
          PROVE  Vault!Next
      BY <2>1, <3>4, VaultDamaged DEF Vault!Next
    <3>5. CASE \/ CreateBackup \/ BackupTemp \/ ChecksumTemp \/ PlaceChecksum \/ Prune
               \/ UnlinkBackup
               \/ WriteManifest \/ ManifestFails \/ PlaceManifest \/ Restore \/ Verify
               \/ ReadBackup \/ ConfigTemp \/ PlaceConfig \/ IOError \/ CleanUpFails \/ Crash
               \/ \E content \in Contents : WriteConfig(content)
      BY <2>1, <3>5, VaultUntouched
    <3>6. Contents # {}
      BY <2>1 DEF FilesInv, TypeOK
    <3> QED BY <2>1, <3>1, <3>2, <3>3, <3>4, <3>5, <3>6 DEF Next, Call, Fault
  <2>2. ASSUME UNCHANGED vars PROVE Kept' = Kept
    BY <2>2 DEF vars, dirVars, Kept, Listed, Verifies, Legible
  <2> QED BY <2>1, <2>2
<1> QED BY <1>1, <1>2, FilesInvariant, PruneOrderInvariant, PTL DEF Spec, ImplementsVault

=============================================================================
