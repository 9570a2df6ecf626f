----------------------------- MODULE BackupFiles -----------------------------
(***************************************************************************)
(* app/backup.py and restore_backup of app/recovery.py, one file operation *)
(* at a time.  A file is there or not, and os.replace puts a complete file *)
(* in place.  A digest is the content it was computed from.  The process   *)
(* may die at any step, an operation may raise an OSError, other programs  *)
(* write the live config and the backup directory, and the wall clock that *)
(* names the backups may step back.                                        *)
(*                                                                         *)
(* A controller runs one of these calls at a time (they do not await), so  *)
(* there is one pc.  Two backups never carry the same name: names have     *)
(* microseconds.                                                           *)
(***************************************************************************)
EXTENDS Integers, FiniteSets, Sequences

CONSTANTS
    Good, Bad, None,                \* contents of a config file; no content
    MaxClock, MaxAdvance,           \* bounds: names are 1..MaxClock; between two backups
    Retention,
    MaxStepBacks, MaxCrashes, MaxErrors, MaxOutside     \* bounds

ASSUME SettingsAssumption ==
    /\ Retention \in Nat \ {0} /\ None \notin Good \cup Bad
    /\ {MaxClock, MaxAdvance, MaxStepBacks, MaxCrashes, MaxErrors, MaxOutside} \subseteq Nat

VARIABLES
    config,                         \* the live config file
    yaml, sums, manifest,           \* name -> content, name -> digest, None when the checksum
                                    \* file is not ASCII text; the manifest's entries
    pc, name, contents, doomed, draft,      \* the call under way and its locals
    temps, litter,                  \* its temporary files; those left by earlier calls
    clock, stepbacks,               \* the last name given, how often the clock stepped back
    crashes, errors, outside,       \* how often each happened
    taken,                          \* history: every content a backup was made of
    call,                           \* history: how the last create_backup went
    raced                           \* history: the backup changed behind verify_backup

callVars == <<pc, name, contents, doomed, draft, temps>>
dirVars == <<yaml, sums, manifest>>
clockVars == <<clock, stepbacks>>
faultVars == <<crashes, errors, outside>>

historyVars == <<litter, faultVars, taken, call, raced>>

vars == <<config, dirVars, callVars, clockVars, historyVars>>

Contents == Good \cup Bad

Digests == Contents \cup {None}

Names == 1..MaxClock

Files(C) == UNION {[N -> C] : N \in SUBSET Names}

Newest(N) == CHOOSE n \in N : \A m \in N : m <= n

Write(files, n, content) ==
    [m \in DOMAIN files \cup {n} |-> IF m = n THEN content ELSE files[m]]

Unlink(files, n) == [m \in DOMAIN files \ {n} |-> files[m]]

\* list_backups: only complete pairs.
Listed == DOMAIN yaml \cap DOMAIN sums

\* Mutant of Verifies: any complete pair will do.
VerifiesMutant(n) == n \in Listed

Verifies(n) == n \in Listed /\ sums[n] = yaml[n]

Init ==
    /\ config \in Good
    /\ yaml = <<>> /\ sums = <<>> /\ manifest = <<>>
    /\ pc = "idle" /\ name = 0 /\ contents = None /\ doomed = {} /\ draft = <<>>
    /\ temps = {} /\ litter = 0
    /\ clock = 0 /\ stepbacks = 0
    /\ crashes = 0 /\ errors = 0 /\ outside = 0
    /\ taken = {} /\ call = "disturbed" /\ raced = FALSE

\* The call is over, by a return or by an exception: its locals are gone.
Leave ==
    /\ pc' = "idle" /\ name' = 0 /\ contents' = None /\ doomed' = {} /\ draft' = <<>>
    /\ temps' = {}

-----------------------------------------------------------------------------
(* create_backup. *)

\* datetime.now: usually later than the last name, and no name of a file.
ReadClock(t) ==
    /\ clock' = t /\ t \notin DOMAIN yaml \cup DOMAIN sums
    /\ \/ t \in clock + 1..clock + MaxAdvance /\ UNCHANGED stepbacks
       \/ t < clock /\ stepbacks < MaxStepBacks /\ stepbacks' = stepbacks + 1

\* Read and validate the live config; an invalid one changes nothing.
CreateBackup ==
    /\ pc = "idle" /\ config \in Good
    /\ \E t \in Names : ReadClock(t) /\ name' = t
    /\ contents' = config
    /\ taken' = taken \cup {config}
    /\ call' = "running"
    /\ pc' = "backup_temp"
    /\ UNCHANGED <<config, dirVars, doomed, draft, temps, litter, faultVars, raced>>

WriteTemp(kind, from, to) ==
    /\ pc = from /\ pc' = to
    /\ temps' = temps \cup {kind}

BackupTemp ==
    /\ WriteTemp("backup", "backup_temp", "checksum_temp")
    /\ UNCHANGED <<config, dirVars, name, contents, doomed, draft, clockVars, historyVars>>

ChecksumTemp ==
    /\ WriteTemp("checksum", "checksum_temp", "place_checksum")
    /\ UNCHANGED <<config, dirVars, name, contents, doomed, draft, clockVars, historyVars>>

PlaceChecksum ==
    /\ pc = "place_checksum" /\ pc' = "place_backup"
    /\ sums' = Write(sums, name, contents)
    /\ temps' = temps \ {"checksum"}
    /\ UNCHANGED <<config, yaml, manifest, name, contents, doomed, draft, clockVars, historyVars>>

PlaceBackup ==
    /\ pc = "place_backup" /\ pc' = "prune"
    /\ yaml' = Write(yaml, name, contents)
    /\ temps' = temps \ {"backup"}
    /\ UNCHANGED <<config, sums, manifest, name, contents, doomed, draft, clockVars, historyVars>>

\* Mutant of Doomed: one pair more is kept.
DoomedMutant == {n \in Listed : Cardinality({m \in Listed : m > n}) > Retention}

\* Mutant of Doomed: one pair too many goes.
DoomedEarlyMutant == {n \in Listed : Cardinality({m \in Listed : m >= n}) >= Retention}

\* list_backups(...)[:-retention_count].
Doomed == {n \in Listed : Cardinality({m \in Listed : m > n}) >= Retention}

Prune ==
    /\ pc = "prune" /\ pc' = "unlink_checksum"
    /\ doomed' = Doomed
    /\ UNCHANGED <<config, dirVars, name, contents, draft, temps, clockVars, historyVars>>

\* The loop goes through the doomed names from the oldest; both unlinks
\* accept that the file is gone.
Oldest(N) == CHOOSE n \in N : \A m \in N : n <= m

UnlinkChecksum ==
    /\ pc = "unlink_checksum" /\ doomed # {}
    /\ sums' = Unlink(sums, Oldest(doomed))
    /\ pc' = "unlink_backup"
    /\ UNCHANGED <<config, yaml, manifest, name, contents, doomed, draft, temps, clockVars,
                   historyVars>>

UnlinkBackup ==
    /\ pc = "unlink_backup"
    /\ yaml' = Unlink(yaml, Oldest(doomed))
    /\ doomed' = doomed \ {Oldest(doomed)}
    /\ pc' = "unlink_checksum"
    /\ UNCHANGED <<config, sums, manifest, name, contents, draft, temps, clockVars, historyVars>>

\* What read_text(encoding="ascii") decodes.
Legible(n) == sums[n] # None

\* _write_manifest: the listing and the checksums as they are now.
WriteManifest ==
    /\ doomed = {} /\ WriteTemp("manifest", "unlink_checksum", "place_manifest")
    /\ \A n \in Listed : Legible(n)
    /\ draft' = [n \in Listed |-> sums[n]]
    /\ UNCHANGED <<config, dirVars, name, contents, doomed, clockVars, historyVars>>

\* One checksum cannot be decoded: UnicodeDecodeError, no manifest.
ManifestFails ==
    /\ pc = "unlink_checksum" /\ doomed = {}
    /\ \E n \in Listed : ~Legible(n)
    /\ Leave /\ call' = "disturbed"
    /\ UNCHANGED <<config, dirVars, clockVars, litter, faultVars, taken, raced>>

PlaceManifest ==
    /\ pc = "place_manifest" /\ Leave
    /\ manifest' = draft
    /\ call' = IF call = "running" THEN "returned" ELSE call
    /\ UNCHANGED <<config, yaml, sums, clockVars, litter, faultVars, taken, raced>>

-----------------------------------------------------------------------------
(* restore_backup of the latest backup. *)

Restore ==
    /\ pc = "idle" /\ Listed # {}
    /\ name' = Newest(Listed)
    /\ pc' = "verify"
    /\ UNCHANGED <<config, dirVars, contents, doomed, draft, temps, clockVars, historyVars>>

\* verify_backup reads both files; a failed read is a failed verification.
Verify ==
    /\ pc = "verify"
    /\ \/ /\ Verifies(name) /\ pc' = "read"
          /\ UNCHANGED <<name, contents, doomed, draft, temps>>
       \/ ~Verifies(name) /\ Leave
    /\ raced' = FALSE
    /\ UNCHANGED <<config, dirVars, clockVars, litter, faultVars, taken, call>>

\* read_bytes once more; a file that is gone raises.
ReadBackup ==
    /\ pc = "read"
    /\ \/ /\ name \in DOMAIN yaml /\ contents' = yaml[name] /\ pc' = "config_temp"
          /\ UNCHANGED <<name, doomed, draft, temps>>
       \/ name \notin DOMAIN yaml /\ Leave
    /\ UNCHANGED <<config, dirVars, clockVars, historyVars>>

ConfigTemp ==
    /\ WriteTemp("config", "config_temp", "place_config")
    /\ UNCHANGED <<config, dirVars, name, contents, doomed, draft, clockVars, historyVars>>

PlaceConfig ==
    /\ pc = "place_config" /\ Leave
    /\ config' = contents
    /\ UNCHANGED <<dirVars, clockVars, historyVars>>

-----------------------------------------------------------------------------
(* What goes wrong. *)

\* The except clauses that remove the temporary files.
Guarded == {"place_checksum", "place_backup", "place_manifest", "place_config"}

\* Mutant of SumsCleaned: the checksum without a backup stays.
SumsCleanedMutant == sums

\* _write_backup_pair also takes back a checksum that has no backup.
SumsCleaned ==
    IF pc \in {"place_checksum", "place_backup"} /\ name \notin DOMAIN yaml
    THEN Unlink(sums, name) ELSE sums

\* An operation raises: the call ends in its except clause, if it is in one.
IOError ==
    /\ pc # "idle"
    /\ errors < MaxErrors /\ errors' = errors + 1
    /\ sums' = SumsCleaned
    /\ litter' = litter + IF pc \in Guarded THEN 0 ELSE Cardinality(temps)
    /\ Leave /\ call' = "disturbed"
    /\ UNCHANGED <<config, yaml, manifest, clockVars, crashes, outside, taken, raced>>

\* The except clause raises too, at its first unlink or at a later one.
CleanUpFails ==
    /\ pc \in Guarded
    /\ errors + 1 < MaxErrors /\ errors' = errors + 2
    /\ \E left \in 0..Cardinality(temps) : litter' = litter + left
    /\ Leave /\ call' = "disturbed"
    /\ UNCHANGED <<config, dirVars, clockVars, crashes, outside, taken, raced>>

\* The process dies, perhaps while it writes one more temporary file.
Crash ==
    /\ pc # "idle"
    /\ crashes < MaxCrashes /\ crashes' = crashes + 1
    /\ \E partial \in IF pc \in {"backup_temp", "checksum_temp", "unlink_checksum", "config_temp"}
                      THEN {0, 1} ELSE {0} :
          litter' = litter + Cardinality(temps) + partial
    /\ Leave /\ call' = "disturbed"
    /\ UNCHANGED <<config, dirVars, clockVars, errors, outside, taken, raced>>

Outside == outside < MaxOutside /\ outside' = outside + 1

WriteConfig(content) ==
    /\ Outside
    /\ content # config /\ config' = content
    /\ UNCHANGED <<dirVars, callVars, clockVars, litter, crashes, errors, taken, call, raced>>

Damage(n, content) ==
    /\ Outside
    /\ Verifies(n) /\ content # yaml[n]
    /\ yaml' = [yaml EXCEPT ![n] = content]
    /\ raced' = (raced \/ (pc = "read" /\ n = name))
    /\ call' = "disturbed"
    /\ UNCHANGED <<config, sums, manifest, callVars, clockVars, litter, crashes, errors, taken>>

\* The checksum file is no text any more.  One that is text, but wrong, does not
\* verify and can be quoted: like a damaged YAML half.
GarbleChecksum(n) ==
    /\ Outside
    /\ Legible(n) /\ sums' = [sums EXCEPT ![n] = None]
    /\ call' = "disturbed"
    /\ UNCHANGED <<config, yaml, manifest, callVars, clockVars, litter, crashes, errors, taken,
                   raced>>

Lose(n) ==
    /\ Outside
    /\ \/ yaml' = Unlink(yaml, n) /\ UNCHANGED sums
       \/ sums' = Unlink(sums, n) /\ UNCHANGED yaml
    /\ call' = "disturbed"
    /\ UNCHANGED <<config, manifest, callVars, clockVars, litter, crashes, errors, taken, raced>>

Call ==
    \/ CreateBackup \/ BackupTemp \/ ChecksumTemp \/ PlaceChecksum \/ PlaceBackup
    \/ Prune \/ UnlinkChecksum \/ UnlinkBackup
    \/ WriteManifest \/ ManifestFails \/ PlaceManifest
    \/ Restore \/ Verify \/ ReadBackup \/ ConfigTemp \/ PlaceConfig

Fault ==
    \/ IOError \/ CleanUpFails \/ Crash
    \/ \E content \in Contents : WriteConfig(content)
    \/ \E n \in Listed : \/ Lose(n) \/ GarbleChecksum(n)
                         \/ \E content \in Contents : Damage(n, content)

Next == Call \/ Fault

Spec == Init /\ [][Next]_vars

-----------------------------------------------------------------------------
(* Properties. *)

\* Files of a pair whose other half is missing.
Orphans == (DOMAIN yaml \ DOMAIN sums) \cup (DOMAIN sums \ DOMAIN yaml)

(***************************************************************************)
(* Every variable has its type.                                            *)
(***************************************************************************)
TypeOK ==
    /\ config \in Contents /\ contents \in Contents \cup {None} /\ taken \subseteq Good
    /\ {yaml, manifest, draft} \subseteq Files(Contents) /\ sums \in Files(Digests)
    /\ pc \in {"idle", "backup_temp", "checksum_temp", "place_checksum", "place_backup", "prune",
               "unlink_checksum", "unlink_backup", "place_manifest", "verify", "read",
               "config_temp", "place_config"}
    /\ name \in Names \cup {0} /\ clock \in Names \cup {0} /\ doomed \subseteq Names
    /\ temps \subseteq {"backup", "checksum", "manifest", "config"} /\ litter \in Nat
    /\ stepbacks \in 0..MaxStepBacks /\ crashes \in 0..MaxCrashes
    /\ errors \in 0..MaxErrors /\ outside \in 0..MaxOutside
    /\ call \in {"disturbed", "running", "returned"} /\ raced \in BOOLEAN

(***************************************************************************)
(* FR-008: restore_backup puts only a config in place of which a backup    *)
(* was made, whatever was damaged, lost or left half done before it looked *)
(* at the checksum.  Between that look and the second read nothing guards  *)
(* it (raced).                                                             *)
(***************************************************************************)
InstallsSnapshots ==
    [][(config' # config /\ outside' = outside) => config' \in taken \/ raced]_vars

(***************************************************************************)
(* AC-024: a create_backup that returned, and that no other program        *)
(* disturbed, leaves at most Retention pairs, a manifest of exactly those, *)
(* and only pairs that verify or were damaged earlier, also when an        *)
(* earlier call was cut off anywhere and when the clock stepped back.  If  *)
(* it never did, get_latest_backup returns the backup taken last; after a  *)
(* step back another is the last by name and this one may be pruned.       *)
(***************************************************************************)
ManifestTellsRetained ==
    call = "returned" =>
        /\ manifest = [n \in Listed |-> sums[n]]
        /\ Cardinality(Listed) <= Retention
        /\ Cardinality({n \in Listed : ~Verifies(n)}) <= outside
        /\ stepbacks = 0 => clock \in Listed /\ clock = Newest(Listed)

(***************************************************************************)
(* FR-007: no call leaves files behind but for a fault.  One error leaves  *)
(* at most one file (the backup's temporary file, when the checksum's      *)
(* cannot be written; a YAML file that could not be unlinked), a death of  *)
(* the process at most two.  A checksum without a backup takes a death, or *)
(* an error in the except clause as well.  A call that is cut off before   *)
(* it has pruned leaves one pair beyond the retention count.               *)
(***************************************************************************)
LitterAccounted ==
    pc = "idle" =>
        /\ litter + Cardinality(Orphans) <= 2 * crashes + errors + outside
        /\ Cardinality(DOMAIN sums \ DOMAIN yaml) <= crashes + errors \div 2 + outside
        /\ Cardinality(Listed) <= Retention + crashes + errors

(***************************************************************************)
(* The complete pairs, oldest first, are a BackupVault: no crash, error or *)
(* clean-up makes a pair enter that is not a snapshot or drops one that is *)
(* not the oldest beyond the retention count.  Names order the pairs, so   *)
(* this ends when the clock steps back.                                    *)
(***************************************************************************)
Kept ==
    [i \in 1..Cardinality(Listed) |->
        LET n == CHOOSE n \in Listed : Cardinality({m \in Listed : m <= n}) = i
        IN  [content |-> yaml[n], intact |-> Verifies(n), legible |-> Legible(n)]]

Vault == INSTANCE BackupVault WITH kept <- Kept

ImplementsVault == Vault!Init /\ [][stepbacks' = 0 => Vault!Next]_Kept

=============================================================================
