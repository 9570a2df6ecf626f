------------------------------ MODULE Guardian ------------------------------
(***************************************************************************)
(* contracts/src/Guardian.sol.  One action per external function that      *)
(* writes; the conjuncts before the updates are the conditions under which *)
(* it does not revert, and a call that reverts changes nothing.  Calls of  *)
(* all accounts come in any order, as the chain orders them.               *)
(*                                                                         *)
(* log holds the events the contracts emitted, in order: all that an       *)
(* auditor who reads the chain has.                                        *)
(***************************************************************************)
EXTENDS Naturals, Sequences

CONSTANTS
    Accounts, ZeroAddress,
    Owner, InitialKeeper,           \* arguments of the constructor
    Refs, ZeroHash,                 \* incident references and reason hashes
    Severities,                     \* what callers pass, allowed or not
    MaxLog                          \* bound: events emitted

\* The constructor reverts otherwise.
ASSUME ConstructorAssumption ==
    /\ {Owner, InitialKeeper} \subseteq Accounts \ {ZeroAddress}
    /\ Owner # InitialKeeper
    /\ Severities \subseteq Nat /\ MaxLog \in Nat \ {0}

VARIABLES paused, keepers, usedIncidentRefs, log

guardianVars == <<paused, keepers, usedIncidentRefs>>

Emit(event) == Len(log) < MaxLog /\ log' = Append(log, event)

KeeperUpdated(keeper, allowed) ==
    [type |-> "KeeperUpdated", keeper |-> keeper, allowed |-> allowed]

Paused(ref, severity, keeper) ==
    [type |-> "Paused", ref |-> ref, severity |-> severity, keeper |-> keeper]

Unpaused(reason, owner) == [type |-> "Unpaused", ref |-> reason, owner |-> owner]

GuardianInit ==
    /\ paused = FALSE
    /\ keepers = {InitialKeeper}
    /\ usedIncidentRefs = {}
    /\ log = <<KeeperUpdated(InitialKeeper, TRUE)>>

\* Mutant of RolesDiffer: the owner may become a keeper.
RolesDifferMutant(keeper, allowed) == TRUE

RolesDiffer(keeper, allowed) == ~(keeper = Owner /\ allowed)

\* Mutant of KeepersAfter: revoking grants.
KeepersAfterMutant(keeper, allowed) == keepers \cup {keeper}

KeepersAfter(keeper, allowed) ==
    IF allowed THEN keepers \cup {keeper} ELSE keepers \ {keeper}

SetKeeper(sender, keeper, allowed) ==
    /\ sender = Owner
    /\ keeper # ZeroAddress
    /\ RolesDiffer(keeper, allowed)
    /\ keepers' = KeepersAfter(keeper, allowed)
    /\ Emit(KeeperUpdated(keeper, allowed))
    /\ UNCHANGED <<paused, usedIncidentRefs>>

\* Mutant of Unused: a reference may pause again once its pause is over.
UnusedMutant(ref) == ~paused

Unused(ref) == ref \notin usedIncidentRefs

Pause(sender, ref, severity) ==
    /\ sender \in keepers
    /\ ref # ZeroHash
    /\ severity \in 1..3
    /\ Unused(ref)
    /\ ~paused
    /\ usedIncidentRefs' = usedIncidentRefs \cup {ref}
    /\ paused' = TRUE
    /\ Emit(Paused(ref, severity, sender))
    /\ UNCHANGED keepers

Unpause(sender, reason) ==
    /\ sender = Owner
    /\ reason # ZeroHash
    /\ paused
    /\ paused' = FALSE
    /\ Emit(Unpaused(reason, sender))
    /\ UNCHANGED <<keepers, usedIncidentRefs>>

GuardianNext ==
    \E sender \in Accounts :
        \/ \E keeper \in Accounts, allowed \in BOOLEAN : SetKeeper(sender, keeper, allowed)
        \/ \E ref \in Refs, severity \in Severities : Pause(sender, ref, severity)
        \/ \E reason \in Refs : Unpause(sender, reason)

-----------------------------------------------------------------------------
(* What the log says. *)

Positions(type) == {i \in DOMAIN log : log[i].type = type}

\* The last event before position i of one of the types, if there is one.
IsLast(j, i, types) ==
    /\ j < i /\ log[j].type \in types
    /\ \A k \in j + 1..i - 1 : log[k].type \notin types

PausedAt(i) == \E j \in DOMAIN log : IsLast(j, i, {"Paused", "Unpaused"}) /\ log[j].type = "Paused"

KeeperAt(account, i) ==
    \E j \in Positions("KeeperUpdated") :
        /\ j < i /\ log[j].keeper = account /\ log[j].allowed
        /\ \A k \in Positions("KeeperUpdated") : (j < k /\ k < i) => log[k].keeper # account

(***************************************************************************)
(* ES-FR-001 and ES-FR-011, read off the log: pauses and unpauses          *)
(* alternate, a pause was made by an account the log shows as keeper at    *)
(* that point, and each incident reference paused once.                    *)
(***************************************************************************)
PausesAreAuthorised ==
    \A i \in Positions("Paused") :
        /\ ~PausedAt(i)
        /\ KeeperAt(log[i].keeper, i)
        /\ \A j \in Positions("Paused") : log[j].ref = log[i].ref => j = i

(***************************************************************************)
(* Safety invariant 2, "human owner alone can unpause": an unpause ends a  *)
(* pause and was made by an account that was never able to pause, however  *)
(* roles were handed out and taken back before.                            *)
(***************************************************************************)
UnpausesAreHuman ==
    \A i \in Positions("Unpaused") :
        /\ PausedAt(i)
        /\ \A j \in 1..i : ~KeeperAt(log[i].owner, j)

(***************************************************************************)
(* The log is a complete audit: the state is what it says it is.           *)
(***************************************************************************)
LogTellsState ==
    /\ paused <=> PausedAt(Len(log) + 1)
    /\ keepers = {account \in Accounts : KeeperAt(account, Len(log) + 1)}
    /\ usedIncidentRefs = {log[i].ref : i \in Positions("Paused")}

=============================================================================
