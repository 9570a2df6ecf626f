------------------------------ MODULE StateStore ------------------------------
(***************************************************************************)
(* The durable state of the sentinel: sentinel/store.py.  Each public      *)
(* method that writes runs in one SQLite transaction (BEGIN IMMEDIATE ...  *)
(* COMMIT), so at this level it is one atomic action.  A call that returns *)
(* False or raises rolls back and is a stuttering step here; module        *)
(* StoreTransactions takes the calls apart into statements, gives every    *)
(* caller its result, and shows that it implements this specification.     *)
(*                                                                         *)
(* A table is a function from the primary keys present in it to rows.      *)
(* Payloads, fee data, evidence and timestamps are kept only where a       *)
(* decision reads them: fee_data, outcome_evidence, the latch's reason and *)
(* created_at never are, so they are left out.                             *)
(***************************************************************************)
EXTENDS DecimalText, FiniteSets

CONSTANTS
    Sources, EventIds, Payloads,    \* identities are non-empty strings
    Positions,                      \* sequence arguments callers pass
    Blocks,                         \* block arguments callers pass
    IntentIds, IncidentIds,
    Nonces,                         \* nonce arguments callers pass
    Hashes,                         \* well-formed transaction hashes
    Null,                           \* SQL NULL in a nullable column
    MaxInteger,                     \* the largest SQLite INTEGER, 2^63 - 1
    MaxAudit                        \* bound: rows the audit table may reach

ASSUME ArgumentAssumption ==
    /\ Positions \subseteq Int
    /\ Blocks \subseteq Int
    /\ Nonces \subseteq Int
    /\ MaxInteger \in Nat
    /\ MaxAudit \in Nat

ASSUME NullAssumption == Null \notin Hashes /\ Null \notin Int

\* What the code relies on of Python's str and int: digits out, same number back.
ASSUME DecimalAssumption ==
    \A n \in Positions : n >= 0 => Str[n] \in Text /\ IntOf[Str[n]] = n

VARIABLES
    events, cursors, incidents, intents, intent_events,
    latch,                          \* TRUE when the singleton row exists
    outbox, audit

vars == <<events, cursors, incidents, intents, intent_events, latch, outbox, audit>>

-----------------------------------------------------------------------------
(* The schema. *)

Outcome == {"success", "reverted", "already_desired", "indeterminate"}

Unfinished == {"reserved", "prepared", "broadcast", "indeterminate"}

Status == Unfinished \cup Outcome

Receipt == {"success", "reverted"}

IsTable(table, Keys, Row) ==
    DOMAIN table \subseteq Keys /\ table \in [DOMAIN table -> Row]

SQLInteger == 0..MaxInteger

EventRow == [source : Sources, sequence : Text, block_number : SQLInteger,
             payload : Payloads]

CursorRow == [sequence : Text, block_number : SQLInteger]

IntentRow == [incident_id : IncidentIds, status : Status,
              nonce : SQLInteger \cup {Null}, tx_hash : Hashes \cup {Null}]

OutboxRow == [intent : IntentIds, outcome : Outcome]

AuditRow == [intent : IntentIds, transition : Status]

\* INSERT of a row, or the UPDATE of the row with that key.
Put(table, key, row) ==
    [k \in DOMAIN table \cup {key} |-> IF k = key THEN row ELSE table[k]]

(***************************************************************************)
(* Every field of every table has the type its column declares.            *)
(***************************************************************************)
TypeOK ==
    /\ IsTable(events, EventIds, EventRow)
    /\ IsTable(cursors, Sources, CursorRow)
    /\ IsTable(incidents, IncidentIds, SUBSET EventIds)
    /\ IsTable(intents, IntentIds, IntentRow)
    /\ IsTable(intent_events, EventIds, IntentIds)
    /\ latch \in BOOLEAN
    /\ outbox \in Seq(OutboxRow)
    /\ audit \in Seq(AuditRow)

EmptyTable == [key \in {} |-> Null]

\* A new database file; opening an existing one creates nothing.
Init ==
    /\ events = EmptyTable /\ cursors = EmptyTable /\ incidents = EmptyTable
    /\ intents = EmptyTable /\ intent_events = EmptyTable
    /\ latch = FALSE /\ outbox = <<>> /\ audit = <<>>

-----------------------------------------------------------------------------
(* ingest *)

ValidPosition(sequence, block) == sequence >= 0 /\ block >= 0

\* Mutant of Storable: any Python int is stored.
StorableMutant(n) == TRUE

\* sqlite3 refuses to bind a Python int outside the signed 64-bit range.
Storable(n) == n <= MaxInteger

NewEvent(event_id) == event_id \notin DOMAIN events

\* Mutant of AdvancesCursor: the stored texts are compared as texts.
AdvancesCursorMutant(source, sequence) ==
    source \notin DOMAIN cursors
        \/ TextLess(cursors[source].sequence, Str[sequence])

AdvancesCursor(source, sequence) ==
    source \notin DOMAIN cursors \/ sequence > IntOf[cursors[source].sequence]

Ingest(source, event_id, sequence, block, payload) ==
    /\ ValidPosition(sequence, block)
    /\ NewEvent(event_id)
    /\ Storable(block)
    /\ events' = Put(events, event_id,
                     [source |-> source, sequence |-> Str[sequence],
                      block_number |-> block, payload |-> payload])
    /\ cursors' = IF AdvancesCursor(source, sequence)
                  THEN Put(cursors, source,
                           [sequence |-> Str[sequence], block_number |-> block])
                  ELSE cursors
    /\ UNCHANGED <<incidents, intents, intent_events, latch, outbox, audit>>

-----------------------------------------------------------------------------
(* reserve: exclusivity of the one unfinished intent and of its events *)

UnfinishedIntents == {i \in DOMAIN intents : intents[i].status \in Unfinished}

\* Mutant of ReservationBlocked: only the latch is consulted.
ReservationBlockedMutant == latch

ReservationBlocked == latch \/ UnfinishedIntents # {}

NewIntent(intent) == intent \notin DOMAIN intents

\* Mutant of Reservable: an event of a finished intent may be reserved again.
ReservableMutant(event) == event \in DOMAIN events

Reservable(event) == event \notin DOMAIN intent_events /\ event \in DOMAIN events

\* PRIMARY KEY of incidents: a second INSERT raises and rolls back.
NewIncident(incident) == incident \notin DOMAIN incidents

AuditAppend(intent, transition) ==
    /\ Len(audit) < MaxAudit
    /\ audit' = Append(audit, [intent |-> intent, transition |-> transition])

Reserve(intent, incident, event_ids) ==
    /\ event_ids # {}
    /\ ~ReservationBlocked
    /\ NewIntent(intent)
    /\ \A event \in event_ids : Reservable(event)
    /\ NewIncident(incident)
    /\ incidents' = Put(incidents, incident, event_ids)
    /\ intents' = Put(intents, intent,
                      [incident_id |-> incident, status |-> "reserved",
                       nonce |-> Null, tx_hash |-> Null])
    /\ intent_events' = [e \in DOMAIN intent_events \cup event_ids |->
                            IF e \in event_ids THEN intent ELSE intent_events[e]]
    /\ AuditAppend(intent, "reserved")
    /\ UNCHANGED <<events, cursors, latch, outbox>>

-----------------------------------------------------------------------------
(* prepare and broadcast: UPDATE ... WHERE id = ? AND status = ? *)

HasStatus(intent, statuses) ==
    intent \in DOMAIN intents /\ intents[intent].status \in statuses

\* Mutant of Prepare: preparing again replaces the nonce.
PrepareMutant(intent, nonce) ==
    /\ nonce >= 0 /\ Storable(nonce)
    /\ HasStatus(intent, {"reserved", "prepared"})
    /\ intents' = [intents EXCEPT ![intent].status = "prepared",
                                  ![intent].nonce = nonce]
    /\ AuditAppend(intent, "prepared")
    /\ UNCHANGED <<events, cursors, incidents, intent_events, latch, outbox>>

Prepare(intent, nonce) ==
    /\ nonce >= 0 /\ Storable(nonce)
    /\ HasStatus(intent, {"reserved"})
    /\ intents' = [intents EXCEPT ![intent].status = "prepared",
                                  ![intent].nonce = nonce]
    /\ AuditAppend(intent, "prepared")
    /\ UNCHANGED <<events, cursors, incidents, intent_events, latch, outbox>>

Broadcast(intent, tx_hash) ==
    /\ HasStatus(intent, {"prepared"})
    /\ intents' = [intents EXCEPT ![intent].status = "broadcast",
                                  ![intent].tx_hash = tx_hash]
    /\ AuditAppend(intent, "broadcast")
    /\ UNCHANGED <<events, cursors, incidents, intent_events, latch, outbox>>

-----------------------------------------------------------------------------
(* finish: the verifier's outcome, the latch and the notification *)

\* Mutant of OutcomeAllowed: a receipt is accepted without a persisted hash.
OutcomeAllowedHashlessMutant(intent, outcome) ==
    /\ HasStatus(intent, Unfinished)
    /\ outcome \in Receipt => HasStatus(intent, {"broadcast", "indeterminate"})
    /\ outcome = "already_desired" => HasStatus(intent, {"reserved"})

\* The conditions finish tests before it writes anything.
OutcomeAllowed(intent, outcome) ==
    /\ HasStatus(intent, Unfinished)
    /\ outcome \in Receipt =>
          /\ HasStatus(intent, {"broadcast", "indeterminate"})
          /\ intents[intent].tx_hash # Null
    /\ outcome = "already_desired" => HasStatus(intent, {"reserved"})

\* Mutant of LatchAfter: a later certain outcome clears the latch.
LatchAfterMutant(outcome) == outcome = "indeterminate"

LatchAfter(outcome) == latch \/ outcome = "indeterminate"

\* Mutant of Finish: no second notification once the store is latched.
FinishMutant(intent, outcome) ==
    /\ OutcomeAllowed(intent, outcome)
    /\ intents' = [intents EXCEPT ![intent].status = outcome]
    /\ latch' = LatchAfter(outcome)
    /\ AuditAppend(intent, outcome)
    /\ outbox' = IF latch THEN outbox
                 ELSE Append(outbox, [intent |-> intent, outcome |-> outcome])
    /\ UNCHANGED <<events, cursors, incidents, intent_events>>

Finish(intent, outcome) ==
    /\ OutcomeAllowed(intent, outcome)
    /\ intents' = [intents EXCEPT ![intent].status = outcome]
    /\ latch' = LatchAfter(outcome)
    /\ AuditAppend(intent, outcome)
    /\ outbox' = Append(outbox, [intent |-> intent, outcome |-> outcome])
    /\ UNCHANGED <<events, cursors, incidents, intent_events>>

-----------------------------------------------------------------------------
Next ==
    \/ \E source \in Sources, id \in EventIds, sequence \in Positions,
          block \in Blocks, payload \in Payloads :
          Ingest(source, id, sequence, block, payload)
    \/ \E intent \in IntentIds, incident \in IncidentIds, ids \in SUBSET EventIds :
          Reserve(intent, incident, ids)
    \/ \E intent \in IntentIds, nonce \in Nonces : Prepare(intent, nonce)
    \/ \E intent \in IntentIds, tx_hash \in Hashes : Broadcast(intent, tx_hash)
    \/ \E intent \in IntentIds, outcome \in Outcome : Finish(intent, outcome)

Spec == Init /\ [][Next]_vars

-----------------------------------------------------------------------------
(* Safety. *)

(***************************************************************************)
(* At most one intent is unfinished, whatever was reserved, prepared or    *)
(* reconciled before: reserve's SELECT over the unfinished statuses, with  *)
(* finish as the only way out, makes the action a singleton.               *)
(***************************************************************************)
OneUnfinished ==
    \A i, j \in DOMAIN intents :
        (intents[i].status \in Unfinished /\ intents[j].status \in Unfinished) => i = j

(***************************************************************************)
(* One canonical event reserves at most one action, for ever: the events   *)
(* an intent owns are exactly the source_ids of its incident, there is at  *)
(* least one, all were ingested, and no incident serves two intents.       *)
(***************************************************************************)
EventsOwnedOnce ==
    /\ \A i \in DOMAIN intents :
          /\ intents[i].incident_id \in DOMAIN incidents
          /\ incidents[intents[i].incident_id]
                = {e \in DOMAIN intent_events : intent_events[e] = i}
          /\ incidents[intents[i].incident_id] # {}
    /\ \A e \in DOMAIN intent_events :
          e \in DOMAIN events /\ intent_events[e] \in DOMAIN intents
    /\ \A i, j \in DOMAIN intents :
          intents[i].incident_id = intents[j].incident_id => i = j

(***************************************************************************)
(* Uncertainty latches: from the first indeterminate outcome on, every     *)
(* further transition the store ever records is about that same intent, so *)
(* no new action is reserved even after a reconciliation resolves it.      *)
(***************************************************************************)
UncertaintyFreezes ==
    \A j, k \in DOMAIN audit :
        (j < k /\ audit[j].transition = "indeterminate")
            => audit[k].intent = audit[j].intent

(***************************************************************************)
(* Persist before the irreversible action: a success or reverted outcome   *)
(* is recorded only for an intent whose hash was persisted by an earlier   *)
(* broadcast, and whose nonce was persisted before that, also when the     *)
(* outcome was indeterminate in between.                                   *)
(***************************************************************************)
ReceiptNeedsBroadcast ==
    /\ \A i \in DOMAIN intents :
          intents[i].status \in Receipt =>
              intents[i].tx_hash # Null /\ intents[i].nonce # Null
    /\ \A k \in DOMAIN audit : audit[k].transition \in Receipt =>
          \E j \in DOMAIN audit : /\ j < k
                                  /\ audit[j].intent = audit[k].intent
                                  /\ audit[j].transition = "broadcast"

\* What may be recorded of an intent after what was recorded last.
Follows(transition) ==
    CASE transition = "reserved"      -> {"prepared", "already_desired", "indeterminate"}
      [] transition = "prepared"      -> {"broadcast", "indeterminate"}
      [] transition = "broadcast"     -> {"success", "reverted", "indeterminate"}
      [] transition = "indeterminate" -> {"success", "reverted", "indeterminate"}
      [] OTHER                        -> {}

Between(j, k, intent) == {l \in DOMAIN audit : j < l /\ l < k /\ audit[l].intent = intent}

(***************************************************************************)
(* The audit trail alone tells each intent's history: it starts with the   *)
(* reservation, each transition follows legally on the one before it for   *)
(* that intent (one nonce, one hash, nothing after a final outcome), and   *)
(* the last one is the status in the intents table.                        *)
(***************************************************************************)
AuditIsLifecycle ==
    /\ \A k \in DOMAIN audit :
          /\ audit[k].intent \in DOMAIN intents
          /\ Between(0, k, audit[k].intent) = {} => audit[k].transition = "reserved"
          /\ Between(k, Len(audit) + 1, audit[k].intent) = {} =>
                intents[audit[k].intent].status = audit[k].transition
    /\ \A j, k \in DOMAIN audit :
          ( /\ j < k
            /\ audit[j].intent = audit[k].intent
            /\ Between(j, k, audit[k].intent) = {} )
          => audit[k].transition \in Follows(audit[j].transition)
    /\ \A i \in DOMAIN intents : \E k \in DOMAIN audit : audit[k].intent = i

\* The rows of the audit trail that record an outcome, and the place of such
\* a row among them.
OutcomeRows == {k \in DOMAIN audit : audit[k].transition \in Outcome}

Place(k) == Cardinality({j \in OutcomeRows : j <= k})

(***************************************************************************)
(* The outbox holds one notification per recorded outcome, in the order of *)
(* the audit trail: repeated indeterminate reports are notified again.     *)
(***************************************************************************)
OutboxMirrorsAudit ==
    /\ Len(outbox) = Cardinality(OutcomeRows)
    /\ \A k \in OutcomeRows :
          outbox[Place(k)] = [intent |-> audit[k].intent, outcome |-> audit[k].transition]

(***************************************************************************)
(* A source's cursor is the newest position ingested from it, by number    *)
(* and not by text, whatever the order in which events arrived, and its    *)
(* block is that of an event at that position.                             *)
(***************************************************************************)
CursorIsNewest ==
    /\ \A e \in DOMAIN events :
          /\ events[e].source \in DOMAIN cursors
          /\ IntOf[events[e].sequence] <= IntOf[cursors[events[e].source].sequence]
    /\ \A s \in DOMAIN cursors : \E e \in DOMAIN events :
          /\ events[e].source = s
          /\ events[e].sequence = cursors[s].sequence
          /\ events[e].block_number = cursors[s].block_number

-----------------------------------------------------------------------------
(* Action properties. *)

(***************************************************************************)
(* A stored event never changes or disappears: an identical replay is a    *)
(* no-op and a conflicting one is refused, even when it carries a newer    *)
(* position for the cursor.                                                *)
(***************************************************************************)
EventsAreImmutable ==
    [][\A e \in DOMAIN events : e \in DOMAIN events' /\ events'[e] = events[e]]_vars

(***************************************************************************)
(* A final outcome is final: no call changes any column of an intent that  *)
(* succeeded, reverted or was already in the desired state.                *)
(***************************************************************************)
FinalIsFinal ==
    [][\A i \in DOMAIN intents :
          intents[i].status \notin Unfinished => intents'[i] = intents[i]]_vars

(***************************************************************************)
(* An intent that became indeterminate before its hash was persisted can   *)
(* never be resolved through this interface: success and reverted need the *)
(* hash, broadcast needs the prepared status, already_desired the reserved *)
(* one.  Only repeated indeterminate reports remain.                       *)
(***************************************************************************)
HashlessStaysUncertain ==
    [][\A i \in DOMAIN intents :
          (intents[i].status = "indeterminate" /\ intents[i].tx_hash = Null)
              => intents'[i] = intents[i]]_vars

=============================================================================
