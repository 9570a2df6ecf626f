-------------------------- MODULE StateStoreProofs --------------------------
(***************************************************************************)
(* Proofs, for every value of the constants, of the safety properties of   *)
(* StateStore.  The inductive invariant is built in layers: types first,   *)
(* then each property with the facts it needs beyond itself.               *)
(***************************************************************************)
EXTENDS StateStore, FiniteSetTheorems, TLAPS

-----------------------------------------------------------------------------
(* Tables. *)

(***************************************************************************)
(* Inserting or replacing a well-typed row keeps a table well typed.       *)
(***************************************************************************)
LEMMA PutIsTable ==
    ASSUME NEW table, NEW Keys, NEW Row, IsTable(table, Keys, Row),
           NEW key \in Keys, NEW row \in Row
    PROVE  IsTable(Put(table, key, row), Keys, Row)
BY DEF IsTable, Put

(***************************************************************************)
(* A row appended to the audit trail is an audit row, behind all others.   *)
(***************************************************************************)
LEMMA AuditAppendType ==
    ASSUME TypeOK, NEW intent \in IntentIds, NEW transition \in Status,
           AuditAppend(intent, transition)
    PROVE  audit' \in Seq(AuditRow)
BY DEF TypeOK, AuditAppend, AuditRow

\* What a step that appends one row to the audit trail leaves behind.
Appended(intent, transition) ==
    LET n == Len(audit) + 1 IN
    /\ n \in Nat /\ Len(audit') = n
    /\ DOMAIN audit' = DOMAIN audit \cup {n}
    /\ \A k \in DOMAIN audit : k \in Nat /\ k < n /\ 0 < k /\ audit'[k] = audit[k]
    /\ audit'[n].intent = intent /\ audit'[n].transition = transition

(***************************************************************************)
(* The rows of a trail one longer: the old ones where they were, the new   *)
(* one last.                                                               *)
(***************************************************************************)
LEMMA AuditAppended ==
    ASSUME TypeOK, NEW intent \in IntentIds, NEW transition \in Status,
           AuditAppend(intent, transition)
    PROVE  Appended(intent, transition)
<1>1. audit \in Seq(AuditRow) /\ [intent |-> intent, transition |-> transition] \in AuditRow
  BY DEF TypeOK, AuditRow
<1>2. audit' = Append(audit, [intent |-> intent, transition |-> transition])
  BY DEF AuditAppend
<1> QED BY <1>1, <1>2 DEF Appended

-----------------------------------------------------------------------------
(* Type correctness. *)

(***************************************************************************)
(* ingest keeps the column types.                                          *)
(***************************************************************************)
LEMMA IngestType ==
    ASSUME TypeOK, NEW source \in Sources, NEW id \in EventIds,
           NEW sequence \in Positions, NEW block \in Blocks, NEW payload \in Payloads,
           Ingest(source, id, sequence, block, payload)
    PROVE  TypeOK'
<1>1. Str[sequence] \in Text /\ block \in SQLInteger
  BY ArgumentAssumption, DecimalAssumption
     DEF Ingest, ValidPosition, Storable, SQLInteger
<1>2. IsTable(events', EventIds, EventRow)
  BY <1>1, PutIsTable DEF Ingest, TypeOK, EventRow
<1>3. IsTable(cursors', Sources, CursorRow)
  BY <1>1, PutIsTable DEF Ingest, TypeOK, CursorRow
<1>4. UNCHANGED <<incidents, intents, intent_events, latch, outbox, audit>>
  BY DEF Ingest
<1> QED BY <1>2, <1>3, <1>4 DEF TypeOK

(***************************************************************************)
(* reserve keeps the column types.                                         *)
(***************************************************************************)
LEMMA ReserveType ==
    ASSUME TypeOK, NEW intent \in IntentIds, NEW incident \in IncidentIds,
           NEW ids \in SUBSET EventIds, Reserve(intent, incident, ids)
    PROVE  TypeOK'
<1>1. IsTable(incidents', IncidentIds, SUBSET EventIds)
  BY PutIsTable DEF Reserve, TypeOK
<1>2. IsTable(intents', IntentIds, IntentRow)
  <2>1. [incident_id |-> incident, status |-> "reserved",
         nonce |-> Null, tx_hash |-> Null] \in IntentRow
    BY DEF IntentRow, Status, Unfinished
  <2> QED BY <2>1, PutIsTable DEF Reserve, TypeOK
<1>3. IsTable(intent_events', EventIds, IntentIds)
  BY DEF Reserve, TypeOK, IsTable
<1>4. audit' \in Seq(AuditRow)
  BY AuditAppendType DEF Reserve, Status, Unfinished
<1>5. UNCHANGED <<events, cursors, latch, outbox>>
  BY DEF Reserve
<1> QED BY <1>1, <1>2, <1>3, <1>4, <1>5 DEF TypeOK

(***************************************************************************)
(* prepare keeps the column types: the nonce it stores fits the column.    *)
(***************************************************************************)
LEMMA PrepareType ==
    ASSUME TypeOK, NEW intent \in IntentIds, NEW nonce \in Nonces, Prepare(intent, nonce)
    PROVE  TypeOK'
<1>1. nonce \in SQLInteger
  BY ArgumentAssumption DEF Prepare, Storable, SQLInteger
<1>2. IsTable(intents', IntentIds, IntentRow)
  BY <1>1 DEF Prepare, TypeOK, IsTable, IntentRow, HasStatus, Status, Unfinished
<1>3. audit' \in Seq(AuditRow)
  BY AuditAppendType DEF Prepare, Status, Unfinished
<1>4. UNCHANGED <<events, cursors, incidents, intent_events, latch, outbox>>
  BY DEF Prepare
<1> QED BY <1>2, <1>3, <1>4 DEF TypeOK

(***************************************************************************)
(* broadcast keeps the column types.                                       *)
(***************************************************************************)
LEMMA BroadcastType ==
    ASSUME TypeOK, NEW intent \in IntentIds, NEW tx_hash \in Hashes,
           Broadcast(intent, tx_hash)
    PROVE  TypeOK'
<1>1. IsTable(intents', IntentIds, IntentRow)
  BY DEF Broadcast, TypeOK, IsTable, IntentRow, HasStatus, Status, Unfinished
<1>2. audit' \in Seq(AuditRow)
  BY AuditAppendType DEF Broadcast, Status, Unfinished
<1>3. UNCHANGED <<events, cursors, incidents, intent_events, latch, outbox>>
  BY DEF Broadcast
<1> QED BY <1>1, <1>2, <1>3 DEF TypeOK

(***************************************************************************)
(* finish keeps the column types.                                          *)
(***************************************************************************)
LEMMA FinishType ==
    ASSUME TypeOK, NEW intent \in IntentIds, NEW outcome \in Outcome,
           Finish(intent, outcome)
    PROVE  TypeOK'
<1>1. IsTable(intents', IntentIds, IntentRow)
  BY DEF Finish, OutcomeAllowed, TypeOK, IsTable, IntentRow, HasStatus, Status
<1>2. audit' \in Seq(AuditRow)
  BY AuditAppendType DEF Finish, Status
<1>3. outbox' \in Seq(OutboxRow)
  BY DEF Finish, TypeOK, OutboxRow
<1>4. latch' \in BOOLEAN
  BY DEF Finish, LatchAfter, TypeOK
<1>5. UNCHANGED <<events, cursors, incidents, intent_events>>
  BY DEF Finish
<1> QED BY <1>1, <1>2, <1>3, <1>4, <1>5 DEF TypeOK

(***************************************************************************)
(* The empty tables of a new file have the column types.                   *)
(***************************************************************************)
LEMMA InitType == Init => TypeOK
<1>1. \A Keys, Row : IsTable(EmptyTable, Keys, Row)
  BY DEF EmptyTable, IsTable
<1>2. <<>> \in Seq(OutboxRow) /\ <<>> \in Seq(AuditRow)
  OBVIOUS
<1> QED BY <1>1, <1>2 DEF Init, TypeOK

(***************************************************************************)
(* Every call keeps the column types.                                      *)
(***************************************************************************)
LEMMA NextType == TypeOK /\ [Next]_vars => TypeOK'
<1> SUFFICES ASSUME TypeOK, [Next]_vars PROVE TypeOK'
  OBVIOUS
<1>1. CASE Next
  BY <1>1, IngestType, ReserveType, PrepareType, BroadcastType, FinishType DEF Next
<1>2. CASE UNCHANGED vars
  BY <1>2 DEF vars, TypeOK
<1> QED BY <1>1, <1>2

(***************************************************************************)
(* Every reachable state has the column types of the schema, block numbers *)
(* and nonces inside SQLite's integer range included.                      *)
(***************************************************************************)
THEOREM TypeCorrect == Spec => []TypeOK
BY InitType, NextType, PTL DEF Spec

-----------------------------------------------------------------------------
(* The singleton action. *)

(***************************************************************************)
(* Every call keeps at most one intent unfinished: reserve is blocked while*)
(* there is one, and the others add none.                                  *)
(***************************************************************************)
LEMMA NextOneUnfinished ==
    TypeOK /\ OneUnfinished /\ [Next]_vars => OneUnfinished'
<1> SUFFICES ASSUME TypeOK, OneUnfinished, [Next]_vars PROVE OneUnfinished'
  OBVIOUS
<1> USE DEF OneUnfinished
<1>1. ASSUME NEW intent \in IntentIds, NEW incident \in IncidentIds,
             NEW ids \in SUBSET EventIds, Reserve(intent, incident, ids)
      PROVE  OneUnfinished'
  BY <1>1 DEF Reserve, ReservationBlocked, UnfinishedIntents, Put
<1>2. ASSUME NEW intent \in IntentIds, NEW nonce \in Nonces, Prepare(intent, nonce)
      PROVE  OneUnfinished'
  BY <1>2 DEF Prepare, HasStatus, TypeOK, IsTable, IntentRow, Unfinished
<1>3. ASSUME NEW intent \in IntentIds, NEW tx_hash \in Hashes, Broadcast(intent, tx_hash)
      PROVE  OneUnfinished'
  BY <1>3 DEF Broadcast, HasStatus, TypeOK, IsTable, IntentRow, Unfinished
<1>4. ASSUME NEW intent \in IntentIds, NEW outcome \in Outcome, Finish(intent, outcome)
      PROVE  OneUnfinished'
  BY <1>4 DEF Finish, OutcomeAllowed, HasStatus, TypeOK, IsTable, IntentRow
<1>5. CASE UNCHANGED intents
  BY <1>5
<1> QED BY <1>1, <1>2, <1>3, <1>4, <1>5 DEF Next, Ingest, vars

(***************************************************************************)
(* At most one action is in flight at any time, for any number of intents. *)
(***************************************************************************)
THEOREM ActionIsSingleton == Spec => []OneUnfinished
<1>1. Init => OneUnfinished
  BY DEF Init, EmptyTable, OneUnfinished
<1> QED BY <1>1, InitType, NextType, NextOneUnfinished, PTL DEF Spec

-----------------------------------------------------------------------------
(* Ownership of events. *)

(***************************************************************************)
(* Every call keeps the ownership of events: reserve adds a fresh intent,  *)
(* a fresh incident and events nobody owns.                                *)
(***************************************************************************)
LEMMA NextEventsOwnedOnce ==
    TypeOK /\ EventsOwnedOnce /\ [Next]_vars => EventsOwnedOnce'
<1> SUFFICES ASSUME TypeOK, EventsOwnedOnce, [Next]_vars PROVE EventsOwnedOnce'
  OBVIOUS
<1>1. ASSUME NEW intent \in IntentIds, NEW incident \in IncidentIds,
             NEW ids \in SUBSET EventIds, Reserve(intent, incident, ids)
      PROVE  EventsOwnedOnce'
  <2>0. /\ DOMAIN intents' = DOMAIN intents \cup {intent}
        /\ DOMAIN incidents' = DOMAIN incidents \cup {incident}
        /\ DOMAIN intent_events' = DOMAIN intent_events \cup ids
        /\ intents'[intent].incident_id = incident
        /\ incidents'[incident] = ids
        /\ \A i \in DOMAIN intents : i # intent /\ intents'[i] = intents[i]
        /\ \A c \in DOMAIN incidents : c # incident /\ incidents'[c] = incidents[c]
        /\ \A e \in ids : intent_events'[e] = intent
        /\ \A e \in DOMAIN intent_events :
              e \notin ids /\ intent_events'[e] = intent_events[e]
        /\ events' = events
        /\ ids # {} /\ ids \subseteq DOMAIN events
    BY <1>1 DEF Reserve, Put, NewIntent, NewIncident, Reservable
  <2>1. ASSUME NEW i \in DOMAIN intents'
        PROVE  /\ intents'[i].incident_id \in DOMAIN incidents'
               /\ incidents'[intents'[i].incident_id]
                     = {e \in DOMAIN intent_events' : intent_events'[e] = i}
               /\ incidents'[intents'[i].incident_id] # {}
    <3>1. CASE i = intent
      BY <2>0, <3>1 DEF EventsOwnedOnce
    <3>2. CASE i \in DOMAIN intents
      BY <2>0, <3>2 DEF EventsOwnedOnce
    <3> QED BY <2>0, <3>1, <3>2
  <2>2. \A e \in DOMAIN intent_events' :
            e \in DOMAIN events' /\ intent_events'[e] \in DOMAIN intents'
    BY <2>0 DEF EventsOwnedOnce
  <2>3. \A i, j \in DOMAIN intents' :
            intents'[i].incident_id = intents'[j].incident_id => i = j
    BY <2>0 DEF EventsOwnedOnce
  <2> QED BY <2>1, <2>2, <2>3 DEF EventsOwnedOnce
<1>2. CASE /\ UNCHANGED <<incidents, intent_events>>
           /\ DOMAIN events \subseteq DOMAIN events'
           /\ DOMAIN intents' = DOMAIN intents
           /\ \A i \in DOMAIN intents : intents'[i].incident_id = intents[i].incident_id
  BY <1>2 DEF EventsOwnedOnce
<1>3. ASSUME NEW intent \in IntentIds, NEW nonce \in Nonces, Prepare(intent, nonce)
      PROVE  EventsOwnedOnce'
  BY <1>2, <1>3 DEF Prepare, HasStatus, TypeOK, IsTable, IntentRow
<1>4. ASSUME NEW intent \in IntentIds, NEW tx_hash \in Hashes, Broadcast(intent, tx_hash)
      PROVE  EventsOwnedOnce'
  BY <1>2, <1>4 DEF Broadcast, HasStatus, TypeOK, IsTable, IntentRow
<1>5. ASSUME NEW intent \in IntentIds, NEW outcome \in Outcome, Finish(intent, outcome)
      PROVE  EventsOwnedOnce'
  BY <1>2, <1>5 DEF Finish, OutcomeAllowed, HasStatus, TypeOK, IsTable, IntentRow
<1>6. ASSUME NEW source \in Sources, NEW id \in EventIds, NEW sequence \in Positions,
             NEW block \in Blocks, NEW payload \in Payloads,
             Ingest(source, id, sequence, block, payload)
      PROVE  EventsOwnedOnce'
  BY <1>2, <1>6 DEF Ingest, Put
<1>7. CASE UNCHANGED vars
  BY <1>2, <1>7 DEF vars
<1> QED BY <1>1, <1>3, <1>4, <1>5, <1>6, <1>7 DEF Next

(***************************************************************************)
(* One canonical event reserves at most one action, in every history.      *)
(***************************************************************************)
THEOREM EventReservesOnce == Spec => []EventsOwnedOnce
<1>1. Init => EventsOwnedOnce
  BY DEF Init, EmptyTable, EventsOwnedOnce
<1> QED BY <1>1, InitType, NextType, NextEventsOwnedOnce, PTL DEF Spec

-----------------------------------------------------------------------------
(* Uncertainty and the latch. *)

\* Once an outcome was indeterminate the latch is set, and only that intent
\* can still be unfinished: what makes UncertaintyFreezes inductive.
LatchCoversUncertainty ==
    \A k \in DOMAIN audit : audit[k].transition = "indeterminate" =>
        /\ latch
        /\ \A i \in DOMAIN intents :
              intents[i].status \in Unfinished => i = audit[k].intent

(***************************************************************************)
(* With the latch covering every indeterminate row of the trail, every call*)
(* keeps later rows to the same intent.                                    *)
(***************************************************************************)
LEMMA NextUncertainty ==
    /\ TypeOK /\ OneUnfinished /\ LatchCoversUncertainty /\ UncertaintyFreezes
    /\ [Next]_vars
    => LatchCoversUncertainty' /\ UncertaintyFreezes'
<1> SUFFICES ASSUME TypeOK, OneUnfinished, LatchCoversUncertainty, UncertaintyFreezes,
                    [Next]_vars
             PROVE  LatchCoversUncertainty' /\ UncertaintyFreezes'
  OBVIOUS
<1>1. ASSUME NEW intent \in IntentIds, NEW incident \in IncidentIds,
             NEW ids \in SUBSET EventIds, Reserve(intent, incident, ids)
      PROVE  LatchCoversUncertainty' /\ UncertaintyFreezes'
  <2>1. \A k \in DOMAIN audit : audit[k].transition # "indeterminate"
    BY <1>1 DEF Reserve, ReservationBlocked, LatchCoversUncertainty
  <2>2. \A k \in DOMAIN audit' : audit'[k].transition # "indeterminate"
    <3>1. Appended(intent, "reserved")
      BY <1>1, AuditAppended DEF Reserve, Status, Unfinished
    <3> QED BY <2>1, <3>1 DEF Appended
  <2> QED BY <2>2 DEF LatchCoversUncertainty, UncertaintyFreezes
<1>2. ASSUME NEW intent \in IntentIds, NEW transition \in Status,
             intent \in DOMAIN intents, intents[intent].status \in Unfinished,
             AuditAppend(intent, transition),
             DOMAIN intents' = DOMAIN intents,
             \A i \in DOMAIN intents : i # intent => intents'[i] = intents[i],
             latch => latch', transition = "indeterminate" => latch'
      PROVE  LatchCoversUncertainty' /\ UncertaintyFreezes'
  <2>0. Appended(intent, transition)
    BY <1>2, AuditAppended
  <2>1. \A k \in DOMAIN audit :
            audit[k].transition = "indeterminate" => audit[k].intent = intent
    BY <1>2 DEF LatchCoversUncertainty
  <2>2. \A i \in DOMAIN intents' : intents'[i].status \in Unfinished => i = intent
    BY <1>2 DEF OneUnfinished
  <2>3. LatchCoversUncertainty'
    BY <1>2, <2>0, <2>1, <2>2 DEF Appended, LatchCoversUncertainty
  <2>4. UncertaintyFreezes'
    BY <2>0, <2>1 DEF Appended, UncertaintyFreezes
  <2> QED BY <2>3, <2>4
<1>3. ASSUME NEW intent \in IntentIds, NEW nonce \in Nonces, Prepare(intent, nonce)
      PROVE  LatchCoversUncertainty' /\ UncertaintyFreezes'
  BY <1>2, <1>3 DEF Prepare, HasStatus, TypeOK, IsTable, Unfinished, Status
<1>4. ASSUME NEW intent \in IntentIds, NEW tx_hash \in Hashes, Broadcast(intent, tx_hash)
      PROVE  LatchCoversUncertainty' /\ UncertaintyFreezes'
  BY <1>2, <1>4 DEF Broadcast, HasStatus, TypeOK, IsTable, Unfinished, Status
<1>5. ASSUME NEW intent \in IntentIds, NEW outcome \in Outcome, Finish(intent, outcome)
      PROVE  LatchCoversUncertainty' /\ UncertaintyFreezes'
  BY <1>2, <1>5
     DEF Finish, OutcomeAllowed, LatchAfter, HasStatus, TypeOK, IsTable, Status
<1>6. CASE UNCHANGED <<intents, latch, audit>>
  BY <1>6 DEF LatchCoversUncertainty, UncertaintyFreezes
<1> QED BY <1>1, <1>3, <1>4, <1>5, <1>6 DEF Next, Ingest, vars

(***************************************************************************)
(* After the first indeterminate outcome the store records transitions of  *)
(* that intent only: no reconciliation reopens the store for a new action. *)
(***************************************************************************)
THEOREM UncertaintyIsFinal == Spec => []UncertaintyFreezes
<1>1. Init => OneUnfinished /\ LatchCoversUncertainty /\ UncertaintyFreezes
  BY DEF Init, EmptyTable, OneUnfinished, LatchCoversUncertainty, UncertaintyFreezes
<1> QED BY <1>1, InitType, NextType, NextOneUnfinished, NextUncertainty, PTL DEF Spec

-----------------------------------------------------------------------------
(* Receipts and what was persisted before them. *)

\* Where the stored hash and the stored nonce of intent i come from.
Provenance(i) ==
    /\ intents[i].status \in {"prepared", "broadcast"} => intents[i].nonce # Null
    /\ intents[i].status \in {"broadcast"} \cup Receipt => intents[i].tx_hash # Null
    /\ intents[i].tx_hash # Null =>
          /\ intents[i].nonce # Null
          /\ \E j \in DOMAIN audit :
                audit[j].intent = i /\ audit[j].transition = "broadcast"

HashProvenance == \A i \in DOMAIN intents : Provenance(i)

(***************************************************************************)
(* With the provenance of each hash on the trail, every call keeps receipts*)
(* behind a broadcast.                                                     *)
(***************************************************************************)
LEMMA NextReceipt ==
    TypeOK /\ HashProvenance /\ ReceiptNeedsBroadcast /\ [Next]_vars
        => HashProvenance' /\ ReceiptNeedsBroadcast'
<1> SUFFICES ASSUME TypeOK, HashProvenance, ReceiptNeedsBroadcast, [Next]_vars
             PROVE  HashProvenance' /\ ReceiptNeedsBroadcast'
  OBVIOUS
<1>0. ASSUME HashProvenance',
             \A k \in DOMAIN audit' : audit'[k].transition \in Receipt =>
                \E j \in DOMAIN audit' : /\ j < k
                                        /\ audit'[j].intent = audit'[k].intent
                                        /\ audit'[j].transition = "broadcast"
      PROVE  HashProvenance' /\ ReceiptNeedsBroadcast'
  BY <1>0 DEF HashProvenance, Provenance, ReceiptNeedsBroadcast
<1>a. ASSUME NEW intent \in IntentIds, NEW transition \in Status,
             AuditAppend(intent, transition),
             transition \in Receipt =>
                \E j \in DOMAIN audit :
                    audit[j].intent = intent /\ audit[j].transition = "broadcast"
      PROVE  \A k \in DOMAIN audit' : audit'[k].transition \in Receipt =>
                \E j \in DOMAIN audit' : /\ j < k
                                        /\ audit'[j].intent = audit'[k].intent
                                        /\ audit'[j].transition = "broadcast"
  <2>1. Appended(intent, transition)
    BY <1>a, AuditAppended
  <2> QED BY <1>a, <2>1 DEF Appended, ReceiptNeedsBroadcast
\* Hashes and nonces of rows a step leaves alone keep their provenance.
<1>b. ASSUME NEW intent \in IntentIds, NEW transition \in Status,
             AuditAppend(intent, transition),
             \A i \in DOMAIN intents' :
                i = intent \/ (i \in DOMAIN intents /\ intents'[i] = intents[i]),
             intent \in DOMAIN intents' => Provenance(intent)'
      PROVE  HashProvenance'
  <2>1. Appended(intent, transition)
    BY <1>b, AuditAppended
  <2>2. ASSUME NEW i \in DOMAIN intents, intents'[i] = intents[i]
        PROVE  Provenance(i)'
    BY <2>1, <2>2 DEF HashProvenance, Provenance, Appended
  <2> QED BY <1>b, <2>2 DEF HashProvenance
<1>1. ASSUME NEW intent \in IntentIds, NEW incident \in IncidentIds,
             NEW ids \in SUBSET EventIds, Reserve(intent, incident, ids)
      PROVE  HashProvenance' /\ ReceiptNeedsBroadcast'
  <2>1. AuditAppend(intent, "reserved") /\ "reserved" \in Status /\ "reserved" \notin Receipt
    BY <1>1 DEF Reserve, Status, Unfinished, Receipt
  <2>2. Provenance(intent)'
    BY <1>1 DEF Reserve, Put, Provenance, Receipt
  <2>3. HashProvenance'
    BY <1>1, <1>b, <2>1, <2>2 DEF Reserve, Put
  <2> QED BY <1>0, <1>a, <2>1, <2>3
<1>2. ASSUME NEW intent \in IntentIds, NEW nonce \in Nonces, Prepare(intent, nonce)
      PROVE  HashProvenance' /\ ReceiptNeedsBroadcast'
  <2>1. AuditAppend(intent, "prepared") /\ "prepared" \in Status /\ "prepared" \notin Receipt
    BY <1>2 DEF Prepare, Status, Unfinished, Receipt
  <2>2. nonce # Null
    BY NullAssumption, ArgumentAssumption
  <2>3. /\ intents'[intent].status = "prepared" /\ intents'[intent].nonce = nonce
        /\ intents'[intent].tx_hash = intents[intent].tx_hash
        /\ intent \in DOMAIN intents
    BY <1>2 DEF Prepare, HasStatus, TypeOK, IsTable, IntentRow
  <2>4. Provenance(intent)'
    BY <2>1, <2>2, <2>3, AuditAppended DEF Appended, HashProvenance, Provenance, Receipt
  <2>5. HashProvenance'
    BY <1>2, <1>b, <2>1, <2>4 DEF Prepare
  <2> QED BY <1>0, <1>a, <2>1, <2>5
<1>3. ASSUME NEW intent \in IntentIds, NEW tx_hash \in Hashes, Broadcast(intent, tx_hash)
      PROVE  HashProvenance' /\ ReceiptNeedsBroadcast'
  <2>1. AuditAppend(intent, "broadcast") /\ "broadcast" \in Status /\ "broadcast" \notin Receipt
    BY <1>3 DEF Broadcast, Status, Unfinished, Receipt
  <2>2. tx_hash # Null
    BY NullAssumption
  <2>3. /\ intents'[intent].status = "broadcast" /\ intents'[intent].tx_hash = tx_hash
        /\ intents'[intent].nonce = intents[intent].nonce
        /\ intent \in DOMAIN intents /\ intents[intent].status = "prepared"
    BY <1>3 DEF Broadcast, HasStatus, TypeOK, IsTable, IntentRow
  <2>4. Provenance(intent)'
    BY <2>1, <2>2, <2>3, AuditAppended DEF Appended, HashProvenance, Provenance
  <2>5. HashProvenance'
    BY <1>3, <1>b, <2>1, <2>4 DEF Broadcast
  <2> QED BY <1>0, <1>a, <2>1, <2>5
<1>4. ASSUME NEW intent \in IntentIds, NEW outcome \in Outcome, Finish(intent, outcome)
      PROVE  HashProvenance' /\ ReceiptNeedsBroadcast'
  <2>1. AuditAppend(intent, outcome) /\ outcome \in Status
    BY <1>4 DEF Finish, Status
  <2>2. /\ intents'[intent].status = outcome
        /\ intents'[intent].tx_hash = intents[intent].tx_hash
        /\ intents'[intent].nonce = intents[intent].nonce
        /\ intent \in DOMAIN intents
        /\ outcome \in Receipt => intents[intent].tx_hash # Null
    BY <1>4 DEF Finish, OutcomeAllowed, HasStatus, TypeOK, IsTable, IntentRow
  <2>3. Provenance(intent)'
    BY <2>1, <2>2, AuditAppended DEF Appended, HashProvenance, Provenance, Outcome
  <2>4. HashProvenance'
    BY <1>4, <1>b, <2>1, <2>3 DEF Finish
  <2>5. outcome \in Receipt => \E j \in DOMAIN audit :
            audit[j].intent = intent /\ audit[j].transition = "broadcast"
    BY <2>2 DEF HashProvenance, Provenance
  <2> QED BY <1>0, <1>a, <2>1, <2>4, <2>5
<1>5. CASE UNCHANGED <<intents, audit>>
  BY <1>5 DEF HashProvenance, Provenance, ReceiptNeedsBroadcast
<1> QED BY <1>1, <1>2, <1>3, <1>4, <1>5 DEF Next, Ingest, vars

(***************************************************************************)
(* A receipt outcome is only ever recorded behind a persisted hash, which  *)
(* itself came behind a persisted nonce.                                   *)
(***************************************************************************)
THEOREM PersistedBeforeReceipt == Spec => []ReceiptNeedsBroadcast
<1>1. Init => HashProvenance /\ ReceiptNeedsBroadcast
  BY DEF Init, EmptyTable, HashProvenance, ReceiptNeedsBroadcast
<1> QED BY <1>1, InitType, NextType, NextReceipt, PTL DEF Spec

-----------------------------------------------------------------------------
(* Steps. *)

(***************************************************************************)
(* No call changes an intent with a final outcome.                         *)
(***************************************************************************)
THEOREM FinalOutcomesStay == Spec => FinalIsFinal
<1>1. TypeOK /\ [Next]_vars =>
        [\A i \in DOMAIN intents :
            intents[i].status \notin Unfinished => intents'[i] = intents[i]]_vars
  <2> SUFFICES ASSUME TypeOK, Next, NEW i \in DOMAIN intents,
                      intents[i].status \notin Unfinished
               PROVE  intents'[i] = intents[i]
    BY DEF vars
  <2>1. ASSUME NEW intent \in IntentIds, NEW incident \in IncidentIds,
               NEW ids \in SUBSET EventIds, Reserve(intent, incident, ids)
        PROVE  intents'[i] = intents[i]
    BY <2>1 DEF Reserve, Put, NewIntent
  <2>2. ASSUME NEW intent \in IntentIds, NEW nonce \in Nonces, Prepare(intent, nonce)
        PROVE  intents'[i] = intents[i]
    BY <2>2 DEF Prepare, HasStatus, Unfinished
  <2>3. ASSUME NEW intent \in IntentIds, NEW tx_hash \in Hashes, Broadcast(intent, tx_hash)
        PROVE  intents'[i] = intents[i]
    BY <2>3 DEF Broadcast, HasStatus, Unfinished
  <2>4. ASSUME NEW intent \in IntentIds, NEW outcome \in Outcome, Finish(intent, outcome)
        PROVE  intents'[i] = intents[i]
    BY <2>4 DEF Finish, OutcomeAllowed, HasStatus
  <2> QED BY <2>1, <2>2, <2>3, <2>4 DEF Next, Ingest
<1> QED BY <1>1, InitType, NextType, PTL DEF Spec, FinalIsFinal

(***************************************************************************)
(* An intent left indeterminate without a hash is never resolved.          *)
(***************************************************************************)
THEOREM HashlessNeverResolved == Spec => HashlessStaysUncertain
<1>1. TypeOK /\ [Next]_vars =>
        [\A i \in DOMAIN intents :
            (intents[i].status = "indeterminate" /\ intents[i].tx_hash = Null)
                => intents'[i] = intents[i]]_vars
  <2> SUFFICES ASSUME TypeOK, Next, NEW i \in DOMAIN intents,
                      intents[i].status = "indeterminate", intents[i].tx_hash = Null
               PROVE  intents'[i] = intents[i]
    BY DEF vars
  <2>1. ASSUME NEW intent \in IntentIds, NEW incident \in IncidentIds,
               NEW ids \in SUBSET EventIds, Reserve(intent, incident, ids)
        PROVE  intents'[i] = intents[i]
    BY <2>1 DEF Reserve, Put, NewIntent
  <2>2. ASSUME NEW intent \in IntentIds, NEW nonce \in Nonces, Prepare(intent, nonce)
        PROVE  intents'[i] = intents[i]
    BY <2>2 DEF Prepare, HasStatus
  <2>3. ASSUME NEW intent \in IntentIds, NEW tx_hash \in Hashes, Broadcast(intent, tx_hash)
        PROVE  intents'[i] = intents[i]
    BY <2>3 DEF Broadcast, HasStatus
  <2>4. ASSUME NEW intent \in IntentIds, NEW outcome \in Outcome, Finish(intent, outcome)
        PROVE  intents'[i] = intents[i]
    BY <2>4 DEF Finish, OutcomeAllowed, HasStatus, Outcome, Receipt, TypeOK, IsTable, IntentRow
  <2> QED BY <2>1, <2>2, <2>3, <2>4 DEF Next, Ingest
<1> QED BY <1>1, InitType, NextType, PTL DEF Spec, HashlessStaysUncertain

-----------------------------------------------------------------------------
(* The audit trail as the history of every intent. *)

(***************************************************************************)
(* Appending a legal transition, recorded as the intent's status in the    *)
(* same step, keeps the trail a lifecycle.                                 *)
(***************************************************************************)
LEMMA LifecycleStep ==
    ASSUME TypeOK, AuditIsLifecycle, NEW intent, NEW transition,
           Appended(intent, transition),
           DOMAIN intents' = DOMAIN intents \cup {intent},
           \A i \in DOMAIN intents : i # intent => intents'[i] = intents[i],
           intents'[intent].status = transition,
           intent \notin DOMAIN intents => transition = "reserved",
           intent \in DOMAIN intents => transition \in Follows(intents[intent].status)
    PROVE  AuditIsLifecycle'
<1>n. PICK n : n = Len(audit) + 1
  OBVIOUS
<1>0. /\ n = Len(audit) + 1 /\ n \in Nat /\ Len(audit') = n /\ n \in DOMAIN audit'
      /\ DOMAIN audit' = DOMAIN audit \cup {n}
      /\ \A k \in DOMAIN audit : k \in Nat /\ k < n /\ 0 < k /\ audit'[k] = audit[k]
      /\ audit'[n].intent = intent /\ audit'[n].transition = transition
  BY <1>n DEF Appended
<1>1. \A i : \A j \in Nat, k \in DOMAIN audit : Between(j, k, i)' = Between(j, k, i)
  BY <1>0 DEF Between
<1>2. \A i : \A j \in Nat : Between(j, n, i)' = Between(j, n, i)
  BY <1>0 DEF Between
<1>3. \A k \in DOMAIN audit : Between(k, n + 1, intent)' # {}
  BY <1>0 DEF Between
<1>4. \A i : \A k \in DOMAIN audit : i # intent => Between(k, n + 1, i)' = Between(k, n, i)
  BY <1>0 DEF Between
<1>5. ASSUME NEW k \in DOMAIN audit'
      PROVE  /\ audit'[k].intent \in DOMAIN intents'
             /\ Between(0, k, audit[k].intent)' = {} => audit'[k].transition = "reserved"
             /\ Between(k, Len(audit) + 1, audit[k].intent)' = {} =>
                   intents'[audit'[k].intent].status = audit'[k].transition
  <2>1. CASE k \in DOMAIN audit
    <3>1. audit'[k] = audit[k] /\ audit[k].intent \in DOMAIN intents
      BY <1>0, <2>1 DEF AuditIsLifecycle
    <3>2. Between(0, k, audit[k].intent)' = {} => audit'[k].transition = "reserved"
      BY <1>0, <1>1, <2>1, <3>1 DEF AuditIsLifecycle
    <3>3. CASE audit[k].intent = intent
      BY <1>0, <1>3, <2>1, <3>1, <3>2, <3>3
    <3>4. CASE audit[k].intent # intent
      <4>1. Between(k, Len(audit) + 1, audit[k].intent)'
               = Between(k, Len(audit) + 1, audit[k].intent)
        BY <1>0, <1>4, <2>1, <3>1, <3>4
      <4> QED BY <2>1, <3>1, <3>2, <3>4, <4>1 DEF AuditIsLifecycle
    <3> QED BY <3>3, <3>4
  <2>2. CASE k = n
    <3>1. ASSUME intent \in DOMAIN intents
          PROVE  Between(0, n, intent)' # {}
      <4>1. PICK j \in DOMAIN audit : audit[j].intent = intent
        BY <3>1 DEF AuditIsLifecycle
      <4>2. j \in Between(0, n, intent)
        BY <1>0, <4>1 DEF Between
      <4> QED BY <1>2, <4>2
    <3> QED BY <1>0, <2>2, <3>1
  <2> QED BY <1>0, <2>1, <2>2
<1>6. ASSUME NEW j \in DOMAIN audit', NEW k \in DOMAIN audit', j < k,
             audit'[j].intent = audit'[k].intent,
             Between(j, k, audit[k].intent)' = {}
      PROVE  audit'[k].transition \in Follows(audit'[j].transition)
  <2>1. j \in DOMAIN audit /\ j \in Nat /\ audit'[j] = audit[j]
    BY <1>0, <1>6
  <2>2. CASE k \in DOMAIN audit
    BY <1>0, <1>1, <1>6, <2>1, <2>2 DEF AuditIsLifecycle
  <2>3. CASE k = n
    <3>1. audit[j].intent = intent /\ Between(j, n, intent) = {}
      BY <1>0, <1>2, <1>6, <2>1, <2>3
    <3>2. intent \in DOMAIN intents /\ intents[intent].status = audit[j].transition
      BY <1>0, <2>1, <3>1 DEF AuditIsLifecycle
    <3> QED BY <1>0, <2>1, <2>3, <3>2
  <2> QED BY <1>0, <2>2, <2>3
<1>7. ASSUME NEW i \in DOMAIN intents'
      PROVE  \E k \in DOMAIN audit' : audit'[k].intent = i
  BY <1>0 DEF AuditIsLifecycle
<1> QED BY <1>5, <1>6, <1>7 DEF AuditIsLifecycle

(***************************************************************************)
(* Every call appends to the trail a transition that is legal there.       *)
(***************************************************************************)
LEMMA NextLifecycle == TypeOK /\ AuditIsLifecycle /\ [Next]_vars => AuditIsLifecycle'
<1> SUFFICES ASSUME TypeOK, AuditIsLifecycle, [Next]_vars PROVE AuditIsLifecycle'
  OBVIOUS
<1>1. ASSUME NEW intent \in IntentIds, NEW incident \in IncidentIds,
             NEW ids \in SUBSET EventIds, Reserve(intent, incident, ids)
      PROVE  AuditIsLifecycle'
  <2>1. Appended(intent, "reserved")
    BY <1>1, AuditAppended DEF Reserve, Status, Unfinished
  <2> QED BY <1>1, <2>1, LifecycleStep DEF Reserve, Put, NewIntent
<1>2. ASSUME NEW intent \in IntentIds, NEW nonce \in Nonces, Prepare(intent, nonce)
      PROVE  AuditIsLifecycle'
  <2>1. Appended(intent, "prepared")
    BY <1>2, AuditAppended DEF Prepare, Status, Unfinished
  <2>2. /\ intent \in DOMAIN intents /\ intents[intent].status = "reserved"
        /\ intents'[intent].status = "prepared"
        /\ DOMAIN intents' = DOMAIN intents \cup {intent}
        /\ \A i \in DOMAIN intents : i # intent => intents'[i] = intents[i]
    BY <1>2 DEF Prepare, HasStatus, TypeOK, IsTable, IntentRow
  <2> QED BY <2>1, <2>2, LifecycleStep DEF Follows
<1>3. ASSUME NEW intent \in IntentIds, NEW tx_hash \in Hashes, Broadcast(intent, tx_hash)
      PROVE  AuditIsLifecycle'
  <2>1. Appended(intent, "broadcast")
    BY <1>3, AuditAppended DEF Broadcast, Status, Unfinished
  <2>2. /\ intent \in DOMAIN intents /\ intents[intent].status = "prepared"
        /\ intents'[intent].status = "broadcast"
        /\ DOMAIN intents' = DOMAIN intents \cup {intent}
        /\ \A i \in DOMAIN intents : i # intent => intents'[i] = intents[i]
    BY <1>3 DEF Broadcast, HasStatus, TypeOK, IsTable, IntentRow
  <2> QED BY <2>1, <2>2, LifecycleStep DEF Follows
<1>4. ASSUME NEW intent \in IntentIds, NEW outcome \in Outcome, Finish(intent, outcome)
      PROVE  AuditIsLifecycle'
  <2>1. Appended(intent, outcome)
    BY <1>4, AuditAppended DEF Finish, Status
  <2>2. /\ intent \in DOMAIN intents
        /\ intents'[intent].status = outcome
        /\ DOMAIN intents' = DOMAIN intents \cup {intent}
        /\ \A i \in DOMAIN intents : i # intent => intents'[i] = intents[i]
    BY <1>4 DEF Finish, OutcomeAllowed, HasStatus, TypeOK, IsTable, IntentRow
  <2>3. outcome \in Follows(intents[intent].status)
    BY <1>4 DEF Finish, OutcomeAllowed, HasStatus, Follows, Outcome, Unfinished, Receipt
  <2> QED BY <2>1, <2>2, <2>3, LifecycleStep
<1>5. CASE UNCHANGED <<intents, audit>>
  BY <1>5 DEF AuditIsLifecycle, Between
<1> QED BY <1>1, <1>2, <1>3, <1>4, <1>5 DEF Next, Ingest, vars

(***************************************************************************)
(* The audit trail records a legal life of every intent, ending in its     *)
(* current status.                                                         *)
(***************************************************************************)
THEOREM AuditTellsHistory == Spec => []AuditIsLifecycle
<1>1. Init => AuditIsLifecycle
  BY DEF Init, EmptyTable, AuditIsLifecycle
<1> QED BY <1>1, InitType, NextType, NextLifecycle, PTL DEF Spec

-----------------------------------------------------------------------------
(* Cursors. *)

\* Every stored sequence text was written by str(n) for a position n.
TextsAreDecimal ==
    /\ \A e \in DOMAIN events : \E n \in Positions : n >= 0 /\ events[e].sequence = Str[n]
    /\ \A s \in DOMAIN cursors : \E n \in Positions : n >= 0 /\ cursors[s].sequence = Str[n]

(***************************************************************************)
(* Every call keeps cursors at the newest position and positions decimal.  *)
(***************************************************************************)
LEMMA NextCursor ==
    /\ TypeOK /\ TextsAreDecimal /\ CursorIsNewest /\ [Next]_vars
    => TextsAreDecimal' /\ CursorIsNewest'
<1> SUFFICES ASSUME TypeOK, TextsAreDecimal, CursorIsNewest, [Next]_vars
             PROVE  TextsAreDecimal' /\ CursorIsNewest'
  OBVIOUS
<1>1. ASSUME NEW source \in Sources, NEW id \in EventIds, NEW sequence \in Positions,
             NEW block \in Blocks, NEW payload \in Payloads,
             Ingest(source, id, sequence, block, payload)
      PROVE  TextsAreDecimal' /\ CursorIsNewest'
  <2>1. /\ sequence >= 0 /\ sequence \in Int /\ IntOf[Str[sequence]] = sequence
        /\ id \notin DOMAIN events
        /\ DOMAIN events' = DOMAIN events \cup {id}
        /\ \A e \in DOMAIN events : events'[e] = events[e]
        /\ events'[id].source = source /\ events'[id].sequence = Str[sequence]
        /\ events'[id].block_number = block
    BY <1>1, ArgumentAssumption, DecimalAssumption
       DEF Ingest, ValidPosition, NewEvent, Put
  <2>2. \A e \in DOMAIN events : IntOf[events[e].sequence] \in Int
    BY ArgumentAssumption, DecimalAssumption DEF TextsAreDecimal
  <2>3. \A s \in DOMAIN cursors : IntOf[cursors[s].sequence] \in Int
    BY ArgumentAssumption, DecimalAssumption DEF TextsAreDecimal
  <2>4. CASE AdvancesCursor(source, sequence)
    <3>1. /\ DOMAIN cursors' = DOMAIN cursors \cup {source}
          /\ \A s \in DOMAIN cursors : s # source => cursors'[s] = cursors[s]
          /\ cursors'[source].sequence = Str[sequence]
          /\ cursors'[source].block_number = block
          /\ source \in DOMAIN cursors => sequence > IntOf[cursors[source].sequence]
      BY <1>1, <2>4 DEF Ingest, Put, AdvancesCursor
    <3>2. TextsAreDecimal'
      BY <2>1, <3>1 DEF TextsAreDecimal
    <3>3. ASSUME NEW e \in DOMAIN events'
          PROVE  /\ events'[e].source \in DOMAIN cursors'
                 /\ IntOf[events'[e].sequence] <= IntOf[cursors'[events'[e].source].sequence]
      <4>1. CASE e = id
        BY <2>1, <3>1, <4>1
      <4>2. CASE e \in DOMAIN events /\ events[e].source = source
        BY <2>1, <2>2, <2>3, <3>1, <4>2 DEF CursorIsNewest
      <4>3. CASE e \in DOMAIN events /\ events[e].source # source
        BY <2>1, <3>1, <4>3 DEF CursorIsNewest
      <4> QED BY <2>1, <4>1, <4>2, <4>3
    <3>4. ASSUME NEW s \in DOMAIN cursors'
          PROVE  \E e \in DOMAIN events' : /\ events'[e].source = s
                                           /\ events'[e].sequence = cursors'[s].sequence
                                           /\ events'[e].block_number = cursors'[s].block_number
      <4>1. CASE s = source
        BY <2>1, <3>1, <4>1
      <4>2. CASE s \in DOMAIN cursors /\ s # source
        BY <2>1, <3>1, <4>2 DEF CursorIsNewest
      <4> QED BY <3>1, <4>1, <4>2
    <3> QED BY <3>2, <3>3, <3>4 DEF CursorIsNewest
  <2>5. CASE ~AdvancesCursor(source, sequence)
    <3>1. /\ cursors' = cursors /\ source \in DOMAIN cursors
          /\ sequence <= IntOf[cursors[source].sequence]
      BY <1>1, <2>1, <2>3, <2>5 DEF Ingest, AdvancesCursor
    <3>2. TextsAreDecimal'
      BY <2>1, <3>1 DEF TextsAreDecimal
    <3> QED BY <2>1, <3>1, <3>2 DEF CursorIsNewest
  <2> QED BY <2>4, <2>5
<1>2. CASE UNCHANGED <<events, cursors>>
  BY <1>2 DEF TextsAreDecimal, CursorIsNewest
<1> QED BY <1>1, <1>2 DEF Next, Reserve, Prepare, Broadcast, Finish, vars

(***************************************************************************)
(* A cursor is the numerically newest position ingested from its source,   *)
(* for any arrival order of the events.                                    *)
(***************************************************************************)
THEOREM CursorTracksNewest == Spec => []CursorIsNewest
<1>1. Init => TextsAreDecimal /\ CursorIsNewest
  BY DEF Init, EmptyTable, TextsAreDecimal, CursorIsNewest
<1> QED BY <1>1, InitType, NextType, NextCursor, PTL DEF Spec

-----------------------------------------------------------------------------
(* The outbox. *)

(***************************************************************************)
(* The rows of the trail that record outcomes are finitely many, and a     *)
(* row's place among them is a position of a sequence of that length.      *)
(***************************************************************************)
LEMMA PlacesInRange ==
    ASSUME TypeOK
    PROVE  /\ OutcomeRows \subseteq Nat /\ IsFiniteSet(OutcomeRows)
           /\ Cardinality(OutcomeRows) \in Nat
           /\ \A k \in OutcomeRows : Place(k) \in 1..Cardinality(OutcomeRows)
<1>1. IsFiniteSet(DOMAIN audit) /\ DOMAIN audit = 1..Len(audit) /\ Len(audit) \in Nat
  <2>1. DOMAIN audit = 1..Len(audit) /\ Len(audit) \in Nat
    BY DEF TypeOK
  <2> QED BY <2>1, FS_Interval
<1>2. OutcomeRows \subseteq Nat /\ IsFiniteSet(OutcomeRows) /\ Cardinality(OutcomeRows) \in Nat
  BY <1>1, FS_Subset, FS_CardinalityType DEF OutcomeRows
<1>3. ASSUME NEW k \in OutcomeRows PROVE Place(k) \in 1..Cardinality(OutcomeRows)
  <2> DEFINE upTo == {j \in OutcomeRows : j <= k}
  <2>1. /\ IsFiniteSet(upTo) /\ Cardinality(upTo) \in Nat
        /\ Cardinality(upTo) <= Cardinality(OutcomeRows)
    BY <1>2, FS_Subset, FS_CardinalityType
  <2>2. upTo # {}
    BY <1>2
  <2>3. Cardinality(upTo) # 0
    BY <2>1, <2>2, FS_EmptySet
  <2> QED BY <1>2, <2>1, <2>3 DEF Place
<1> QED BY <1>2, <1>3

(***************************************************************************)
(* Every call keeps the outbox in step with the trail: only finish writes  *)
(* an outcome, at the end of both.                                         *)
(***************************************************************************)
LEMMA NextOutbox ==
    TypeOK /\ OutboxMirrorsAudit /\ [Next]_vars => OutboxMirrorsAudit'
<1> SUFFICES ASSUME TypeOK, OutboxMirrorsAudit, [Next]_vars PROVE OutboxMirrorsAudit'
  OBVIOUS
<1>1. ASSUME NEW intent \in IntentIds, NEW transition \in Status \ Outcome,
             AuditAppend(intent, transition), UNCHANGED outbox
      PROVE  OutboxMirrorsAudit'
  <2>1. Appended(intent, transition)
    BY <1>1, AuditAppended
  <2>2. OutcomeRows' = OutcomeRows /\ \A k \in OutcomeRows : audit'[k] = audit[k]
    BY <1>1, <2>1 DEF Appended, OutcomeRows
  <2> QED BY <1>1, <2>2 DEF OutboxMirrorsAudit, Place
<1>2. ASSUME NEW intent \in IntentIds, NEW outcome \in Outcome, Finish(intent, outcome)
      PROVE  OutboxMirrorsAudit'
  <2> DEFINE n == Len(audit) + 1
             rows == OutcomeRows
             size == Cardinality(OutcomeRows)
  <2>1. Appended(intent, outcome)
    BY <1>2, AuditAppended DEF Finish, Status
  <2>2. /\ OutcomeRows' = rows \cup {n} /\ n \notin rows
        /\ \A k \in rows : k < n /\ k \in Nat /\ n \in Nat /\ audit'[k] = audit[k]
    BY <2>1 DEF Appended, OutcomeRows
  <2>3. /\ rows \subseteq Nat /\ IsFiniteSet(rows) /\ size \in Nat
        /\ \A k \in rows : Place(k) \in 1..size
    BY PlacesInRange
  <2>4. Cardinality(OutcomeRows') = size + 1
    BY <2>2, <2>3, FS_AddElement
  <2>5. ASSUME NEW k \in rows PROVE Place(k)' = Place(k)
    <3>1. {j \in OutcomeRows' : j <= k} = {j \in rows : j <= k}
      BY <2>2, <2>3
    <3> QED BY <3>1 DEF Place
  <2>6. Cardinality({j \in OutcomeRows' : j <= n}) = size + 1
    <3>1. {j \in OutcomeRows' : j <= n} = OutcomeRows'
      <4>1. n \in Nat
        BY <2>1 DEF Appended
      <4> HIDE DEF n
      <4>2. \A j \in OutcomeRows' : j <= n
        BY <2>2, <4>1
      <4> QED BY <4>2
    <3> QED BY <2>4, <3>1
  <2>7. /\ outbox \in Seq(OutboxRow) /\ Len(outbox) = size
        /\ [intent |-> intent, outcome |-> outcome] \in OutboxRow
        /\ outbox' = Append(outbox, [intent |-> intent, outcome |-> outcome])
    BY <1>2 DEF TypeOK, OutboxMirrorsAudit, Finish, OutboxRow
  <2>8. /\ Len(outbox') = size + 1
        /\ \A i \in 1..size : outbox'[i] = outbox[i]
        /\ outbox'[size + 1] = [intent |-> intent, outcome |-> outcome]
    BY <2>3, <2>7
  <2>9. ASSUME NEW k \in OutcomeRows'
        PROVE  (outbox[Place(k)])'
                  = [intent |-> audit'[k].intent, outcome |-> audit'[k].transition]
    <3>1. CASE k \in rows
      BY <2>2, <2>3, <2>5, <2>8, <3>1 DEF OutboxMirrorsAudit
    <3>2. CASE k = n
      BY <2>1, <2>6, <2>8, <3>2 DEF Appended, Place
    <3> QED BY <2>2, <3>1, <3>2
  <2> QED BY <2>4, <2>8, <2>9 DEF OutboxMirrorsAudit
<1>3. CASE UNCHANGED <<audit, outbox>>
  BY <1>3 DEF OutboxMirrorsAudit, OutcomeRows, Place
<1>4. {"reserved", "prepared", "broadcast"} \subseteq Status \ Outcome
  BY DEF Status, Outcome, Unfinished
<1> QED BY <1>1, <1>2, <1>3, <1>4 DEF Next, Ingest, Reserve, Prepare, Broadcast, vars

(***************************************************************************)
(* Every recorded outcome is queued for notification exactly once, in the  *)
(* order of the trail, whatever the calls and their order.                 *)
(***************************************************************************)
THEOREM OutcomesAreQueued == Spec => []OutboxMirrorsAudit
<1>1. Init => OutboxMirrorsAudit
  <2>1. ASSUME Init PROVE OutcomeRows = {} /\ Len(outbox) = 0
    BY <2>1 DEF Init, OutcomeRows
  <2> QED BY <2>1, FS_EmptySet DEF OutboxMirrorsAudit
<1> QED BY <1>1, InitType, NextType, NextOutbox, PTL DEF Spec

-----------------------------------------------------------------------------
(* Stored events. *)

(***************************************************************************)
(* No step changes or removes a stored event.                              *)
(***************************************************************************)
THEOREM EventsStay == Spec => EventsAreImmutable
<1>1. [Next]_vars =>
        [\A e \in DOMAIN events : e \in DOMAIN events' /\ events'[e] = events[e]]_vars
  BY DEF Next, Ingest, Put, NewEvent, Reserve, Prepare, Broadcast, Finish, vars
<1> QED BY <1>1, PTL DEF Spec, EventsAreImmutable

=============================================================================
