----------------------- MODULE StoreTransactionsProofs -----------------------
(***************************************************************************)
(* The methods of the store, run statement by statement by any number of   *)
(* callers with storage errors, lock timeouts and crashes, implement the   *)
(* atomic calls of StateStore.  The inductive invariant says, for the one  *)
(* caller that holds the write lock, which checks its call has passed on   *)
(* the committed tables, and by which rows the tables it sees differ from  *)
(* them: nobody else can commit in between.                                *)
(***************************************************************************)
EXTENDS StoreTransactions, FiniteSetTheorems, TLAPS

Tables == {"events", "cursors", "incidents", "intents", "intent_events", "latch",
           "outbox", "audit"}

\* The writer has changed no other tables than these.
OnlyWrote(written) == \A t \in Tables \ written : work[t] = db[t]

EventsOf(r) == {r.event_ids[k] : k \in DOMAIN r.event_ids}

-----------------------------------------------------------------------------
(* What the call of the writer has found in the committed tables. *)

NotBlocked == ~Store!ReservationBlocked

MayReserve(r) ==
    /\ NotBlocked /\ Store!NewIntent(r.intent)
    /\ \A k \in DOMAIN r.event_ids : Store!Reservable(r.event_ids[k])

\* Every check of the call is passed.
Passed(r) ==
    \/ r.op = "ingest" /\ Store!NewEvent(r.event_id) /\ Store!Storable(r.block)
    \/ r.op = "reserve" /\ MayReserve(r) /\ Store!NewIncident(r.incident)
    \/ r.op = "prepare" /\ Store!Storable(r.nonce) /\ Store!HasStatus(r.intent, {"reserved"})
    \/ r.op = "broadcast" /\ Store!HasStatus(r.intent, {"prepared"})
    \/ r.op = "finish" /\ Store!OutcomeAllowed(r.intent, r.outcome)

-----------------------------------------------------------------------------
(* What it has written. *)

WroteEvent(r) == work.events = Store!Put(db.events, r.event_id, Row(r))

WroteCursor(r) ==
    work.cursors = IF Store!AdvancesCursor(r.source, r.sequence)
                   THEN Store!Put(db.cursors, r.source,
                            [sequence |-> Store!Str[r.sequence], block_number |-> r.block])
                   ELSE db.cursors

WroteIncident(r) == work.incidents = Store!Put(db.incidents, r.incident, EventsOf(r))

WroteIntent(r) ==
    work.intents = Store!Put(db.intents, r.intent,
                       [incident_id |-> r.incident, status |-> "reserved",
                        nonce |-> Null, tx_hash |-> Null])

WroteOwners(r) ==
    work.intent_events = [e \in DOMAIN db.intent_events \cup EventsOf(r) |->
                             IF e \in EventsOf(r) THEN r.intent ELSE db.intent_events[e]]

WroteStatus(r) ==
    work.intents =
        CASE r.op = "prepare" ->
                [db.intents EXCEPT ![r.intent].status = "prepared", ![r.intent].nonce = r.nonce]
          [] r.op = "broadcast" ->
                [db.intents EXCEPT ![r.intent].status = "broadcast",
                                   ![r.intent].tx_hash = r.tx_hash]
          [] r.op = "finish" -> [db.intents EXCEPT ![r.intent].status = r.outcome]

\* The tables the call is about, before the audit row.
Updated(r) ==
    \/ /\ r.op = "reserve"
       /\ WroteIncident(r) /\ WroteIntent(r) /\ WroteOwners(r)
       /\ OnlyWrote({"incidents", "intents", "intent_events", "audit"})
    \/ /\ r.op \in {"prepare", "broadcast"}
       /\ WroteStatus(r)
       /\ OnlyWrote({"intents", "audit"})
    \/ /\ r.op = "finish"
       /\ WroteStatus(r) /\ work.latch = Store!LatchAfter(r.outcome)
       /\ OnlyWrote({"intents", "latch", "audit", "outbox"})

Audited(r) == work.audit = Append(db.audit, [intent |-> r.intent, transition |-> Transition(r)])

Notified(r) == work.outbox = Append(db.outbox, [intent |-> r.intent, outcome |-> r.outcome])

\* All of the call is done.
Complete(r) ==
    /\ Passed(r)
    /\ \/ /\ r.op = "ingest"
          /\ WroteEvent(r) /\ WroteCursor(r) /\ OnlyWrote({"events", "cursors"})
       \/ r.op \in {"reserve", "prepare", "broadcast"} /\ Updated(r) /\ Audited(r)
       \/ r.op = "finish" /\ Updated(r) /\ Audited(r) /\ Notified(r)

-----------------------------------------------------------------------------
(* The inductive invariant. *)

\* Exactly this event is stored.
Stored(r) == r.event_id \in DOMAIN db.events /\ db.events[r.event_id] = Row(r)

\* Where a call is, what it has found, what it has written and will return.
Progress(label, r, value) ==
    \/ label = r.op /\ OnlyWrote({})
    \/ label = "ingest_insert" /\ r.op = "ingest" /\ OnlyWrote({}) /\ Store!NewEvent(r.event_id)
    \/ /\ label = "ingest_cursor" /\ r.op = "ingest" /\ OnlyWrote({"events"})
       /\ Passed(r) /\ WroteEvent(r)
    \/ label = "reserve_known" /\ r.op = "reserve" /\ OnlyWrote({}) /\ NotBlocked
    \/ /\ label = "reserve_events" /\ r.op = "reserve" /\ OnlyWrote({})
       /\ NotBlocked /\ Store!NewIntent(r.intent)
    \/ label = "reserve_incident" /\ r.op = "reserve" /\ OnlyWrote({}) /\ MayReserve(r)
    \/ /\ label = "reserve_intent" /\ r.op = "reserve" /\ OnlyWrote({"incidents"})
       /\ Passed(r) /\ WroteIncident(r)
    \/ /\ label = "reserve_own" /\ r.op = "reserve" /\ OnlyWrote({"incidents", "intents"})
       /\ Passed(r) /\ WroteIncident(r) /\ WroteIntent(r)
    \/ label = "finish_update" /\ r.op = "finish" /\ OnlyWrote({}) /\ Passed(r)
    \/ /\ label = "finish_latch" /\ r.op = "finish" /\ OnlyWrote({"intents"})
       /\ Passed(r) /\ WroteStatus(r)
    \/ /\ label = "audit" /\ r.op # "ingest"
       /\ Passed(r) /\ Updated(r) /\ work.audit = db.audit /\ work.outbox = db.outbox
    \/ /\ label = "outbox" /\ r.op = "finish" /\ value = TRUE
       /\ Passed(r) /\ Updated(r) /\ Audited(r) /\ work.outbox = db.outbox
    \/ label = "commit" /\ value = TRUE /\ Complete(r)
    \/ /\ label = "commit" /\ value = FALSE
       /\ OnlyWrote({}) /\ (r.op = "ingest" => Stored(r))

WriterProgress ==
    \A p \in Callers :
        (writer = p /\ request[p] # Null) => Progress(pc[p], request[p], answer[p])

\* The arguments of every call under way have been checked.
ArgumentsChecked ==
    \A p \in Callers : request[p] # Null => ValidArguments(request[p])

TablesExist == DOMAIN db = Tables /\ DOMAIN work = Tables

\* The calls that may still write an audit row.
Pending == {p \in Callers : request[p] # Null /\ pc[p] # "return"}

\* There is room for their rows.
Room ==
    /\ db.audit \in Seq(Store!AuditRow)
    /\ Len(db.audit) + Cardinality(Pending) <= issued

StoreInv == TypeOK /\ TablesExist /\ ArgumentsChecked /\ WriterProgress /\ Room

-----------------------------------------------------------------------------
(* Types and the lock. *)

\* The writer goes on inside its transaction.
GoesOn(p) ==
    /\ writer = p /\ request[p] # Null
    /\ \E label \in Statements \ {"schema"} : Goto(p, label)
    /\ \/ UNCHANGED answer
       \/ \E value \in BOOLEAN : answer' = [answer EXCEPT ![p] = value]
    /\ DOMAIN work' = DOMAIN work
    /\ UNCHANGED <<db, version, writer, request, issued, ok, crashed>>

(***************************************************************************)
(* A statement of a method leaves the transaction only by an exception or  *)
(* by its end.                                                             *)
(***************************************************************************)
LEMMA StatementShapes ==
    ASSUME TypeOK, NEW p \in Callers, Statement(p)
    PROVE  \/ Schema(p) \/ Commit(p)
           \/ writer = p /\ Raise(p)
           \/ GoesOn(p)
<1> USE DEF GoesOn, At, Advance, Return, Goto, Statements
<1>0. pc[p] \in Statements \ {"schema"} => request[p] # Null
  BY DEF TypeOK
<1>1. CASE IngestPrevious(p)
  BY <1>0, <1>1 DEF IngestPrevious
<1>2. CASE IngestInsert(p)
  BY <1>0, <1>2 DEF IngestInsert
<1>3. CASE IngestCursor(p)
  BY <1>0, <1>3 DEF IngestCursor
<1>4. CASE ReserveBlocked(p) \/ ReserveKnown(p)
  BY <1>0, <1>4 DEF ReserveBlocked, ReserveKnown
<1>5. CASE ReserveEvents(p)
  BY <1>0, <1>5 DEF ReserveEvents
<1>6. CASE ReserveIncident(p) \/ ReserveIntent(p)
  BY <1>0, <1>6 DEF ReserveIncident, ReserveIntent
<1>7. CASE ReserveOwn(p)
  BY <1>0, <1>7 DEF ReserveOwn
<1>8. CASE PrepareUpdate(p)
  BY <1>0, <1>8 DEF PrepareUpdate
<1>9. CASE BroadcastUpdate(p)
  BY <1>0, <1>9 DEF BroadcastUpdate
<1>10. CASE FinishCheck(p) \/ FinishUpdate(p)
  BY <1>0, <1>10 DEF FinishCheck, FinishUpdate
<1>11. CASE FinishLatch(p) \/ FinishOutbox(p)
  BY <1>0, <1>11 DEF FinishLatch, FinishOutbox
<1>12. CASE Audit(p)
  BY <1>0, <1>12 DEF Audit
<1> QED BY <1>1, <1>2, <1>3, <1>4, <1>5, <1>6, <1>7, <1>8, <1>9, <1>10, <1>11, <1>12
        DEF Statement

(***************************************************************************)
(* A call under way is one of the five methods.                            *)
(***************************************************************************)
LEMMA OpsAreStatements ==
    ASSUME NEW r \in Requests
    PROVE  r.op \in {"ingest", "reserve", "prepare", "broadcast", "finish"}
BY CallsAssumption DEF IsCall

(***************************************************************************)
(* Every step keeps the lock, the statement and the call of every caller   *)
(* in agreement.                                                           *)
(***************************************************************************)
LEMMA TypeStep == TypeOK /\ TablesExist /\ [Next]_tvars => TypeOK' /\ TablesExist'
<1> SUFFICES ASSUME TypeOK, TablesExist, [Next]_tvars PROVE TypeOK' /\ TablesExist'
  OBVIOUS
<1>0. Null \notin Callers /\ Null \notin Requests /\ DOMAIN Empty = Tables /\ MaxCalls \in Nat
  BY CallsAssumption DEF Empty, Tables
<1>1. ASSUME NEW p \in Callers, Open(p) PROVE TypeOK' /\ TablesExist'
  BY <1>0, <1>1 DEF Open, Goto, TypeOK, TablesExist, Statements
<1>2. ASSUME NEW p \in Callers, NEW r \in Requests, Call(p, r) PROVE TypeOK' /\ TablesExist'
  BY <1>0, <1>2 DEF Call, Goto, TypeOK, TablesExist, Statements
<1>3. ASSUME NEW p \in Callers, Begin(p) PROVE TypeOK' /\ TablesExist'
  BY <1>0, <1>3, OpsAreStatements DEF Begin, Goto, TypeOK, TablesExist, Statements
<1>4. ASSUME NEW p \in Callers, Busy(p) PROVE TypeOK' /\ TablesExist'
  BY <1>0, <1>4 DEF Busy, TypeOK, TablesExist, Statements
<1>5. ASSUME NEW p \in Callers, Schema(p) PROVE TypeOK' /\ TablesExist'
  BY <1>0, <1>5 DEF Schema, At, Goto, TypeOK, TablesExist, Statements
<1>6. ASSUME NEW p \in Callers, Commit(p) PROVE TypeOK' /\ TablesExist'
  BY <1>0, <1>6 DEF Commit, At, Goto, TypeOK, TablesExist, Statements
<1>7. ASSUME NEW p \in Callers, writer = p, Raise(p) PROVE TypeOK' /\ TablesExist'
  BY <1>0, <1>7 DEF Raise, TypeOK, TablesExist, Statements
<1>8. ASSUME NEW p \in Callers, GoesOn(p) PROVE TypeOK' /\ TablesExist'
  BY <1>0, <1>8 DEF GoesOn, Goto, TypeOK, TablesExist, Statements
<1>9. ASSUME NEW p \in Callers, Deliver(p) PROVE TypeOK' /\ TablesExist'
  BY <1>0, <1>9 DEF Deliver, Goto, TypeOK, TablesExist, Statements
<1>10. ASSUME NEW p \in Callers, Crash(p) PROVE TypeOK' /\ TablesExist'
  BY <1>0, <1>10 DEF Crash, Goto, TypeOK, TablesExist, Statements
<1>11. CASE UNCHANGED tvars
  BY <1>11 DEF tvars, TypeOK, TablesExist
<1> QED BY <1>1, <1>2, <1>3, <1>4, <1>5, <1>6, <1>7, <1>8, <1>9, <1>10, <1>11, StatementShapes
        DEF Next, StorageError

(***************************************************************************)
(* The lock discipline: at every moment at most one caller is between its  *)
(* BEGIN and its COMMIT or ROLLBACK, and it is the one that holds the lock.*)
(***************************************************************************)
THEOREM LockDiscipline == Spec => []TypeOK
<1>1. Init => TypeOK /\ TablesExist
  BY CallsAssumption DEF Init, TypeOK, TablesExist, Tables, Empty, Statements
<1> QED BY <1>1, TypeStep, PTL DEF Spec

-----------------------------------------------------------------------------
(* One statement of the writer. *)

(***************************************************************************)
(* What a call has found stays true while nobody commits.                  *)
(***************************************************************************)
LEMMA PassedKept ==
    ASSUME UNCHANGED db, NEW r, Passed(r)
    PROVE  Passed(r)'
BY DEF Passed, MayReserve, NotBlocked, Store!ReservationBlocked, Store!UnfinishedIntents,
       Store!NewIntent, Store!Reservable, Store!NewEvent, Store!Storable, Store!NewIncident,
       Store!HasStatus, Store!OutcomeAllowed

(***************************************************************************)
(* What a call has found and written depends on the tables alone.          *)
(***************************************************************************)
LEMMA ProgressKept ==
    ASSUME UNCHANGED <<db, work>>, NEW label, NEW r, NEW value, Progress(label, r, value)
    PROVE  Progress(label, r, value)'
<1>0. db' = db /\ work' = work
  OBVIOUS
<1>1. \A written : OnlyWrote(written)' <=> OnlyWrote(written)
  BY <1>0 DEF OnlyWrote
<1>2. /\ NotBlocked' <=> NotBlocked
      /\ Store!NewIntent(r.intent)' <=> Store!NewIntent(r.intent)
      /\ Store!NewEvent(r.event_id)' <=> Store!NewEvent(r.event_id)
      /\ MayReserve(r)' <=> MayReserve(r)
  BY <1>0 DEF NotBlocked, MayReserve, Store!ReservationBlocked, Store!UnfinishedIntents,
              Store!NewIntent, Store!NewEvent, Store!Reservable
<1>3. Passed(r)' <=> Passed(r)
  BY <1>0, <1>2 DEF Passed, Store!NewEvent, Store!Storable, Store!NewIncident, Store!HasStatus,
                    Store!OutcomeAllowed
<1>4. /\ (WroteEvent(r)' <=> WroteEvent(r))
      /\ (WroteCursor(r)' <=> WroteCursor(r))
      /\ (WroteIncident(r)' <=> WroteIncident(r))
      /\ (WroteIntent(r)' <=> WroteIntent(r))
      /\ (WroteOwners(r)' <=> WroteOwners(r))
      /\ (WroteStatus(r)' <=> WroteStatus(r))
      /\ (Audited(r)' <=> Audited(r))
      /\ (Notified(r)' <=> Notified(r))
  BY <1>0 DEF WroteEvent, WroteCursor, WroteIncident, WroteIntent, WroteOwners, WroteStatus,
              Audited, Notified, Store!AdvancesCursor
<1>5. Updated(r)' <=> Updated(r)
  BY <1>0, <1>1, <1>4 DEF Updated, Store!LatchAfter
<1>6. Complete(r)' <=> Complete(r)
  BY <1>1, <1>3, <1>4, <1>5 DEF Complete
<1>7. Stored(r)' <=> Stored(r)
  BY <1>0 DEF Stored
<1> QED BY <1>0, <1>1, <1>2, <1>3, <1>4, <1>5, <1>6, <1>7 DEF Progress

(***************************************************************************)
(* The two instances of StateStore share their conversions.                *)
(***************************************************************************)
LEMMA SameConversions == Work!IntOf = Store!IntOf /\ Work!Str = Store!Str
BY DEF Work!IntOf, Store!IntOf, Work!Str, Store!Str, Work!Text, Store!Text

(***************************************************************************)
(* The statements of ingest take a call from check to check and row to row.*)
(***************************************************************************)
LEMMA IngestProgress ==
    ASSUME TablesExist, NEW p \in Callers, DOMAIN pc = Callers,
           DOMAIN answer = Callers, NEW r \in Requests, request[p] = r, GoesOn(p),
           Progress(pc[p], r, answer[p]),
           IngestPrevious(p) \/ IngestInsert(p) \/ IngestCursor(p)
    PROVE  Progress(pc[p], r, answer[p])'
<1>0. /\ db' = db /\ writer' = p /\ p # Null
      /\ \A label : Goto(p, label) => pc'[p] = label
  BY CallsAssumption DEF GoesOn, Goto
<1>1. CASE IngestPrevious(p)
  <2>1. pc[p] = "ingest" /\ ~Raise(p) /\ work' = work
    BY <1>0, <1>1 DEF IngestPrevious, At, Advance, Return, Raise
  <2>2. OnlyWrote({}) /\ r.op = "ingest"
    BY <2>1, OpsAreStatements DEF Progress
  <2>3. OnlyWrote({})'
    BY <1>0, <2>1, <2>2 DEF OnlyWrote
  <2>4. CASE Return(p, FALSE) /\ ~Work!NewEvent(r.event_id) /\ work.events[r.event_id] = Row(r)
    <3>1. pc'[p] = "commit" /\ answer'[p] = FALSE
      BY <1>0, <2>4 DEF Return
    <3>2. Stored(r)'
      BY <1>0, <2>2, <2>4 DEF Stored, OnlyWrote, Tables, Work!NewEvent
    <3> QED BY <2>3, <3>1, <3>2 DEF Progress
  <2>5. CASE pc'[p] = "ingest_insert" /\ Work!NewEvent(r.event_id)
    <3>1. Store!NewEvent(r.event_id)'
      BY <1>0, <2>2, <2>5 DEF OnlyWrote, Tables, Work!NewEvent, Store!NewEvent
    <3> QED BY <2>2, <2>3, <2>5, <3>1 DEF Progress
  <2> QED BY <1>0, <1>1, <2>1, <2>4, <2>5 DEF IngestPrevious, Advance
<1>2. CASE IngestInsert(p)
  <2>1. pc[p] = "ingest_insert" /\ ~Raise(p)
    BY <1>0, <1>2 DEF IngestInsert, At, Advance, Return, Raise
  <2>2. OnlyWrote({}) /\ r.op = "ingest" /\ Store!NewEvent(r.event_id)
    BY <2>1, OpsAreStatements DEF Progress
  <2>3. /\ pc'[p] = "ingest_cursor" /\ Work!Storable(r.block)
        /\ work' = [work EXCEPT !.events = Work!Put(@, r.event_id, Row(r))]
    BY <1>0, <1>2, <2>1 DEF IngestInsert, Advance
  <2>4. OnlyWrote({"events"})'
    BY <1>0, <2>2, <2>3 DEF OnlyWrote, Tables, TablesExist
  <2>5. WroteEvent(r)'
    BY <1>0, <2>2, <2>3 DEF OnlyWrote, Tables, TablesExist, WroteEvent, Work!Put, Store!Put
  <2>6. Passed(r)'
    BY <1>0, <2>2, <2>3 DEF Passed, Work!Storable, Store!Storable, Store!NewEvent
  <2> QED BY <2>2, <2>3, <2>4, <2>5, <2>6 DEF Progress
<1>3. CASE IngestCursor(p)
  <2>1. pc[p] = "ingest_cursor" /\ pc'[p] = "commit" /\ answer'[p] = TRUE
    BY <1>0, <1>3 DEF IngestCursor, At
  <2>2. OnlyWrote({"events"}) /\ r.op = "ingest" /\ Passed(r) /\ WroteEvent(r)
    BY <2>1, OpsAreStatements DEF Progress
  <2>3. Work!AdvancesCursor(r.source, r.sequence) <=> Store!AdvancesCursor(r.source, r.sequence)
    BY <2>2, SameConversions DEF OnlyWrote, Tables, Work!AdvancesCursor, Store!AdvancesCursor
  <2>4. /\ work'.events = work.events /\ OnlyWrote({"events", "cursors"})'
        /\ work'.cursors
              = IF Store!AdvancesCursor(r.source, r.sequence)
                THEN Store!Put(db.cursors, r.source,
                         [sequence |-> Store!Str[r.sequence], block_number |-> r.block])
                ELSE db.cursors
    BY <1>0, <1>3, <2>2, <2>3 DEF IngestCursor, OnlyWrote, Tables, TablesExist, Work!Put, Store!Put
  <2>5. WroteEvent(r)' /\ WroteCursor(r)' /\ Passed(r)'
    BY <1>0, <2>2, <2>4
       DEF WroteEvent, WroteCursor, Passed, Store!AdvancesCursor, Store!NewEvent, Store!Storable
  <2> QED BY <2>1, <2>2, <2>4, <2>5 DEF Progress, Complete
<1> QED BY <1>1, <1>2, <1>3

(***************************************************************************)
(* The statements of reserve: the checks are made on the committed tables, *)
(* because the call has written nothing yet.                               *)
(***************************************************************************)
LEMMA ReserveProgress ==
    ASSUME TablesExist, NEW p \in Callers, DOMAIN pc = Callers,
           DOMAIN answer = Callers, NEW r \in Requests, request[p] = r, GoesOn(p),
           Progress(pc[p], r, answer[p]),
           \/ ReserveBlocked(p) \/ ReserveKnown(p) \/ ReserveEvents(p)
           \/ ReserveIncident(p) \/ ReserveIntent(p) \/ ReserveOwn(p)
    PROVE  Progress(pc[p], r, answer[p])'
<1>0. /\ db' = db /\ writer' = p /\ p # Null /\ ~Raise(p)
      /\ \A label : Goto(p, label) => pc'[p] = label
  BY CallsAssumption DEF GoesOn, Goto, Raise
<1>1. CASE ReserveBlocked(p) \/ ReserveKnown(p) \/ ReserveEvents(p)
  <2>1. pc[p] \in {"reserve", "reserve_known", "reserve_events"} /\ work' = work
    BY <1>0, <1>1 DEF ReserveBlocked, ReserveKnown, ReserveEvents, At, Advance, Return
  <2>2. OnlyWrote({}) /\ r.op = "reserve"
    BY <2>1, OpsAreStatements DEF Progress
  <2>3. OnlyWrote({})'
    BY <1>0, <2>1, <2>2 DEF OnlyWrote
  <2>4. CASE pc'[p] = "commit" /\ answer'[p] = FALSE
    BY <2>2, <2>3, <2>4 DEF Progress
  <2>5. CASE ReserveBlocked(p) /\ pc'[p] = "reserve_known" /\ ~Work!ReservationBlocked
    <3>1. NotBlocked'
      BY <1>0, <2>2, <2>5 DEF OnlyWrote, Tables, NotBlocked, Work!ReservationBlocked,
         Store!ReservationBlocked, Work!UnfinishedIntents, Store!UnfinishedIntents,
         Work!Unfinished, Store!Unfinished
    <3> QED BY <2>2, <2>3, <2>5, <3>1 DEF Progress
  <2>6. CASE ReserveKnown(p) /\ pc'[p] = "reserve_events" /\ Work!NewIntent(r.intent)
    <3>1. NotBlocked
      BY <2>6, OpsAreStatements DEF ReserveKnown, At, Progress
    <3>2. NotBlocked' /\ Store!NewIntent(r.intent)'
      BY <1>0, <2>2, <2>6, <3>1 DEF OnlyWrote, Tables, NotBlocked, Store!ReservationBlocked,
         Store!UnfinishedIntents, Work!NewIntent, Store!NewIntent
    <3> QED BY <2>2, <2>3, <2>6, <3>2 DEF Progress
  <2>7. CASE /\ ReserveEvents(p) /\ pc'[p] = "reserve_incident"
             /\ \A k \in DOMAIN r.event_ids : Work!Reservable(r.event_ids[k])
    <3>1. NotBlocked /\ Store!NewIntent(r.intent)
      BY <2>7, OpsAreStatements DEF ReserveEvents, At, Progress
    <3>2. \A k \in DOMAIN r.event_ids : Store!Reservable(r.event_ids[k])
      BY <2>2, <2>7 DEF OnlyWrote, Tables, Work!Reservable, Store!Reservable
    <3>3. MayReserve(r)'
      BY <1>0, <3>1, <3>2 DEF MayReserve, NotBlocked, Store!ReservationBlocked,
         Store!UnfinishedIntents, Store!NewIntent, Store!Reservable
    <3> QED BY <2>2, <2>3, <2>7, <3>3 DEF Progress
  <2>8. ReserveBlocked(p) =>
           \/ pc'[p] = "commit" /\ answer'[p] = FALSE
           \/ (pc'[p] = "reserve_known" /\ ~Work!ReservationBlocked)
    BY <1>0 DEF ReserveBlocked, Advance, Return
  <2>9. ReserveKnown(p) =>
           \/ pc'[p] = "commit" /\ answer'[p] = FALSE
           \/ (pc'[p] = "reserve_events" /\ Work!NewIntent(r.intent))
    BY <1>0 DEF ReserveKnown, Advance, Return
  <2>10. ReserveEvents(p) =>
            \/ pc'[p] = "commit" /\ answer'[p] = FALSE
            \/ /\ pc'[p] = "reserve_incident"
               /\ \A k \in DOMAIN r.event_ids : Work!Reservable(r.event_ids[k])
    BY <1>0 DEF ReserveEvents, Advance, Return
  <2> QED BY <1>1, <2>4, <2>5, <2>6, <2>7, <2>8, <2>9, <2>10
<1>2. CASE ReserveIncident(p)
  <2>1. pc[p] = "reserve_incident"
    BY <1>2 DEF ReserveIncident, At
  <2>2. OnlyWrote({}) /\ r.op = "reserve" /\ MayReserve(r)
    BY <2>1, OpsAreStatements DEF Progress
  <2>3. /\ pc'[p] = "reserve_intent" /\ Work!NewIncident(r.incident)
        /\ work' = [work EXCEPT !.incidents = Work!Put(@, r.incident, EventsOf(r))]
    BY <1>0, <1>2 DEF ReserveIncident, Advance, EventsOf
  <2>4. OnlyWrote({"incidents"})' /\ WroteIncident(r)'
    BY <1>0, <2>2, <2>3
       DEF OnlyWrote, Tables, TablesExist, WroteIncident, Work!Put, Store!Put, EventsOf
  <2>5. Passed(r)'
    <3>1. Store!NewIncident(r.incident)
      BY <2>2, <2>3 DEF OnlyWrote, Tables, Work!NewIncident, Store!NewIncident
    <3> QED BY <1>0, <2>2, <3>1 DEF Passed, MayReserve, NotBlocked, Store!ReservationBlocked,
            Store!UnfinishedIntents, Store!NewIntent, Store!Reservable, Store!NewIncident
  <2> QED BY <2>2, <2>3, <2>4, <2>5 DEF Progress
<1>3. Passed(r) => Passed(r)'
  BY <1>0, PassedKept
<1>4. CASE ReserveIntent(p)
  <2>1. pc[p] = "reserve_intent"
    BY <1>4 DEF ReserveIntent, At
  <2>2. OnlyWrote({"incidents"}) /\ r.op = "reserve" /\ Passed(r) /\ WroteIncident(r)
    BY <2>1, OpsAreStatements DEF Progress
  <2>3. /\ pc'[p] = "reserve_own"
        /\ work' = [work EXCEPT !.intents = Work!Put(@, r.intent,
                        [incident_id |-> r.incident, status |-> "reserved",
                         nonce |-> Null, tx_hash |-> Null])]
    BY <1>0, <1>4 DEF ReserveIntent, Advance
  <2>4. /\ OnlyWrote({"incidents", "intents"})'
        /\ work'.incidents = work.incidents
        /\ work'.intents = Work!Put(db.intents, r.intent,
                               [incident_id |-> r.incident, status |-> "reserved",
                                nonce |-> Null, tx_hash |-> Null])
    BY <1>0, <2>2, <2>3 DEF OnlyWrote, Tables, TablesExist
  <2>5. WroteIncident(r)' /\ WroteIntent(r)'
    BY <1>0, <2>2, <2>4 DEF WroteIncident, WroteIntent, Work!Put, Store!Put
  <2> QED BY <1>3, <2>2, <2>3, <2>4, <2>5 DEF Progress
<1>5. CASE ReserveOwn(p)
  <2>1. pc[p] = "reserve_own"
    BY <1>5 DEF ReserveOwn, At
  <2>2. /\ OnlyWrote({"incidents", "intents"}) /\ r.op = "reserve"
        /\ Passed(r) /\ WroteIncident(r) /\ WroteIntent(r)
    BY <2>1, OpsAreStatements DEF Progress
  <2>3. /\ pc'[p] = "audit"
        /\ work' = [work EXCEPT !.intent_events =
                        [e \in DOMAIN @ \cup EventsOf(r) |->
                            IF e \in EventsOf(r) THEN r.intent ELSE @[e]]]
    BY <1>0, <1>5 DEF ReserveOwn, Advance, EventsOf
  <2>4. /\ OnlyWrote({"incidents", "intents", "intent_events", "audit"})'
        /\ work'.incidents = work.incidents /\ work'.intents = work.intents
        /\ work'.audit = db.audit /\ work'.outbox = db.outbox
        /\ work'.intent_events = [e \in DOMAIN db.intent_events \cup EventsOf(r) |->
                            IF e \in EventsOf(r) THEN r.intent ELSE db.intent_events[e]]
    BY <1>0, <2>2, <2>3 DEF OnlyWrote, Tables, TablesExist
  <2>5. WroteIncident(r)' /\ WroteIntent(r)' /\ WroteOwners(r)'
    BY <1>0, <2>2, <2>4 DEF WroteIncident, WroteIntent, WroteOwners
  <2>6. Updated(r)' /\ (work.audit = db.audit /\ work.outbox = db.outbox)'
    BY <1>0, <2>2, <2>4, <2>5 DEF Updated
  <2> QED BY <1>3, <2>2, <2>3, <2>6 DEF Progress
<1> QED BY <1>1, <1>2, <1>4, <1>5

(***************************************************************************)
(* The statements of prepare, broadcast and finish: the UPDATE matches the *)
(* committed row, and nobody changes it before the audit row is written.   *)
(***************************************************************************)
LEMMA TransitionProgress ==
    ASSUME TablesExist, NEW p \in Callers, DOMAIN pc = Callers,
           DOMAIN answer = Callers, NEW r \in Requests, request[p] = r, GoesOn(p),
           Progress(pc[p], r, answer[p]),
           \/ PrepareUpdate(p) \/ BroadcastUpdate(p)
           \/ FinishCheck(p) \/ FinishUpdate(p) \/ FinishLatch(p)
    PROVE  Progress(pc[p], r, answer[p])'
<1>0. /\ db' = db /\ writer' = p /\ p # Null /\ ~Raise(p)
      /\ \A label : Goto(p, label) => pc'[p] = label
  BY CallsAssumption DEF GoesOn, Goto, Raise
<1>1. CASE PrepareUpdate(p)
  <2>1. pc[p] = "prepare"
    BY <1>1 DEF PrepareUpdate, At
  <2>2. OnlyWrote({}) /\ r.op = "prepare"
    BY <2>1, OpsAreStatements DEF Progress
  <2>3. /\ pc'[p] = "audit" /\ Work!Storable(r.nonce) /\ Work!HasStatus(r.intent, {"reserved"})
        /\ work' = [work EXCEPT !.intents[r.intent].status = "prepared",
                                !.intents[r.intent].nonce = r.nonce]
    BY <1>0, <1>1 DEF PrepareUpdate, Advance
  <2>4. /\ OnlyWrote({"intents", "audit"})' /\ work'.audit = db.audit /\ work'.outbox = db.outbox
        /\ work'.intents = [work.intents EXCEPT ![r.intent].status = "prepared",
                                                ![r.intent].nonce = r.nonce]
    BY <1>0, <2>2, <2>3 DEF OnlyWrote, Tables, TablesExist
  <2>5. work.intents = db.intents
    BY <2>2 DEF OnlyWrote, Tables
  <2>6. WroteStatus(r)'
    BY <1>0, <2>2, <2>4, <2>5 DEF WroteStatus
  <2>7. Passed(r)'
    BY <1>0, <2>2, <2>3, <2>5
       DEF Passed, Work!Storable, Store!Storable, Work!HasStatus, Store!HasStatus
  <2>8. Updated(r)' /\ (work.audit = db.audit /\ work.outbox = db.outbox)'
    BY <1>0, <2>2, <2>4, <2>6 DEF Updated
  <2> QED BY <2>2, <2>3, <2>7, <2>8 DEF Progress
<1>2. CASE BroadcastUpdate(p)
  <2>1. pc[p] = "broadcast"
    BY <1>2 DEF BroadcastUpdate, At
  <2>2. OnlyWrote({}) /\ r.op = "broadcast"
    BY <2>1, OpsAreStatements DEF Progress
  <2>3. /\ pc'[p] = "audit" /\ Work!HasStatus(r.intent, {"prepared"})
        /\ work' = [work EXCEPT !.intents[r.intent].status = "broadcast",
                                !.intents[r.intent].tx_hash = r.tx_hash]
    BY <1>0, <1>2 DEF BroadcastUpdate, Advance
  <2>4. /\ OnlyWrote({"intents", "audit"})' /\ work'.audit = db.audit /\ work'.outbox = db.outbox
        /\ work'.intents = [work.intents EXCEPT ![r.intent].status = "broadcast",
                                                ![r.intent].tx_hash = r.tx_hash]
    BY <1>0, <2>2, <2>3 DEF OnlyWrote, Tables, TablesExist
  <2>5. work.intents = db.intents
    BY <2>2 DEF OnlyWrote, Tables
  <2>6. WroteStatus(r)'
    BY <1>0, <2>2, <2>4, <2>5 DEF WroteStatus
  <2>7. Passed(r)'
    BY <1>0, <2>2, <2>3, <2>5 DEF Passed, Work!HasStatus, Store!HasStatus
  <2>8. Updated(r)' /\ (work.audit = db.audit /\ work.outbox = db.outbox)'
    BY <1>0, <2>2, <2>4, <2>6 DEF Updated
  <2> QED BY <2>2, <2>3, <2>7, <2>8 DEF Progress
<1>3. CASE FinishCheck(p)
  <2>1. pc[p] = "finish"
    BY <1>3 DEF FinishCheck, At
  <2>2. OnlyWrote({}) /\ r.op = "finish"
    BY <2>1, OpsAreStatements DEF Progress
  <2>3. pc'[p] = "finish_update" /\ Work!OutcomeAllowed(r.intent, r.outcome) /\ work' = work
    BY <1>0, <1>3 DEF FinishCheck, Advance
  <2>4. work.intents = db.intents /\ OnlyWrote({})'
    BY <1>0, <2>2, <2>3 DEF OnlyWrote, Tables
  <2>5. Passed(r)'
    BY <1>0, <2>2, <2>3, <2>4
       DEF Passed, Work!OutcomeAllowed, Store!OutcomeAllowed, Work!HasStatus, Store!HasStatus,
           Work!Receipt, Store!Receipt, Work!Unfinished, Store!Unfinished
  <2> QED BY <2>2, <2>3, <2>4, <2>5 DEF Progress
<1>4. Passed(r) => Passed(r)'
  BY <1>0, PassedKept
<1>5. CASE FinishUpdate(p)
  <2>1. pc[p] = "finish_update"
    BY <1>5 DEF FinishUpdate, At
  <2>2. OnlyWrote({}) /\ r.op = "finish" /\ Passed(r)
    BY <2>1, OpsAreStatements DEF Progress
  <2>3. /\ pc'[p] = "finish_latch"
        /\ work' = [work EXCEPT !.intents[r.intent].status = r.outcome]
    BY <1>0, <1>5 DEF FinishUpdate, Advance
  <2>4. /\ OnlyWrote({"intents"})'
        /\ work'.intents = [work.intents EXCEPT ![r.intent].status = r.outcome]
    BY <1>0, <2>2, <2>3 DEF OnlyWrote, Tables, TablesExist
  <2>5. work.intents = db.intents
    BY <2>2 DEF OnlyWrote, Tables
  <2>6. WroteStatus(r)'
    BY <1>0, <2>2, <2>4, <2>5 DEF WroteStatus
  <2> QED BY <1>4, <2>2, <2>3, <2>4, <2>6 DEF Progress
<1>6. CASE FinishLatch(p)
  <2>1. pc[p] = "finish_latch"
    BY <1>6 DEF FinishLatch, At
  <2>2. OnlyWrote({"intents"}) /\ r.op = "finish" /\ Passed(r) /\ WroteStatus(r)
    BY <2>1, OpsAreStatements DEF Progress
  <2>3. /\ pc'[p] = "audit"
        /\ work' = [work EXCEPT !.latch = Work!LatchAfter(r.outcome)]
    BY <1>0, <1>6 DEF FinishLatch, Advance
  <2>4. /\ OnlyWrote({"intents", "latch", "audit", "outbox"})'
        /\ work'.audit = db.audit /\ work'.outbox = db.outbox
        /\ work'.intents = work.intents /\ work'.latch = Work!LatchAfter(r.outcome)
    BY <1>0, <2>2, <2>3 DEF OnlyWrote, Tables, TablesExist
  <2>5. work.latch = db.latch
    BY <2>2 DEF OnlyWrote, Tables
  <2>6. WroteStatus(r)' /\ (work.latch = Store!LatchAfter(r.outcome))'
    BY <1>0, <2>2, <2>4, <2>5 DEF WroteStatus, Work!LatchAfter, Store!LatchAfter
  <2>7. Updated(r)' /\ (work.audit = db.audit /\ work.outbox = db.outbox)'
    BY <1>0, <2>2, <2>4, <2>6 DEF Updated
  <2> QED BY <1>4, <2>2, <2>3, <2>7 DEF Progress
<1> QED BY <1>1, <1>2, <1>3, <1>5, <1>6

(***************************************************************************)
(* The audit row and the notification complete the call.                   *)
(***************************************************************************)
LEMMA AuditProgress ==
    ASSUME TablesExist, NEW p \in Callers, DOMAIN pc = Callers,
           DOMAIN answer = Callers, NEW r \in Requests, request[p] = r, GoesOn(p),
           Progress(pc[p], r, answer[p]), Audit(p) \/ FinishOutbox(p)
    PROVE  Progress(pc[p], r, answer[p])'
<1>0. /\ db' = db /\ writer' = p /\ p # Null
      /\ \A label : Goto(p, label) => pc'[p] = label
  BY CallsAssumption DEF GoesOn, Goto
<1>1. CASE Audit(p)
  <2>1. pc[p] = "audit"
    BY <1>1 DEF Audit, At
  <2>2. /\ r.op \in {"reserve", "prepare", "broadcast", "finish"} /\ Passed(r) /\ Updated(r)
        /\ work.audit = db.audit /\ work.outbox = db.outbox
    BY <2>1, OpsAreStatements DEF Progress
  <2>3. /\ pc'[p] = IF r.op = "finish" THEN "outbox" ELSE "commit"
        /\ answer'[p] = TRUE
        /\ work' = [work EXCEPT !.audit =
                        Append(@, [intent |-> r.intent, transition |-> Transition(r)])]
    BY <1>0, <1>1 DEF Audit
  <2>4. /\ \A t \in Tables \ {"audit"} : work'[t] = work[t]
        /\ work'.audit = Append(db.audit, [intent |-> r.intent, transition |-> Transition(r)])
    BY <2>2, <2>3 DEF Tables, TablesExist
  <2>5. Audited(r)' /\ (work.outbox = db.outbox)'
    BY <1>0, <2>2, <2>4 DEF Audited, Tables
  <2>6. Updated(r)'
    <3>1. /\ work'.incidents = work.incidents /\ work'.intents = work.intents
          /\ work'.intent_events = work.intent_events /\ work'.latch = work.latch
      BY <2>4 DEF Tables
    <3>2. \A written : "audit" \in written /\ OnlyWrote(written) => OnlyWrote(written)'
      BY <1>0, <2>4 DEF OnlyWrote
    <3> QED BY <1>0, <2>2, <3>1, <3>2
         DEF Updated, WroteIncident, WroteIntent, WroteOwners, WroteStatus, Store!LatchAfter
  <2>7. Passed(r)'
    BY <1>0, <2>2, PassedKept
  <2> QED BY <2>2, <2>3, <2>5, <2>6, <2>7 DEF Progress, Complete
<1>2. CASE FinishOutbox(p)
  <2>1. pc[p] = "outbox"
    BY <1>2 DEF FinishOutbox, At
  <2>2. /\ r.op = "finish" /\ Passed(r) /\ Updated(r) /\ Audited(r) /\ work.outbox = db.outbox
        /\ answer[p] = TRUE
    BY <2>1, OpsAreStatements DEF Progress
  <2>3. /\ pc'[p] = "commit" /\ answer'[p] = answer[p]
        /\ work' = [work EXCEPT !.outbox =
                        Append(@, [intent |-> r.intent, outcome |-> r.outcome])]
    BY <1>0, <1>2 DEF FinishOutbox, Advance
  <2>4. /\ \A t \in Tables \ {"outbox"} : work'[t] = work[t]
        /\ work'.outbox = Append(db.outbox, [intent |-> r.intent, outcome |-> r.outcome])
    BY <2>2, <2>3 DEF Tables, TablesExist
  <2>5. Notified(r)' /\ Audited(r)'
    BY <1>0, <2>2, <2>4 DEF Notified, Audited, Tables
  <2>6. Updated(r)'
    <3>1. work'.intents = work.intents /\ work'.latch = work.latch
      BY <2>4 DEF Tables
    <3>2. \A written : "outbox" \in written /\ OnlyWrote(written) => OnlyWrote(written)'
      BY <1>0, <2>4 DEF OnlyWrote
    <3> QED BY <1>0, <2>2, <3>1, <3>2 DEF Updated, WroteStatus, Store!LatchAfter
  <2>7. Passed(r)'
    BY <1>0, <2>2, PassedKept
  <2> QED BY <2>2, <2>3, <2>5, <2>6, <2>7 DEF Progress, Complete
<1> QED BY <1>1, <1>2

-----------------------------------------------------------------------------
(* Every step of every caller. *)

(***************************************************************************)
(* No step but a commit by the writer touches the committed tables, and no *)
(* step of another caller touches what the writer sees.                    *)
(***************************************************************************)
LEMMA StepShapes ==
    ASSUME TypeOK, Next
    PROVE  \E p \in Callers :
              \/ /\ UNCHANGED <<db, writer, work>> /\ writer # p
                 /\ \E label, r, value : /\ pc' = [pc EXCEPT ![p] = label]
                                         /\ request' = [request EXCEPT ![p] = r]
                                         /\ answer' = [answer EXCEPT ![p] = value]
              \/ Begin(p)
              \/ GoesOn(p) /\ Statement(p)
              \/ writer' = Null /\ UNCHANGED db
              \/ Commit(p)
<1>1. PICK p \in Callers :
         \/ Open(p) \/ (\E r \in Requests : Call(p, r)) \/ Begin(p) \/ Busy(p)
         \/ Statement(p) \/ Deliver(p) \/ StorageError(p) \/ Crash(p)
  BY DEF Next
<1>2. /\ pc \in [Callers -> Statements \cup {"closed", "idle", "begin", "return"}]
      /\ request \in [Callers -> Requests \cup {Null}]
      /\ request = [request EXCEPT ![p] = request[p]]
      /\ answer = [answer EXCEPT ![p] = answer[p]]
      /\ writer = p <=> pc[p] \in Statements
      /\ pc[p] \in {"closed", "idle", "begin", "return"} => writer # p
  BY DEF TypeOK, Statements
<1>3. CASE Open(p)
  <2>1. /\ UNCHANGED <<db, writer, work>> /\ writer # p
        /\ pc' = [pc EXCEPT ![p] = "begin"]
        /\ request' = [request EXCEPT ![p] = request[p]]
        /\ answer' = [answer EXCEPT ![p] = answer[p]]
    BY <1>2, <1>3 DEF Open, Goto
  <2> QED BY <2>1
<1>4. CASE \E r \in Requests : Call(p, r)
  <2>1. PICK r \in Requests : Call(p, r)
    BY <1>4
  <2>2. /\ UNCHANGED <<db, writer, work>> /\ writer # p
        /\ pc' = [pc EXCEPT ![p] = "begin"]
        /\ request' = [request EXCEPT ![p] = r]
        /\ answer' = [answer EXCEPT ![p] = answer[p]]
    BY <1>2, <2>1 DEF Call, Goto
  <2> QED BY <2>2
<1>5. CASE Busy(p)
  BY <1>2, <1>5 DEF Busy
<1>6. CASE Statement(p)
  BY <1>6, StatementShapes DEF Schema, Raise
<1>7. CASE Deliver(p)
  BY <1>2, <1>7 DEF Deliver, Goto
<1>8. CASE StorageError(p)
  BY <1>8 DEF StorageError, Raise
<1>9. CASE Crash(p)
  BY <1>2, <1>9 DEF Crash, Goto
<1> QED BY <1>1, <1>3, <1>4, <1>5, <1>6, <1>7, <1>8, <1>9

(***************************************************************************)
(* What the writer's call has found and written stays accounted for,       *)
(* whatever step comes next.                                               *)
(***************************************************************************)
LEMMA ProgressNext ==
    ASSUME TypeOK, TablesExist, WriterProgress, Next,
           NEW q \in Callers, writer' = q, request'[q] # Null
    PROVE  Progress(pc[q], request[q], answer[q])'
<1>0. q # Null /\ Null \notin Requests
  BY CallsAssumption
<1>1. /\ DOMAIN pc = Callers /\ DOMAIN answer = Callers
      /\ request \in [Callers -> Requests \cup {Null}]
  BY DEF TypeOK
<1>2. PICK p \in Callers :
         \/ /\ UNCHANGED <<db, writer, work>> /\ writer # p
            /\ \E label, r, value : /\ pc' = [pc EXCEPT ![p] = label]
                                    /\ request' = [request EXCEPT ![p] = r]
                                    /\ answer' = [answer EXCEPT ![p] = value]
         \/ Begin(p)
         \/ GoesOn(p) /\ Statement(p)
         \/ writer' = Null /\ UNCHANGED db
         \/ Commit(p)
  BY StepShapes
<1>3. CASE /\ UNCHANGED <<db, writer, work>> /\ writer # p
           /\ \E label, r, value : /\ pc' = [pc EXCEPT ![p] = label]
                                   /\ request' = [request EXCEPT ![p] = r]
                                   /\ answer' = [answer EXCEPT ![p] = value]
  <2>1. PICK label, r, value : label = pc[q] /\ r = request[q] /\ value = answer[q]
    OBVIOUS
  <2>2. pc'[q] = label /\ request'[q] = r /\ answer'[q] = value /\ Progress(label, r, value)
    BY <1>1, <1>3, <2>1 DEF WriterProgress
  <2>3. Progress(label, r, value)'
    BY <1>3, <2>2, ProgressKept
  <2> QED BY <2>2, <2>3
<1>4. CASE Begin(p)
  <2>1. p = q /\ request'[q] \in Requests /\ request' = request
    BY <1>0, <1>1, <1>4 DEF Begin
  <2>2. PICK r \in Requests : r = request[q]
    BY <2>1
  <2>3. pc'[q] = r.op /\ work' = db'
    BY <1>0, <1>1, <1>4, <2>1, <2>2 DEF Begin, Goto
  <2>4. Progress(r.op, r, answer[q])'
    BY <2>3 DEF Progress, OnlyWrote
  <2> QED BY <2>1, <2>2, <2>3, <2>4
<1>5. CASE GoesOn(p) /\ Statement(p)
  <2>1. p = q /\ request' = request /\ request[q] \in Requests /\ writer = q
    BY <1>1, <1>5 DEF GoesOn
  <2>2. PICK r \in Requests : r = request[q]
    BY <2>1
  <2>3. Progress(pc[q], r, answer[q])
    BY <1>0, <2>1, <2>2 DEF WriterProgress
  <2>4. ~Schema(q) /\ ~Commit(q)
    BY <1>0, <2>1 DEF Schema, Commit
  <2>5. Progress(pc[q], r, answer[q])'
    BY <1>1, <1>5, <2>1, <2>2, <2>3, <2>4,
       IngestProgress, ReserveProgress, TransitionProgress, AuditProgress DEF Statement
  <2> QED BY <2>1, <2>2, <2>5
<1>6. CASE writer' = Null \/ Commit(p)
  BY <1>0, <1>6 DEF Commit
<1> QED BY <1>2, <1>3, <1>4, <1>5, <1>6

(***************************************************************************)
(* WriterProgress is inductive.                                            *)
(***************************************************************************)
LEMMA WriterProgressStep ==
    TypeOK /\ TablesExist /\ WriterProgress /\ [Next]_tvars => WriterProgress'
<1> SUFFICES ASSUME TypeOK, TablesExist, WriterProgress, [Next]_tvars,
                    NEW q \in Callers, writer' = q, request'[q] # Null
             PROVE  Progress(pc[q], request[q], answer[q])'
  BY DEF WriterProgress
<1>1. CASE UNCHANGED tvars
  <2>1. PICK label, r, value : label = pc[q] /\ r = request[q] /\ value = answer[q]
    OBVIOUS
  <2>2. UNCHANGED <<db, work, writer, pc, request, answer>>
    BY <1>1 DEF tvars
  <2>3. Progress(label, r, value)
    BY <2>1, <2>2 DEF WriterProgress
  <2>4. Progress(label, r, value)'
    BY <2>2, <2>3, ProgressKept
  <2> QED BY <2>1, <2>2, <2>4
<1> QED BY <1>1, ProgressNext

(***************************************************************************)
(* A call under way passed its argument checks.                            *)
(***************************************************************************)
LEMMA ArgumentsStep == TypeOK /\ ArgumentsChecked /\ [Next]_tvars => ArgumentsChecked'
<1> SUFFICES ASSUME TypeOK, ArgumentsChecked, [Next]_tvars PROVE ArgumentsChecked'
  OBVIOUS
<1>0. request \in [Callers -> Requests \cup {Null}] /\ Null \notin Requests
  BY CallsAssumption DEF TypeOK
<1>1. CASE UNCHANGED request
  BY <1>1 DEF ArgumentsChecked
<1>2. CASE \E p \in Callers : request' = [request EXCEPT ![p] = Null]
  BY <1>0, <1>2 DEF ArgumentsChecked
<1>3. CASE \E p \in Callers, r \in Requests : Call(p, r)
  BY <1>0, <1>3 DEF Call, ArgumentsChecked
<1> QED BY <1>1, <1>2, <1>3, StatementShapes
        DEF Next, Open, Begin, Busy, Schema, Commit, Raise, GoesOn, Deliver, StorageError,
            Crash, tvars

-----------------------------------------------------------------------------
(* Refinement. *)

(***************************************************************************)
(* The committed tables of a complete call differ by one audit row, or by  *)
(* none for ingest.                                                        *)
(***************************************************************************)
LEMMA CommittedAudit ==
    ASSUME StoreInv, NEW p \in Callers, Commit(p)
    PROVE  /\ request[p] \in Requests
           /\ \/ db'.audit = db.audit
              \/ \E row \in Store!AuditRow : db'.audit = Append(db.audit, row)
<1>0. request[p] \in Requests /\ writer = p /\ pc[p] = "commit" /\ db' = work
  BY DEF StoreInv, TypeOK, Commit, At, Statements
<1>1. PICK r \in Requests : r = request[p]
  BY <1>0
<1>2. OnlyWrote({}) \/ Complete(r)
  <2>1. Progress("commit", r, answer[p])
    BY <1>0, <1>1, CallsAssumption DEF StoreInv, WriterProgress
  <2> QED BY <2>1, OpsAreStatements DEF Progress
<1>3. CASE OnlyWrote({})
  BY <1>0, <1>3 DEF OnlyWrote, Tables
<1>4. CASE Complete(r) /\ r.op = "ingest"
  BY <1>0, <1>4 DEF Complete, OnlyWrote, Tables
<1>5. CASE Complete(r) /\ r.op # "ingest"
  <2>1. Audited(r)
    BY <1>5 DEF Complete
  <2>2. [intent |-> r.intent, transition |-> Transition(r)] \in Store!AuditRow
    <3>1. IsCall(r)
      BY CallsAssumption
    <3>2. r.intent \in IntentIds
      BY <1>5, <3>1 DEF IsCall
    <3>3. Transition(r) \in Store!Status
      BY <1>5, <3>1 DEF IsCall, Transition, Store!Status, Store!Unfinished
    <3> QED BY <3>2, <3>3 DEF Store!AuditRow
  <2> QED BY <1>0, <2>1, <2>2 DEF Audited
<1> QED BY <1>0, <1>2, <1>3, <1>4, <1>5

(***************************************************************************)
(* A call in progress is counted once: its audit row, if it writes one,    *)
(* takes its place in the count.                                           *)
(***************************************************************************)
LEMMA RoomStep == StoreInv /\ [Next]_tvars => Room'
<1> SUFFICES ASSUME StoreInv, [Next]_tvars PROVE Room'
  OBVIOUS
<1>0. /\ db.audit \in Seq(Store!AuditRow) /\ Len(db.audit) \in Nat
      /\ IsFiniteSet(Pending) /\ Cardinality(Pending) \in Nat /\ issued \in Nat
      /\ Len(db.audit) + Cardinality(Pending) <= issued
  <2>1. IsFiniteSet(Pending)
    BY CallsAssumption, FS_Subset DEF Pending
  <2> QED BY <2>1, FS_CardinalityType DEF StoreInv, Room, TypeOK
<1>1. /\ DOMAIN pc = Callers /\ request \in [Callers -> Requests \cup {Null}]
      /\ Null \notin Requests
      /\ \A p \in Callers : pc[p] \in {"closed", "idle", "schema"} => request[p] = Null
      /\ \A p \in Callers :
            pc[p] \in (Statements \ {"schema"}) \cup {"return"} => request[p] # Null
  BY CallsAssumption DEF StoreInv, TypeOK
<1>2. CASE /\ Pending' = Pending /\ db'.audit = db.audit /\ issued' = issued
  BY <1>0, <1>2 DEF Room
<1>3. ASSUME NEW p \in Callers, Pending' = Pending \ {p}, UNCHANGED <<db, issued>>
      PROVE  Room'
  <2>1. Cardinality(Pending') \in Nat /\ Cardinality(Pending') <= Cardinality(Pending)
    <3>1. /\ IsFiniteSet(Pending \ {p})
          /\ Cardinality(Pending \ {p}) \in {Cardinality(Pending) - 1, Cardinality(Pending)}
      BY <1>0, FS_RemoveElement
    <3>2. Cardinality(Pending \ {p}) \in Nat
      BY <3>1, FS_CardinalityType
    <3> QED BY <1>0, <1>3, <3>1, <3>2
  <2> QED BY <1>0, <1>3, <2>1 DEF Room
<1>4. ASSUME NEW p \in Callers, NEW r \in Requests, Call(p, r) PROVE Room'
  <2>1. Pending' = Pending \cup {p} /\ issued' = issued + 1 /\ db' = db /\ p \notin Pending
    BY <1>1, <1>4 DEF Call, Goto, Pending
  <2>2. Cardinality(Pending') = Cardinality(Pending) + 1
    BY <1>0, <2>1, FS_AddElement
  <2> QED BY <1>0, <2>1, <2>2 DEF Room
<1>5. ASSUME NEW p \in Callers, Commit(p) PROVE Room'
  <2>1. Pending' = Pending \ {p} /\ issued' = issued /\ p \in Pending
    BY <1>1, <1>5 DEF Commit, At, Goto, Pending, Statements
  <2>2. Cardinality(Pending') = Cardinality(Pending) - 1
    BY <1>0, <2>1, FS_RemoveElement
  <2>3. CASE db'.audit = db.audit
    BY <1>0, <2>1, <2>2, <2>3 DEF Room
  <2>4. ASSUME NEW row \in Store!AuditRow, db'.audit = Append(db.audit, row)
        PROVE  Room'
    <3>1. db'.audit \in Seq(Store!AuditRow) /\ Len(db'.audit) = Len(db.audit) + 1
      BY <1>0, <2>4
    <3> QED BY <1>0, <2>1, <2>2, <3>1 DEF Room
  <2> QED BY <1>5, <2>3, <2>4, CommittedAudit
<1>6. ASSUME NEW p \in Callers, Open(p) \/ Begin(p) PROVE Room'
  BY <1>1, <1>2, <1>6, OpsAreStatements DEF Open, Begin, Goto, Pending
<1>7. ASSUME NEW p \in Callers, GoesOn(p) PROVE Room'
  BY <1>1, <1>2, <1>7 DEF GoesOn, Goto, Pending, Statements, StoreInv, TypeOK
<1>8. ASSUME NEW p \in Callers, Schema(p) PROVE Room'
  BY <1>1, <1>2, <1>8 DEF Schema, At, Goto, Pending
<1>9. ASSUME NEW p \in Callers, UNCHANGED <<db, issued>>, request' = [request EXCEPT ![p] = Null],
             \A q \in Callers \ {p} : pc'[q] = pc[q]
      PROVE  Room'
  BY <1>1, <1>3, <1>9 DEF Pending
<1>10. ASSUME NEW p \in Callers, Busy(p) \/ Raise(p) \/ Deliver(p) \/ Crash(p) PROVE Room'
  BY <1>1, <1>9, <1>10 DEF Busy, Raise, Deliver, Crash, Goto
<1>11. CASE UNCHANGED tvars
  BY <1>2, <1>11 DEF tvars, Pending
<1>12. TypeOK
  BY DEF StoreInv
<1> QED BY <1>4, <1>5, <1>6, <1>7, <1>8, <1>10, <1>11, <1>12, StatementShapes
        DEF Next, StorageError

(***************************************************************************)
(* The inductive invariant holds throughout.                               *)
(***************************************************************************)
LEMMA StoreInvariant == Spec => []StoreInv
<1>1. Init => StoreInv
  <2> SUFFICES ASSUME Init PROVE StoreInv
    OBVIOUS
  <2>1. TypeOK /\ TablesExist
    BY CallsAssumption DEF Init, TypeOK, TablesExist, Tables, Empty, Statements
  <2>2. ArgumentsChecked /\ WriterProgress
    BY CallsAssumption DEF Init, ArgumentsChecked, WriterProgress
  <2>3. Pending = {} /\ db.audit = <<>> /\ issued = 0
    BY DEF Init, Pending, Empty
  <2>4. Room
    BY <2>3, FS_EmptySet DEF Room
  <2> QED BY <2>1, <2>2, <2>4 DEF StoreInv
<1>2. StoreInv /\ [Next]_tvars => StoreInv'
  BY TypeStep, ArgumentsStep, WriterProgressStep, RoomStep DEF StoreInv
<1> QED BY <1>1, <1>2, PTL DEF Spec

(***************************************************************************)
(* A commit is one atomic call of StateStore, or changes nothing.          *)
(***************************************************************************)
LEMMA CommitRefines ==
    ASSUME StoreInv, NEW p \in Callers, Commit(p)
    PROVE  [Store!Next]_(Store!vars)
<1>0. request[p] \in Requests /\ writer = p /\ pc[p] = "commit" /\ db' = work
  BY DEF StoreInv, TypeOK, Commit, At, Statements
<1>1. PICK r \in Requests : r = request[p]
  BY <1>0
<1>2. Complete(r) \/ OnlyWrote({})
  <2>1. Progress("commit", r, answer[p])
    BY <1>0, <1>1, CallsAssumption DEF StoreInv, WriterProgress
  <2> QED BY <2>1, OpsAreStatements DEF Progress
<1>3. Len(db.audit) < MaxAudit
  <2>1. IsFiniteSet(Pending) /\ p \in Pending
    BY <1>0, CallsAssumption, FS_Subset DEF Pending
  <2>2. Cardinality(Pending) \in Nat /\ Cardinality(Pending \ {p}) \in Nat
        /\ Cardinality(Pending \ {p}) = Cardinality(Pending) - 1
    BY <2>1, FS_RemoveElement, FS_CardinalityType
  <2> QED BY <2>2, CallsAssumption DEF StoreInv, Room, TypeOK
<1>4. IsCall(r) /\ ValidArguments(r)
  BY <1>1, CallsAssumption DEF StoreInv, ArgumentsChecked
<1>5. CASE Complete(r) /\ r.op = "ingest"
  <2>1. /\ r.source \in Sources /\ r.event_id \in EventIds /\ r.sequence \in Positions
        /\ r.block \in Blocks /\ r.payload \in Payloads
    BY <1>4, <1>5 DEF IsCall
  <2>2. Store!ValidPosition(r.sequence, r.block)
    BY <1>4, <1>5 DEF ValidArguments, Store!ValidPosition
  <2>3. Store!NewEvent(r.event_id) /\ Store!Storable(r.block)
    BY <1>5 DEF Complete, Passed
  <2>4. /\ db'.events = Store!Put(db.events, r.event_id, Row(r))
        /\ db'.cursors = IF Store!AdvancesCursor(r.source, r.sequence)
                         THEN Store!Put(db.cursors, r.source,
                                [sequence |-> Store!Str[r.sequence], block_number |-> r.block])
                         ELSE db.cursors
    BY <1>0, <1>5 DEF Complete, WroteEvent, WroteCursor
  <2>5. /\ db'.incidents = db.incidents /\ db'.intents = db.intents /\ db'.latch = db.latch
        /\ db'.intent_events = db.intent_events /\ db'.outbox = db.outbox
        /\ db'.audit = db.audit
    BY <1>0, <1>5 DEF Complete, OnlyWrote, Tables
  <2>6. Store!Ingest(r.source, r.event_id, r.sequence, r.block, r.payload)
    BY <2>2, <2>3, <2>4, <2>5 DEF Store!Ingest, Row
  <2> QED BY <2>1, <2>6 DEF Store!Next
<1>6. CASE Complete(r) /\ r.op = "reserve"
  <2>1. /\ r.intent \in IntentIds /\ r.incident \in IncidentIds /\ r.event_ids \in Seq(EventIds)
        /\ r.event_ids # <<>>
    BY <1>4, <1>6 DEF IsCall, ValidArguments
  <2>2. EventsOf(r) \in SUBSET EventIds /\ EventsOf(r) # {}
    <3>1. 1 \in DOMAIN r.event_ids
      BY <2>1
    <3>2. \A k \in DOMAIN r.event_ids : r.event_ids[k] \in EventIds
      BY <2>1
    <3> QED BY <3>1, <3>2 DEF EventsOf
  <2>3. /\ ~Store!ReservationBlocked /\ Store!NewIntent(r.intent)
        /\ \A e \in EventsOf(r) : Store!Reservable(e)
        /\ Store!NewIncident(r.incident)
    BY <1>6 DEF Complete, Passed, MayReserve, NotBlocked, EventsOf
  <2>4. Updated(r) /\ Audited(r)
    BY <1>6 DEF Complete
  <2>5. /\ db'.events = db.events /\ db'.cursors = db.cursors /\ db'.latch = db.latch
        /\ db'.outbox = db.outbox
    BY <1>0, <1>6, <2>4 DEF Updated, OnlyWrote, Tables
  <2>6. /\ db'.incidents = Store!Put(db.incidents, r.incident, EventsOf(r))
        /\ db'.intents = Store!Put(db.intents, r.intent,
               [incident_id |-> r.incident, status |-> "reserved",
                nonce |-> Null, tx_hash |-> Null])
        /\ db'.intent_events = [e \in DOMAIN db.intent_events \cup EventsOf(r) |->
               IF e \in EventsOf(r) THEN r.intent ELSE db.intent_events[e]]
    BY <1>0, <1>6, <2>4 DEF Updated, WroteIncident, WroteIntent, WroteOwners
  <2>7. Store!AuditAppend(r.intent, "reserved")
    BY <1>0, <1>3, <1>6, <2>4 DEF Audited, Transition, Store!AuditAppend
  <2>8. Store!Reserve(r.intent, r.incident, EventsOf(r))
    BY <2>2, <2>3, <2>5, <2>6, <2>7 DEF Store!Reserve
  <2> QED BY <2>1, <2>2, <2>8 DEF Store!Next
<1>7. CASE Complete(r) /\ r.op = "prepare"
  <2>1. r.intent \in IntentIds /\ r.nonce \in Nonces /\ r.nonce >= 0
    BY <1>4, <1>7 DEF IsCall, ValidArguments
  <2>2. Store!Storable(r.nonce) /\ Store!HasStatus(r.intent, {"reserved"})
    BY <1>7 DEF Complete, Passed
  <2>3. Updated(r) /\ Audited(r)
    BY <1>7 DEF Complete
  <2>4. /\ db'.events = db.events /\ db'.cursors = db.cursors /\ db'.latch = db.latch
        /\ db'.outbox = db.outbox /\ db'.incidents = db.incidents
        /\ db'.intent_events = db.intent_events
    BY <1>0, <1>7, <2>3 DEF Updated, OnlyWrote, Tables
  <2>5. db'.intents = [db.intents EXCEPT ![r.intent].status = "prepared",
                                         ![r.intent].nonce = r.nonce]
    BY <1>0, <1>7, <2>3 DEF Updated, WroteStatus
  <2>6. Store!AuditAppend(r.intent, "prepared")
    BY <1>0, <1>3, <1>7, <2>3 DEF Audited, Transition, Store!AuditAppend
  <2>7. Store!Prepare(r.intent, r.nonce)
    BY <2>1, <2>2, <2>4, <2>5, <2>6 DEF Store!Prepare
  <2> QED BY <2>1, <2>7 DEF Store!Next
<1>8. CASE Complete(r) /\ r.op = "broadcast"
  <2>1. r.intent \in IntentIds /\ r.tx_hash \in Hashes
    BY <1>4, <1>8 DEF IsCall
  <2>2. Store!HasStatus(r.intent, {"prepared"})
    BY <1>8 DEF Complete, Passed
  <2>3. Updated(r) /\ Audited(r)
    BY <1>8 DEF Complete
  <2>4. /\ db'.events = db.events /\ db'.cursors = db.cursors /\ db'.latch = db.latch
        /\ db'.outbox = db.outbox /\ db'.incidents = db.incidents
        /\ db'.intent_events = db.intent_events
    BY <1>0, <1>8, <2>3 DEF Updated, OnlyWrote, Tables
  <2>5. db'.intents = [db.intents EXCEPT ![r.intent].status = "broadcast",
                                         ![r.intent].tx_hash = r.tx_hash]
    BY <1>0, <1>8, <2>3 DEF Updated, WroteStatus
  <2>6. Store!AuditAppend(r.intent, "broadcast")
    BY <1>0, <1>3, <1>8, <2>3 DEF Audited, Transition, Store!AuditAppend
  <2>7. Store!Broadcast(r.intent, r.tx_hash)
    BY <2>2, <2>4, <2>5, <2>6 DEF Store!Broadcast
  <2> QED BY <2>1, <2>7 DEF Store!Next
<1>9. CASE Complete(r) /\ r.op = "finish"
  <2>1. r.intent \in IntentIds /\ r.outcome \in Store!Outcome
    BY <1>4, <1>9 DEF IsCall
  <2>2. Store!OutcomeAllowed(r.intent, r.outcome)
    BY <1>9 DEF Complete, Passed
  <2>3. Updated(r) /\ Audited(r) /\ Notified(r)
    BY <1>9 DEF Complete
  <2>4. /\ db'.events = db.events /\ db'.cursors = db.cursors /\ db'.incidents = db.incidents
        /\ db'.intent_events = db.intent_events
    BY <1>0, <1>9, <2>3 DEF Updated, OnlyWrote, Tables
  <2>5. /\ db'.intents = [db.intents EXCEPT ![r.intent].status = r.outcome]
        /\ db'.latch = Store!LatchAfter(r.outcome)
    BY <1>0, <1>9, <2>3 DEF Updated, WroteStatus
  <2>6. Store!AuditAppend(r.intent, r.outcome)
    BY <1>0, <1>3, <1>9, <2>3 DEF Audited, Transition, Store!AuditAppend
  <2>7. Store!Finish(r.intent, r.outcome)
    BY <1>0, <2>2, <2>3, <2>4, <2>5, <2>6 DEF Store!Finish, Notified
  <2> QED BY <2>1, <2>7 DEF Store!Next
<1>10. CASE OnlyWrote({})
  BY <1>0, <1>10 DEF OnlyWrote, Tables, Store!vars
<1> QED BY <1>2, <1>5, <1>6, <1>7, <1>8, <1>9, <1>10, OpsAreStatements

(***************************************************************************)
(* Every step, a crash and a storage error too, is one atomic call of        *)
(* StateStore on the committed tables, or leaves them alone.                 *)
(***************************************************************************)
LEMMA StepRefines == StoreInv /\ [Next]_tvars => [Store!Next]_(Store!vars)
<1> SUFFICES ASSUME StoreInv, [Next]_tvars, db' # db
             PROVE  [Store!Next]_(Store!vars)
  BY DEF Store!vars
<1>1. PICK p \in Callers : Commit(p)
  <2>1. TypeOK /\ Next
    BY DEF StoreInv, tvars
  <2> QED BY <2>1, StepShapes DEF Begin, GoesOn
<1> QED BY <1>1, CommitRefines

(***************************************************************************)
(* The committed tables implement StateStore: no interleaving of           *)
(* statements, storage error, lock timeout or crash, of any number of      *)
(* callers, leaves part of a call.  All that is proved of StateStore holds *)
(* of the committed tables.                                                *)
(***************************************************************************)
THEOREM ImplementsAtomicStore == Spec => ImplementsStore
<1>1. Init => Store!Init
  BY DEF Init, Empty, Store!Init
<1> QED BY <1>1, StepRefines, StoreInvariant, PTL DEF Spec, ImplementsStore, Store!Spec

-----------------------------------------------------------------------------
(* Answers. *)

\* This intent holds all these events.
Owned(r) ==
    \A k \in DOMAIN r.event_ids :
        /\ r.event_ids[k] \in DOMAIN db.intent_events
        /\ db.intent_events[r.event_ids[k]] = r.intent

\* The transition of the call is on record.
Recorded(r) ==
    \E k \in DOMAIN db.audit :
        db.audit[k] = [intent |-> r.intent, transition |-> Transition(r)]

\* What the answer of a call tells of the committed tables.
Delivered(r, value) ==
    /\ r.op = "ingest" => Stored(r)
    /\ (r.op = "reserve" /\ value = TRUE) => Owned(r)
    /\ (r.op # "ingest" /\ value = TRUE) => Recorded(r)

AnswersRecorded ==
    \A p \in Callers : pc[p] = "return" => Delivered(request[p], answer[p])

\* No stored event lies beyond the cursor of its source.
CursorsCover ==
    /\ \A s \in DOMAIN db.cursors : Store!IntOf[db.cursors[s].sequence] \in Nat
    /\ \A e \in DOMAIN db.events :
          LET row == db.events[e] IN
          /\ row.source \in DOMAIN db.cursors
          /\ Store!IntOf[row.sequence] \in Nat
          /\ Store!IntOf[row.sequence] <= Store!IntOf[db.cursors[row.source].sequence]

AnswersInv == StoreInv /\ AnswersRecorded /\ CursorsCover

(***************************************************************************)
(* What the committed tables hold of a call, they hold for good: rows of     *)
(* events, intent_events and audit are never changed or deleted, whoever     *)
(* commits.                                                                  *)
(***************************************************************************)
LEMMA RowsStay ==
    ASSUME StoreInv, [Next]_tvars, NEW r
    PROVE  /\ Stored(r) => Stored(r)'
           /\ Owned(r) => Owned(r)'
           /\ Recorded(r) => Recorded(r)'
<1>0. db.audit \in Seq(Store!AuditRow)
  BY DEF StoreInv, Room
<1>1. [Store!Next]_(Store!vars)
  BY StepRefines
<1>2. ASSUME UNCHANGED <<db.events, db.intent_events, db.audit>>
      PROVE  /\ Stored(r) => Stored(r)'
             /\ Owned(r) => Owned(r)'
             /\ Recorded(r) => Recorded(r)'
  BY <1>2 DEF Stored, Owned, Recorded
<1>3. ASSUME NEW source, NEW id, NEW sequence, NEW block, NEW payload,
             Store!Ingest(source, id, sequence, block, payload)
      PROVE  /\ Stored(r) => Stored(r)'
             /\ Owned(r) => Owned(r)'
             /\ Recorded(r) => Recorded(r)'
  BY <1>3 DEF Store!Ingest, Store!NewEvent, Store!Put, Stored, Owned, Recorded
<1>4. ASSUME NEW intent, NEW transition, Store!AuditAppend(intent, transition)
      PROVE  Recorded(r) => Recorded(r)'
  <2>1. PICK row : db'.audit = Append(db.audit, row)
    BY <1>4 DEF Store!AuditAppend
  <2>2. \A k \in DOMAIN db.audit : k \in DOMAIN db'.audit /\ db'.audit[k] = db.audit[k]
    BY <1>0, <2>1
  <2> QED BY <2>2 DEF Recorded
<1>5. ASSUME NEW intent, NEW incident, NEW ids, Store!Reserve(intent, incident, ids)
      PROVE  /\ Stored(r) => Stored(r)'
             /\ Owned(r) => Owned(r)'
             /\ Recorded(r) => Recorded(r)'
  <2>1. Stored(r) => Stored(r)'
    BY <1>5 DEF Store!Reserve, Stored
  <2>2. Owned(r) => Owned(r)'
    BY <1>5 DEF Store!Reserve, Store!Reservable, Owned
  <2> QED BY <1>4, <1>5, <2>1, <2>2 DEF Store!Reserve
<1>6. ASSUME NEW intent, NEW x,
             Store!Prepare(intent, x) \/ Store!Broadcast(intent, x) \/ Store!Finish(intent, x)
      PROVE  /\ Stored(r) => Stored(r)'
             /\ Owned(r) => Owned(r)'
             /\ Recorded(r) => Recorded(r)'
  <2>1. /\ UNCHANGED <<db.events, db.intent_events>>
        /\ \E transition : Store!AuditAppend(intent, transition)
    BY <1>6 DEF Store!Prepare, Store!Broadcast, Store!Finish
  <2> QED BY <1>4, <2>1 DEF Stored, Owned
<1> QED BY <1>1, <1>2, <1>3, <1>5, <1>6 DEF Store!Next, Store!vars

(***************************************************************************)
(* What a call answers is true of the tables it has just committed.          *)
(***************************************************************************)
LEMMA CommitDelivers ==
    ASSUME StoreInv, NEW p \in Callers, Commit(p)
    PROVE  Delivered(request[p], answer[p])'
<1>0. /\ request[p] \in Requests /\ writer = p /\ pc[p] = "commit" /\ db' = work
      /\ request' = request /\ answer' = answer
      /\ db.audit \in Seq(Store!AuditRow)
  BY DEF StoreInv, TypeOK, Commit, At, Statements, Room
<1>1. PICK r, value : r = request[p] /\ value = answer[p] /\ r \in Requests
  BY <1>0
<1>2. Progress("commit", r, value)
  BY <1>0, <1>1, CallsAssumption DEF StoreInv, WriterProgress
<1>3. CASE value = TRUE /\ Complete(r)
  <2>1. ASSUME r.op = "ingest" PROVE Delivered(r, value)'
    <3>1. db'.events = Store!Put(db.events, r.event_id, Row(r))
      BY <1>0, <1>3, <2>1 DEF Complete, WroteEvent
    <3>2. Stored(r)'
      BY <3>1 DEF Stored, Store!Put
    <3> QED BY <2>1, <3>2 DEF Delivered
  <2>2. ASSUME r.op # "ingest" PROVE Delivered(r, value)'
    <3>1. db'.audit = Append(db.audit, [intent |-> r.intent, transition |-> Transition(r)])
      BY <1>0, <1>3, <2>2 DEF Complete, Audited
    <3>2. Recorded(r)'
      <4>1. /\ Len(db.audit) + 1 \in DOMAIN db'.audit
            /\ db'.audit[Len(db.audit) + 1]
                  = [intent |-> r.intent, transition |-> Transition(r)]
        BY <1>0, <3>1
      <4> QED BY <4>1 DEF Recorded
    <3>3. r.op = "reserve" => Owned(r)'
      BY <1>0, <1>3 DEF Complete, Updated, WroteOwners, Owned, EventsOf
    <3> QED BY <2>2, <3>2, <3>3 DEF Delivered
  <2>3. Delivered(r, value)'
    BY <2>1, <2>2
  <2> QED BY <1>0, <1>1, <2>3
<1>4. CASE value = FALSE /\ OnlyWrote({}) /\ (r.op = "ingest" => Stored(r))
  <2>1. r.op = "ingest" => Stored(r)'
    BY <1>0, <1>4 DEF OnlyWrote, Tables, Stored
  <2>2. Delivered(r, value)'
    BY <1>4, <2>1 DEF Delivered
  <2> QED BY <1>0, <1>1, <2>2
<1> QED BY <1>1, <1>2, <1>3, <1>4, OpsAreStatements DEF Progress

(***************************************************************************)
(* An answer that was true when the call committed is true when the caller   *)
(* hears it, whatever the others did in between.                             *)
(***************************************************************************)
LEMMA AnswersStep == StoreInv /\ AnswersRecorded /\ [Next]_tvars => AnswersRecorded'
<1> SUFFICES ASSUME StoreInv, AnswersRecorded, [Next]_tvars,
                    NEW q \in Callers, pc'[q] = "return"
             PROVE  Delivered(request[q], answer[q])'
  BY DEF AnswersRecorded
<1> DEFINE Kept == pc[q] = "return" /\ request'[q] = request[q] /\ answer'[q] = answer[q]
<1>1. Commit(q) \/ Kept
  <2>0. /\ DOMAIN pc = Callers /\ DOMAIN request = Callers /\ DOMAIN answer = Callers
        /\ TypeOK
    BY DEF StoreInv, TypeOK
  <2>1. CASE UNCHANGED tvars
    BY <2>1 DEF tvars
  <2>2. ASSUME NEW p \in Callers, Open(p) \/ (\E r \in Requests : Call(p, r))
        PROVE  Commit(q) \/ Kept
    BY <2>0, <2>2 DEF Open, Call, Goto
  <2>3. ASSUME NEW p \in Callers, Begin(p) PROVE Commit(q) \/ Kept
    <3>1. request[p] = Null \/ request[p] \in Requests
      BY <2>0 DEF TypeOK
    <3>2. PICK label \in Statements : Goto(p, label)
      BY <2>3, <3>1, OpsAreStatements DEF Begin, Statements
    <3>3. label # "return"
      BY <3>2 DEF Statements
    <3> QED BY <2>0, <2>3, <3>2, <3>3 DEF Begin, Goto
  <2>4. ASSUME NEW p \in Callers, Busy(p) \/ Raise(p) PROVE Commit(q) \/ Kept
    BY <2>0, <2>4 DEF Busy, Raise
  <2>5. ASSUME NEW p \in Callers, Deliver(p) \/ Crash(p) PROVE Commit(q) \/ Kept
    BY <2>0, <2>5 DEF Deliver, Crash, Goto
  <2>6. ASSUME NEW p \in Callers, Schema(p) PROVE Commit(q) \/ Kept
    BY <2>0, <2>6 DEF Schema, Goto
  <2>7. ASSUME NEW p \in Callers, Commit(p) PROVE Commit(q) \/ Kept
    BY <2>0, <2>7 DEF Commit, Goto
  <2>8. ASSUME NEW p \in Callers, GoesOn(p) PROVE Commit(q) \/ Kept
    BY <2>0, <2>8 DEF GoesOn, Goto, Statements
  <2> QED BY <2>0, <2>1, <2>2, <2>3, <2>4, <2>5, <2>6, <2>7, <2>8, StatementShapes
          DEF Next, StorageError
<1>2. CASE Commit(q)
  BY <1>2, CommitDelivers
<1>3. CASE Kept
  <2>1. PICK r, value : r = request[q] /\ value = answer[q]
    OBVIOUS
  <2>2. Delivered(r, value)
    BY <1>3, <2>1 DEF AnswersRecorded
  <2>3. Delivered(r, value)'
    BY <2>2, RowsStay DEF Delivered
  <2> QED BY <1>3, <2>1, <2>3
<1> QED BY <1>1, <1>2, <1>3

(***************************************************************************)
(* The cursor of a source only moves up, and to the event just stored: no    *)
(* committed event is ever beyond it.                                        *)
(***************************************************************************)
LEMMA CursorsStep == StoreInv /\ CursorsCover /\ [Next]_tvars => CursorsCover'
<1> SUFFICES ASSUME StoreInv, CursorsCover, [Next]_tvars PROVE CursorsCover'
  OBVIOUS
<1>1. [Store!Next]_(Store!vars)
  BY StepRefines
<1>2. CASE UNCHANGED <<db.events, db.cursors>>
  BY <1>2 DEF CursorsCover
<1>3. ASSUME NEW source \in Sources, NEW id \in EventIds, NEW sequence \in Positions,
             NEW block \in Blocks, NEW payload \in Payloads,
             Store!Ingest(source, id, sequence, block, payload)
      PROVE  CursorsCover'
  <2> DEFINE row == [source |-> source, sequence |-> Store!Str[sequence],
                     block_number |-> block, payload |-> payload]
             cursor == [sequence |-> Store!Str[sequence], block_number |-> block]
  <2>1. sequence \in Nat /\ Store!IntOf[Store!Str[sequence]] = sequence
    <3>1. sequence \in Int /\ sequence >= 0
      BY <1>3, StoreAssumption DEF Store!ArgumentAssumption, Store!Ingest, Store!ValidPosition
    <3>2. Store!IntOf[Store!Str[sequence]] = sequence
      BY <3>1, StoreAssumption DEF Store!DecimalAssumption
    <3> QED BY <3>1, <3>2
  <2>2. db'.events = Store!Put(db.events, id, row)
    BY <1>3 DEF Store!Ingest
  <2>3. CASE Store!AdvancesCursor(source, sequence)
    <3>1. db'.cursors = Store!Put(db.cursors, source, cursor)
      BY <1>3, <2>3 DEF Store!Ingest
    <3>2. \A s \in DOMAIN db.cursors :
             /\ s \in DOMAIN db'.cursors
             /\ Store!IntOf[db'.cursors[s].sequence] \in Nat
             /\ Store!IntOf[db.cursors[s].sequence] <= Store!IntOf[db'.cursors[s].sequence]
      BY <2>1, <2>3, <3>1 DEF Store!Put, Store!AdvancesCursor, CursorsCover
    <3>3. /\ source \in DOMAIN db'.cursors
          /\ Store!IntOf[db'.cursors[source].sequence] = sequence
          /\ DOMAIN db'.cursors = DOMAIN db.cursors \cup {source}
      BY <2>1, <3>1 DEF Store!Put
    <3>4. ASSUME NEW e \in DOMAIN db'.events
          PROVE  /\ db'.events[e].source \in DOMAIN db'.cursors
                 /\ Store!IntOf[db'.events[e].sequence] \in Nat
                 /\ Store!IntOf[db'.events[e].sequence]
                       <= Store!IntOf[db'.cursors[db'.events[e].source].sequence]
      <4>1. CASE e = id
        BY <2>1, <2>2, <3>3, <4>1 DEF Store!Put
      <4>2. CASE e # id
        <5>1. e \in DOMAIN db.events /\ db'.events[e] = db.events[e]
          BY <2>2, <4>2 DEF Store!Put
        <5> QED BY <3>2, <5>1 DEF CursorsCover
      <4> QED BY <4>1, <4>2
    <3> QED BY <2>1, <3>2, <3>3, <3>4 DEF CursorsCover
  <2>4. CASE ~Store!AdvancesCursor(source, sequence)
    <3>1. db'.cursors = db.cursors
      BY <1>3, <2>4 DEF Store!Ingest
    <3>2. source \in DOMAIN db.cursors /\ sequence <= Store!IntOf[db.cursors[source].sequence]
      BY <2>1, <2>4 DEF Store!AdvancesCursor, CursorsCover
    <3>3. ASSUME NEW e \in DOMAIN db'.events
          PROVE  /\ db'.events[e].source \in DOMAIN db.cursors
                 /\ Store!IntOf[db'.events[e].sequence] \in Nat
                 /\ Store!IntOf[db'.events[e].sequence]
                       <= Store!IntOf[db.cursors[db'.events[e].source].sequence]
      BY <2>1, <2>2, <3>2 DEF Store!Put, CursorsCover
    <3> QED BY <3>1, <3>3 DEF CursorsCover
  <2> QED BY <2>3, <2>4
<1> QED BY <1>1, <1>2, <1>3
        DEF Store!Next, Store!vars, Store!Reserve, Store!Prepare, Store!Broadcast, Store!Finish

(***************************************************************************)
(* What a call answers its caller is true of the committed tables when the   *)
(* caller hears it: the event is stored and below its source's cursor, the   *)
(* intent holds its events, the transition is on record.                     *)
(***************************************************************************)
THEOREM AnswersAreTrue == Spec => []AnswersHold
<1>1. Init => AnswersRecorded /\ CursorsCover
  BY DEF Init, AnswersRecorded, CursorsCover, Empty, Store!EmptyTable
<1>2. AnswersInv /\ [Next]_tvars => AnswersRecorded' /\ CursorsCover'
  BY AnswersStep, CursorsStep DEF AnswersInv
<1>3. AnswersInv => AnswersHold
  <2> SUFFICES ASSUME AnswersInv, NEW p \in Callers, pc[p] = "return"
               PROVE  LET r == request[p] IN
                      /\ \A value \in BOOLEAN : Answered(p, "ingest", value) =>
                            /\ Stored(r)
                            /\ r.sequence <= Store!IntOf[db.cursors[r.source].sequence]
                      /\ Answered(p, "reserve", TRUE) => Owned(r)
                      /\ \A op \in {"reserve", "prepare", "broadcast", "finish"} :
                            Answered(p, op, TRUE) => Recorded(r)
    BY DEF AnswersHold, Answered, Stored, Owned, Recorded
  <2>1. PICK r \in Requests : r = request[p]
    BY DEF AnswersInv, StoreInv, TypeOK
  <2>2. Delivered(r, answer[p])
    BY <2>1 DEF AnswersInv, AnswersRecorded
  <2>3. r.op = "ingest" => r.sequence <= Store!IntOf[db.cursors[r.source].sequence]
    <3> SUFFICES ASSUME r.op = "ingest"
                 PROVE  r.sequence <= Store!IntOf[db.cursors[r.source].sequence]
      OBVIOUS
    <3>1. IsCall(r) /\ ValidArguments(r)
      BY <2>1, CallsAssumption DEF AnswersInv, StoreInv, ArgumentsChecked
    <3>2. r.sequence \in Positions /\ r.sequence >= 0
      BY <3>1 DEF IsCall, ValidArguments
    <3>3. Store!IntOf[Store!Str[r.sequence]] = r.sequence
      BY <3>2, StoreAssumption DEF Store!DecimalAssumption
    <3>4. db.events[r.event_id] = Row(r) /\ r.event_id \in DOMAIN db.events
      BY <2>2 DEF Delivered, Stored
    <3>5. Row(r).source = r.source /\ Row(r).sequence = Store!Str[r.sequence]
      BY DEF Row
    <3> QED BY <3>3, <3>4, <3>5 DEF AnswersInv, CursorsCover
  <2> QED BY <2>1, <2>2, <2>3 DEF Answered, Delivered
<1> QED BY <1>1, <1>2, <1>3, StoreInvariant, PTL DEF Spec, AnswersInv

-----------------------------------------------------------------------------
(* Successes. *)

\* The caller's reservation is committed and it has yet to hear so.
Unheard(p) == pc[p] = "return" /\ answer[p] = TRUE /\ request[p].op = "reserve"

\* Reported successes and those about to be: each has an intent of its own.
SuccessesApart ==
    /\ ok \in [Requests -> Nat]
    /\ \A r \in Requests : (r.op = "reserve" /\ ok[r] > 0) =>
          ok[r] = 1 /\ r.intent \in DOMAIN db.intents /\ Owned(r)
    /\ \A r1, r2 \in Requests :
          (/\ r1.op = "reserve" /\ r2.op = "reserve" /\ r1.intent = r2.intent
           /\ ok[r1] > 0 /\ ok[r2] > 0) => r1 = r2
    /\ \A p \in Callers : Unheard(p) =>
          /\ request[p].intent \in DOMAIN db.intents
          /\ \A r \in Requests :
                (r.op = "reserve" /\ ok[r] > 0) => r.intent # request[p].intent
    /\ \A p, q \in Callers :
          (Unheard(p) /\ Unheard(q) /\ request[p].intent = request[q].intent) => p = q

SuccessInv == AnswersInv /\ SuccessesApart

(***************************************************************************)
(* No intent is ever deleted.                                                *)
(***************************************************************************)
LEMMA IntentsStay ==
    ASSUME StoreInv, [Next]_tvars
    PROVE  DOMAIN db.intents \subseteq DOMAIN db'.intents
<1>1. [Store!Next]_(Store!vars)
  BY StepRefines
<1> QED BY <1>1 DEF Store!Next, Store!vars, Store!Ingest, Store!Reserve, Store!Prepare,
                    Store!Broadcast, Store!Finish, Store!Put

(***************************************************************************)
(* A reservation that commits as a success has just inserted its intent, so  *)
(* no earlier success has that intent.                                       *)
(***************************************************************************)
LEMMA SuccessIsNew ==
    ASSUME StoreInv, NEW p \in Callers, Commit(p), answer[p] = TRUE, request[p].op = "reserve"
    PROVE  request[p].intent \in DOMAIN db'.intents \ DOMAIN db.intents
<1>0. /\ request[p] \in Requests /\ writer = p /\ pc[p] = "commit" /\ db' = work
  BY DEF StoreInv, TypeOK, Commit, At, Statements
<1>1. PICK r \in Requests : r = request[p]
  BY <1>0
<1>2. Progress("commit", r, TRUE)
  BY <1>0, <1>1, CallsAssumption DEF StoreInv, WriterProgress
<1>3. Complete(r)
  BY <1>1, <1>2 DEF Progress
<1>4. Store!NewIntent(r.intent) /\ WroteIntent(r)
  BY <1>1, <1>3 DEF Complete, Passed, MayReserve, Updated
<1> QED BY <1>0, <1>1, <1>4 DEF WroteIntent, Store!NewIntent, Store!Put

(***************************************************************************)
(* A success is reported once for each committed reservation: the commit     *)
(* creates it, the delivery hands it over, a crash loses it, and nothing     *)
(* else touches it.                                                          *)
(***************************************************************************)
LEMMA SuccessesStep == SuccessInv /\ [Next]_tvars => SuccessesApart'
<1> SUFFICES ASSUME SuccessInv, [Next]_tvars PROVE SuccessesApart'
  OBVIOUS
<1>0. /\ StoreInv /\ TypeOK /\ SuccessesApart /\ AnswersRecorded
      /\ DOMAIN pc = Callers /\ DOMAIN answer = Callers
      /\ request \in [Callers -> Requests \cup {Null}]
      /\ DOMAIN db.intents \subseteq DOMAIN db'.intents
      /\ \A r : Owned(r) => Owned(r)'
  BY IntentsStay, RowsStay DEF SuccessInv, AnswersInv, StoreInv, TypeOK
<1>1. ASSUME ok' = ok, \A p \in Callers : Unheard(p)' => Unheard(p) /\ request'[p] = request[p]
      PROVE  SuccessesApart'
  BY <1>0, <1>1 DEF SuccessesApart, Unheard
<1>2. ASSUME NEW p \in Callers, Deliver(p) PROVE SuccessesApart'
  <2>1. /\ pc' = [pc EXCEPT ![p] = "idle"] /\ answer' = [answer EXCEPT ![p] = Null]
        /\ request' = [request EXCEPT ![p] = Null]
        /\ db' = db /\ request[p] \in Requests
    BY <1>0, <1>2 DEF Deliver, Goto, TypeOK
  <2>2. \A q \in Callers :
           Unheard(q)' => Unheard(q) /\ request'[q] = request[q] /\ q # p
    BY <1>0, <2>1 DEF Unheard
  <2>3. CASE ~Unheard(p)
    <3>1. \A r \in Requests : r.op = "reserve" => ok'[r] = ok[r]
      BY <1>0, <1>2, <2>1, <2>3 DEF Deliver, Unheard, SuccessesApart
    <3>2. ok' \in [Requests -> Nat]
      BY <1>0, <1>2, <2>1 DEF Deliver, SuccessesApart
    <3> QED BY <1>0, <2>2, <3>1, <3>2 DEF SuccessesApart
  <2>4. CASE Unheard(p)
    <3>1. PICK r \in Requests : r = request[p]
      BY <2>1
    <3>2. r.op = "reserve" /\ Owned(r) /\ r.intent \in DOMAIN db.intents
      BY <1>0, <2>4, <3>1 DEF Unheard, SuccessesApart, AnswersRecorded, Delivered
    <3>3. ok[r] = 0 /\ ok' = [ok EXCEPT ![r] = 1] /\ ok' \in [Requests -> Nat]
      <4>1. ok[r] \in Nat /\ ~(ok[r] > 0)
        BY <1>0, <2>4, <3>1, <3>2 DEF SuccessesApart
      <4>2. ok' = [ok EXCEPT ![r] = ok[r] + 1]
        BY <1>2, <2>4, <3>1 DEF Deliver, Unheard
      <4>3. ok[r] = 0
        BY <4>1
      <4>4. ok \in [Requests -> Nat]
        BY <1>0 DEF SuccessesApart
      <4>5. ok' = [ok EXCEPT ![r] = 1]
        BY <4>2, <4>3
      <4> QED BY <4>3, <4>4, <4>5
    <3>4. \A s \in Requests :
             (s.op = "reserve" /\ ok'[s] > 0) =>
                \/ s = r
                \/ s # r /\ ok'[s] = ok[s] /\ ok[s] > 0 /\ s.intent # r.intent
      BY <1>0, <2>4, <3>1, <3>3 DEF SuccessesApart
    <3>5. \A s \in Requests : (s.op = "reserve" /\ ok'[s] > 0) =>
             ok'[s] = 1 /\ s.intent \in DOMAIN db'.intents /\ Owned(s)'
      BY <1>0, <3>2, <3>3, <3>4 DEF SuccessesApart
    <3>6. \A r1, r2 \in Requests :
             (/\ r1.op = "reserve" /\ r2.op = "reserve" /\ r1.intent = r2.intent
              /\ ok'[r1] > 0 /\ ok'[r2] > 0) => r1 = r2
      BY <1>0, <3>4 DEF SuccessesApart
    <3>7. \A q \in Callers : Unheard(q)' =>
             /\ request'[q].intent \in DOMAIN db'.intents
             /\ \A s \in Requests :
                   (s.op = "reserve" /\ ok'[s] > 0) => s.intent # request'[q].intent
      BY <1>0, <2>2, <2>4, <3>1, <3>4 DEF SuccessesApart
    <3>8. \A q1, q2 \in Callers :
             (Unheard(q1)' /\ Unheard(q2)' /\ request'[q1].intent = request'[q2].intent)
                => q1 = q2
      BY <1>0, <2>2 DEF SuccessesApart
    <3> QED BY <3>3, <3>5, <3>6, <3>7, <3>8 DEF SuccessesApart
  <2> QED BY <2>3, <2>4
<1>3. ASSUME NEW p \in Callers, Commit(p) PROVE SuccessesApart'
  <2>1. /\ pc' = [pc EXCEPT ![p] = "return"] /\ answer' = answer /\ request' = request
        /\ ok' = ok /\ ~Unheard(p)
    BY <1>3 DEF Commit, At, Goto, Unheard
  <2>2. \A q \in Callers : Unheard(q)' => Unheard(q) \/ q = p
    BY <1>0, <2>1 DEF Unheard
  <2>3. CASE ~(answer[p] = TRUE /\ request[p].op = "reserve")
    BY <1>0, <1>1, <2>1, <2>2, <2>3 DEF Unheard
  <2>4. CASE answer[p] = TRUE /\ request[p].op = "reserve"
    <3>1. request[p].intent \in DOMAIN db'.intents /\ request[p].intent \notin DOMAIN db.intents
      BY <1>0, <1>3, <2>4, SuccessIsNew
    <3>2. \A r \in Requests : (r.op = "reserve" /\ ok[r] > 0) => r.intent # request[p].intent
      BY <1>0, <3>1 DEF SuccessesApart
    <3>3. \A q \in Callers : Unheard(q) => request[q].intent # request[p].intent
      BY <1>0, <3>1 DEF SuccessesApart
    <3> QED BY <1>0, <2>1, <2>2, <3>1, <3>2, <3>3 DEF SuccessesApart
  <2> QED BY <2>3, <2>4
<1>4. ASSUME NEW p \in Callers, ok' = ok,
             \E label : label # "return" /\ pc' = [pc EXCEPT ![p] = label],
             \A q \in Callers \ {p} : request'[q] = request[q] /\ answer'[q] = answer[q]
      PROVE  SuccessesApart'
  BY <1>0, <1>1, <1>4 DEF Unheard
<1>5. ASSUME NEW p \in Callers, Open(p) \/ Busy(p) \/ Raise(p) PROVE SuccessesApart'
  BY <1>0, <1>4, <1>5 DEF Open, Busy, Raise, Goto
<1>6. ASSUME NEW p \in Callers, Schema(p) \/ Crash(p) \/ (\E r \in Requests : Call(p, r))
      PROVE  SuccessesApart'
  BY <1>0, <1>4, <1>6 DEF Schema, Crash, Call, Goto
<1>7. ASSUME NEW p \in Callers, GoesOn(p) PROVE SuccessesApart'
  BY <1>0, <1>4, <1>7 DEF GoesOn, Goto, Statements
<1>8. ASSUME NEW p \in Callers, Begin(p) PROVE SuccessesApart'
  <2>1. request[p] = Null \/ request[p] \in Requests
    BY <1>0
  <2>2. PICK label \in Statements : Goto(p, label)
    BY <1>8, <2>1, OpsAreStatements DEF Begin, Statements
  <2>3. label # "return"
    BY <2>2 DEF Statements
  <2> QED BY <1>0, <1>4, <1>8, <2>2, <2>3 DEF Begin, Goto
<1>9. CASE UNCHANGED tvars
  BY <1>0, <1>1, <1>9 DEF tvars, Unheard
<1> QED BY <1>0, <1>2, <1>3, <1>5, <1>6, <1>7, <1>8, <1>9, StatementShapes
        DEF Next, StorageError

(***************************************************************************)
(* One event, one action, seen from the callers: of all the reserve calls    *)
(* over an event, of any number of callers, with retries after errors,       *)
(* timeouts and crashes, at most one ever reports success, and it does so    *)
(* once.                                                                     *)
(***************************************************************************)
THEOREM ReservationIsWonOnce == Spec => []ReservationWonOnce
<1>1. Init => AnswersRecorded /\ CursorsCover /\ SuccessesApart
  BY DEF Init, AnswersRecorded, CursorsCover, Empty, Store!EmptyTable, SuccessesApart, Unheard
<1>2. SuccessInv /\ [Next]_tvars => AnswersRecorded' /\ CursorsCover' /\ SuccessesApart'
  BY AnswersStep, CursorsStep, SuccessesStep DEF AnswersInv, SuccessInv
<1>3. SuccessInv => ReservationWonOnce
  BY DEF SuccessInv, SuccessesApart, Owned, ReservationWonOnce
<1> QED BY <1>1, <1>2, <1>3, StoreInvariant, PTL DEF Spec, AnswersInv, SuccessInv

-----------------------------------------------------------------------------
(* Accounting for every transition. *)

(***************************************************************************)
(* Counting a call once more adds one to the total of the calls it is      *)
(* among, and nothing to any other.                                        *)
(***************************************************************************)
LEMMA CountedOnceMore ==
    ASSUME NEW counts \in [Requests -> Nat], NEW after \in [Requests -> Nat],
           NEW R, R \subseteq Requests, NEW r \in Requests, IsFiniteSet(Times(counts, R)),
           after[r] = counts[r] + 1, \A q \in Requests : q # r => after[q] = counts[q]
    PROVE  /\ IsFiniteSet(Times(after, R))
           /\ Total(after, R) = IF r \in R THEN Total(counts, R) + 1 ELSE Total(counts, R)
<1>1. ASSUME NEW c, NEW x
      PROVE  x \in Times(c, R) <=> \E q \in R : \E k \in 1..c[q] : x = <<q, k>>
  BY DEF Times
<1>2. /\ counts[r] \in Nat
      /\ 1..after[r] = 1..counts[r] \cup {counts[r] + 1} /\ counts[r] + 1 \notin 1..counts[r]
  OBVIOUS
<1>3. CASE r \in R
  <2> PICK new : new = <<r, counts[r] + 1>>
    OBVIOUS
  <2>1. \A x : x \in Times(after, R) <=> x \in Times(counts, R) \cup {new}
    BY <1>1, <1>2, <1>3
  <2>2. new \notin Times(counts, R)
    BY <1>1, <1>2
  <2>3. Times(after, R) = Times(counts, R) \cup {new}
    BY <2>1
  <2>4. /\ IsFiniteSet(Times(after, R))
        /\ Cardinality(Times(after, R)) = Cardinality(Times(counts, R)) + 1
    <3> PICK T : T = Times(counts, R)
      OBVIOUS
    <3>1. IsFiniteSet(T) /\ new \notin T
      BY <2>2
    <3>2. IsFiniteSet(T \cup {new}) /\ Cardinality(T \cup {new}) = Cardinality(T) + 1
      BY <3>1, FS_AddElement
    <3> QED BY <2>3, <3>2
  <2> QED BY <1>3, <2>4 DEF Total
<1>4. CASE r \notin R
  <2>1. \A x : x \in Times(after, R) <=> x \in Times(counts, R)
    BY <1>1, <1>4
  <2>2. Times(after, R) = Times(counts, R)
    BY <2>1
  <2> QED BY <1>4, <2>2 DEF Total
<1> QED BY <1>3, <1>4

\* The callers whose call among R has committed and not yet returned.
Waiting(R) == {p \in Callers : /\ pc[p] = "return" /\ answer[p] = TRUE
                               /\ request[p] \in R}

\* What is counted of the calls that would record one transition.
AccountOf(intent, transition) ==
    LET R == Recording(intent, transition) IN
    /\ IsFiniteSet(Times(ok, R)) /\ IsFiniteSet(Times(crashed, R))
    /\ Total(ok, R) + Cardinality(Waiting(R)) <= Cardinality(AuditRows(intent, transition))
    /\ Cardinality(AuditRows(intent, transition))
          <= Total(ok, R) + Cardinality(Waiting(R)) + Total(crashed, R)

Accounted ==
    /\ ok \in [Requests -> Nat] /\ crashed \in [Requests -> Nat]
    /\ \A intent \in IntentIds, transition \in Store!Status : AccountOf(intent, transition)

(***************************************************************************)
(* Only a commit, a return and a death change who waits for an answer and  *)
(* what is counted.                                                        *)
(***************************************************************************)
LEMMA CountingSteps ==
    ASSUME StoreInv, [Next]_tvars
    PROVE  \/ \E p \in Callers : Commit(p) \/ Deliver(p) \/ Crash(p)
           \/ UNCHANGED <<db, ok, crashed>> /\ \A R : Waiting(R)' = Waiting(R)
<1> DEFINE Idle == UNCHANGED <<db, ok, crashed>> /\ \A R : Waiting(R)' = Waiting(R)
<1>0. /\ DOMAIN pc = Callers /\ DOMAIN request = Callers /\ DOMAIN answer = Callers
      /\ TypeOK
      /\ \A p \in Callers : writer = p => pc[p] # "return"
  BY DEF StoreInv, TypeOK, Statements
<1>1. CASE UNCHANGED tvars
  BY <1>1 DEF tvars, Waiting
<1>2. ASSUME NEW p \in Callers, Open(p) \/ (\E r \in Requests : Call(p, r)) PROVE Idle
  BY <1>0, <1>2 DEF Open, Call, Goto, Waiting
<1>3. ASSUME NEW p \in Callers, Begin(p) PROVE Idle
  <2>1. request[p] = Null \/ request[p] \in Requests
    BY <1>0 DEF TypeOK
  <2>2. PICK label \in Statements : Goto(p, label)
    BY <1>3, <2>1, OpsAreStatements DEF Begin, Statements
  <2>3. label # "return"
    BY <2>2 DEF Statements
  <2> QED BY <1>0, <1>3, <2>2, <2>3 DEF Begin, Goto, Waiting
<1>4. ASSUME NEW p \in Callers, Busy(p) \/ (writer = p /\ Raise(p)) PROVE Idle
  BY <1>0, <1>4 DEF Busy, Raise, Waiting
<1>5. ASSUME NEW p \in Callers, Schema(p) PROVE Idle
  BY <1>0, <1>5 DEF Schema, At, Goto, Waiting
<1>6. ASSUME NEW p \in Callers, GoesOn(p) PROVE Idle
  BY <1>0, <1>6 DEF GoesOn, Goto, Statements, Waiting
<1> QED BY <1>0, <1>1, <1>2, <1>3, <1>4, <1>5, <1>6, StatementShapes DEF Next, StorageError

(***************************************************************************)
(* What is counted is finite.                                              *)
(***************************************************************************)
LEMMA CountsAreNumbers ==
    ASSUME StoreInv, NEW intent, NEW transition
    PROVE  LET R == Recording(intent, transition) IN
           /\ R \subseteq Requests
           /\ IsFiniteSet(Waiting(R)) /\ Cardinality(Waiting(R)) \in Nat
           /\ IsFiniteSet(AuditRows(intent, transition))
           /\ Cardinality(AuditRows(intent, transition)) \in Nat
           /\ IsFiniteSet(Times(ok, R)) => Total(ok, R) \in Nat
           /\ IsFiniteSet(Times(crashed, R)) => Total(crashed, R) \in Nat
<1> DEFINE R == Recording(intent, transition)
<1>1. R \subseteq Requests
  BY DEF Recording
<1>2. IsFiniteSet(Waiting(R))
  BY CallsAssumption, FS_Subset DEF Waiting
<1>3. IsFiniteSet(AuditRows(intent, transition))
  <2>1. DOMAIN db.audit = 1..Len(db.audit) /\ Len(db.audit) \in Nat
    BY DEF StoreInv, Room
  <2>2. IsFiniteSet(DOMAIN db.audit)
    BY <2>1, FS_Interval
  <2> QED BY <2>2, FS_Subset DEF AuditRows
<1> HIDE DEF R
<1>4. /\ Cardinality(Waiting(R)) \in Nat /\ Cardinality(AuditRows(intent, transition)) \in Nat
      /\ IsFiniteSet(Times(ok, R)) => Total(ok, R) \in Nat
      /\ IsFiniteSet(Times(crashed, R)) => Total(crashed, R) \in Nat
  BY <1>2, <1>3, FS_CardinalityType DEF Total
<1> QED BY <1>1, <1>2, <1>3, <1>4 DEF R

(***************************************************************************)
(* A commit puts one row on record for a call that waits for its answer,   *)
(* or no row and the caller hears that it wrote nothing of the kind.       *)
(***************************************************************************)
LEMMA CommitCounts ==
    ASSUME StoreInv, NEW p \in Callers, Commit(p),
           NEW intent \in IntentIds, NEW transition \in Store!Status,
           AccountOf(intent, transition)
    PROVE  AccountOf(intent, transition)'
<1> DEFINE R == Recording(intent, transition)
           rows == AuditRows(intent, transition)
           row == [intent |-> intent, transition |-> transition]
<1>0. /\ request[p] \in Requests /\ writer = p /\ pc[p] = "commit" /\ db' = work
      /\ pc' = [pc EXCEPT ![p] = "return"] /\ DOMAIN pc = Callers
      /\ request' = request /\ answer' = answer /\ ok' = ok /\ crashed' = crashed
      /\ db.audit \in Seq(Store!AuditRow)
  BY DEF StoreInv, TypeOK, Commit, At, Goto, Statements, Room
<1>1. /\ R \subseteq Requests
      /\ IsFiniteSet(Waiting(R)) /\ Cardinality(Waiting(R)) \in Nat
      /\ IsFiniteSet(rows) /\ Cardinality(rows) \in Nat
      /\ IsFiniteSet(Times(ok, R)) /\ IsFiniteSet(Times(crashed, R))
      /\ Total(ok, R) \in Nat /\ Total(crashed, R) \in Nat
  BY CountsAreNumbers DEF AccountOf
<1>2. PICK r \in Requests : r = request[p]
  BY <1>0
<1>3. Waiting(R)' = IF answer[p] = TRUE /\ r \in R THEN Waiting(R) \cup {p} ELSE Waiting(R)
  BY <1>0, <1>2 DEF Waiting
<1>4. p \notin Waiting(R)
  BY <1>0 DEF Waiting
<1>5. Progress("commit", r, answer[p])
  BY <1>0, <1>2, CallsAssumption DEF StoreInv, WriterProgress
<1>6. Total(ok, R)' = Total(ok, R) /\ Total(crashed, R)' = Total(crashed, R)
      /\ Times(ok, R)' = Times(ok, R) /\ Times(crashed, R)' = Times(crashed, R)
  BY <1>0 DEF Total, Times, Recording
<1>7. CASE db'.audit = db.audit /\ Waiting(R)' = Waiting(R)
  <2>1. rows' = rows
    BY <1>7 DEF AuditRows
  <2> QED BY <1>6, <1>7, <2>1 DEF AccountOf
<1>8. CASE answer[p] = TRUE /\ Complete(r) /\ r.op # "ingest"
  <2>1. db'.audit = Append(db.audit, [intent |-> r.intent, transition |-> Transition(r)])
    BY <1>0, <1>8 DEF Complete, Audited
  <2> DEFINE n == Len(db.audit) + 1
             written == [intent |-> r.intent, transition |-> Transition(r)]
  <2>2. /\ n \notin DOMAIN db.audit /\ DOMAIN db'.audit = DOMAIN db.audit \cup {n}
        /\ \A k \in DOMAIN db.audit : db'.audit[k] = db.audit[k]
        /\ db'.audit[n] = written
    BY <1>0, <2>1
  <2>3. r \in R <=> written = row
    BY <1>8 DEF Recording
  <2>4. rows' = IF r \in R THEN rows \cup {n} ELSE rows
    <3> HIDE DEF n, written
    <3> QED BY <2>2, <2>3 DEF AuditRows
  <2>5. n \notin rows
    BY <2>2 DEF AuditRows
  <2>6. CASE r \in R
    <3>1. Cardinality(rows') = Cardinality(rows) + 1
      BY <1>1, <2>4, <2>5, <2>6, FS_AddElement
    <3>2. Cardinality(Waiting(R)') = Cardinality(Waiting(R)) + 1
      BY <1>1, <1>3, <1>4, <1>8, <2>6, FS_AddElement
    <3>3. /\ Total(ok, R) + Cardinality(Waiting(R)) <= Cardinality(rows)
          /\ Cardinality(rows) <= Total(ok, R) + Cardinality(Waiting(R)) + Total(crashed, R)
      BY DEF AccountOf
    <3> HIDE DEF R, rows
    <3>4. /\ Total(ok, R) + Cardinality(Waiting(R)') <= Cardinality(rows')
          /\ Cardinality(rows') <= Total(ok, R) + Cardinality(Waiting(R)') + Total(crashed, R)
      BY <1>1, <3>1, <3>2, <3>3
    <3> QED BY <1>1, <1>6, <3>4 DEF AccountOf, R, rows
  <2>7. CASE r \notin R
    <3>1. rows' = rows /\ Waiting(R)' = Waiting(R)
      BY <1>3, <2>4, <2>7
    <3> QED BY <1>6, <3>1 DEF AccountOf
  <2> QED BY <2>6, <2>7
<1>9. CASE answer[p] = TRUE /\ Complete(r) /\ r.op = "ingest"
  <2>1. db'.audit = db.audit /\ r \notin R
    BY <1>0, <1>9 DEF Complete, OnlyWrote, Tables, Recording
  <2> QED BY <1>3, <1>7, <2>1
<1>10. CASE answer[p] = FALSE /\ OnlyWrote({})
  <2>1. db'.audit = db.audit
    BY <1>0, <1>10 DEF OnlyWrote, Tables
  <2> QED BY <1>3, <1>7, <1>10, <2>1
<1> QED BY <1>5, <1>8, <1>9, <1>10, OpsAreStatements DEF Progress

(***************************************************************************)
(* A caller that hears its answer is no longer waiting: counted as a       *)
(* success if the answer was one.                                          *)
(***************************************************************************)
LEMMA DeliverCounts ==
    ASSUME StoreInv, ok \in [Requests -> Nat], NEW p \in Callers, Deliver(p),
           NEW intent \in IntentIds, NEW transition \in Store!Status,
           AccountOf(intent, transition)
    PROVE  AccountOf(intent, transition)' /\ ok' \in [Requests -> Nat]
<1> DEFINE R == Recording(intent, transition)
           rows == AuditRows(intent, transition)
<1>0. /\ request[p] \in Requests /\ pc[p] = "return" /\ db' = db /\ crashed' = crashed
      /\ pc' = [pc EXCEPT ![p] = "idle"] /\ DOMAIN pc = Callers
      /\ request' = [request EXCEPT ![p] = Null] /\ answer' = [answer EXCEPT ![p] = Null]
      /\ DOMAIN request = Callers /\ DOMAIN answer = Callers
      /\ ok' = IF answer[p] = TRUE THEN [ok EXCEPT ![request[p]] = @ + 1] ELSE ok
  BY DEF StoreInv, TypeOK, Deliver, Goto
<1>1. /\ R \subseteq Requests
      /\ IsFiniteSet(Waiting(R)) /\ Cardinality(Waiting(R)) \in Nat
      /\ IsFiniteSet(rows) /\ Cardinality(rows) \in Nat
      /\ IsFiniteSet(Times(ok, R)) /\ IsFiniteSet(Times(crashed, R))
      /\ Total(ok, R) \in Nat /\ Total(crashed, R) \in Nat
  BY CountsAreNumbers DEF AccountOf
<1>2. Waiting(R)' = Waiting(R) \ {p}
  BY <1>0 DEF Waiting
<1>3. p \in Waiting(R) <=> answer[p] = TRUE /\ request[p] \in R
  BY <1>0 DEF Waiting
<1>4. /\ rows' = rows
      /\ Total(crashed, R)' = Total(crashed, R) /\ Times(crashed, R)' = Times(crashed, R)
  BY <1>0 DEF AuditRows, Total, Times, Recording
<1>5. /\ ok' \in [Requests -> Nat] /\ IsFiniteSet(Times(ok', R))
      /\ Total(ok', R) = IF p \in Waiting(R) THEN Total(ok, R) + 1 ELSE Total(ok, R)
  <2>a. PICK r \in Requests : r = request[p]
    BY <1>0
  <2>b. PICK after : after = [ok EXCEPT ![r] = @ + 1]
    OBVIOUS
  <2>0. /\ R \subseteq Requests /\ IsFiniteSet(Times(ok, R)) /\ ok \in [Requests -> Nat]
        /\ after \in [Requests -> Nat] /\ after[r] = ok[r] + 1
        /\ \A q \in Requests : q # r => after[q] = ok[q]
    BY <1>1, <2>b
  <2> HIDE DEF R
  <2>1. /\ IsFiniteSet(Times(after, R))
        /\ Total(after, R) = IF r \in R THEN Total(ok, R) + 1 ELSE Total(ok, R)
    BY <2>0, CountedOnceMore
  <2> QED BY <1>0, <1>1, <1>3, <2>a, <2>b, <2>0, <2>1
<1>6. Cardinality(Waiting(R)') = IF p \in Waiting(R) THEN Cardinality(Waiting(R)) - 1
                                 ELSE Cardinality(Waiting(R))
  BY <1>1, <1>2, FS_RemoveElement
<1>7. /\ Total(ok, R) + Cardinality(Waiting(R)) <= Cardinality(rows)
      /\ Cardinality(rows) <= Total(ok, R) + Cardinality(Waiting(R)) + Total(crashed, R)
  BY DEF AccountOf
<1> HIDE DEF R, rows
<1>8. /\ Total(ok', R) + Cardinality(Waiting(R)') <= Cardinality(rows)
      /\ Cardinality(rows) <= Total(ok', R) + Cardinality(Waiting(R)') + Total(crashed, R)
  BY <1>1, <1>5, <1>6, <1>7
<1>9. Times(ok, R)' = Times(ok', R) /\ Total(ok, R)' = Total(ok', R)
  BY DEF Times, Total, R, Recording
<1> QED BY <1>1, <1>4, <1>5, <1>8, <1>9 DEF AccountOf, R, rows

(***************************************************************************)
(* A caller that dies may have been waiting or not: its row, if there is   *)
(* one, is then accounted for by the death.                                *)
(***************************************************************************)
LEMMA CrashCounts ==
    ASSUME StoreInv, crashed \in [Requests -> Nat], NEW p \in Callers, Crash(p),
           NEW intent \in IntentIds, NEW transition \in Store!Status,
           AccountOf(intent, transition)
    PROVE  AccountOf(intent, transition)' /\ crashed' \in [Requests -> Nat]
<1> DEFINE R == Recording(intent, transition)
           rows == AuditRows(intent, transition)
<1>0. /\ request[p] \in Requests /\ db' = db /\ ok' = ok
      /\ pc' = [pc EXCEPT ![p] = "closed"] /\ DOMAIN pc = Callers
      /\ request' = [request EXCEPT ![p] = Null] /\ answer' = [answer EXCEPT ![p] = Null]
      /\ DOMAIN request = Callers /\ DOMAIN answer = Callers
      /\ crashed' = [crashed EXCEPT ![request[p]] = @ + 1]
  BY DEF StoreInv, TypeOK, Crash, Goto
<1>1. /\ R \subseteq Requests
      /\ IsFiniteSet(Waiting(R)) /\ Cardinality(Waiting(R)) \in Nat
      /\ IsFiniteSet(rows) /\ Cardinality(rows) \in Nat
      /\ IsFiniteSet(Times(ok, R)) /\ IsFiniteSet(Times(crashed, R))
      /\ Total(ok, R) \in Nat /\ Total(crashed, R) \in Nat
  BY CountsAreNumbers DEF AccountOf
<1>2. Waiting(R)' = Waiting(R) \ {p}
  BY <1>0 DEF Waiting
<1>3. p \in Waiting(R) => request[p] \in R
  BY <1>0 DEF Waiting
<1>4. /\ rows' = rows
      /\ Total(ok, R)' = Total(ok, R) /\ Times(ok, R)' = Times(ok, R)
  BY <1>0 DEF AuditRows, Total, Times, Recording
<1>5. /\ crashed' \in [Requests -> Nat] /\ IsFiniteSet(Times(crashed', R))
      /\ Total(crashed', R) = IF request[p] \in R THEN Total(crashed, R) + 1
                              ELSE Total(crashed, R)
  <2>a. PICK r \in Requests : r = request[p]
    BY <1>0
  <2>b. PICK after : after = [crashed EXCEPT ![r] = @ + 1]
    OBVIOUS
  <2>0. /\ R \subseteq Requests /\ IsFiniteSet(Times(crashed, R)) /\ crashed \in [Requests -> Nat]
        /\ after \in [Requests -> Nat] /\ after[r] = crashed[r] + 1
        /\ \A q \in Requests : q # r => after[q] = crashed[q]
    BY <1>1, <2>b
  <2> HIDE DEF R
  <2>1. /\ IsFiniteSet(Times(after, R))
        /\ Total(after, R) = IF r \in R THEN Total(crashed, R) + 1 ELSE Total(crashed, R)
    BY <2>0, CountedOnceMore
  <2> QED BY <1>0, <1>1, <2>a, <2>b, <2>0, <2>1
<1>6. /\ Cardinality(Waiting(R)') = IF p \in Waiting(R) THEN Cardinality(Waiting(R)) - 1
                                    ELSE Cardinality(Waiting(R))
  BY <1>1, <1>2, FS_RemoveElement
<1>7. /\ Total(ok, R) + Cardinality(Waiting(R)) <= Cardinality(rows)
      /\ Cardinality(rows) <= Total(ok, R) + Cardinality(Waiting(R)) + Total(crashed, R)
  BY DEF AccountOf
<1> HIDE DEF R, rows
<1>8. /\ Total(ok, R) + Cardinality(Waiting(R)') <= Cardinality(rows)
      /\ Cardinality(rows) <= Total(ok, R) + Cardinality(Waiting(R)') + Total(crashed', R)
  BY <1>1, <1>3, <1>5, <1>6, <1>7
<1>9. Times(crashed, R)' = Times(crashed', R) /\ Total(crashed, R)' = Total(crashed', R)
  BY DEF Times, Total, R, Recording
<1> QED BY <1>1, <1>4, <1>5, <1>8, <1>9 DEF AccountOf, R, rows

(***************************************************************************)
(* Every step keeps every transition accounted for.                        *)
(***************************************************************************)
LEMMA AccountStep == StoreInv /\ Accounted /\ [Next]_tvars => Accounted'
<1> SUFFICES ASSUME StoreInv, Accounted, [Next]_tvars PROVE Accounted'
  OBVIOUS
<1>0. ok \in [Requests -> Nat] /\ crashed \in [Requests -> Nat]
  BY DEF Accounted
<1>1. ASSUME NEW p \in Callers, Commit(p) PROVE Accounted'
  BY <1>0, <1>1, CommitCounts DEF Accounted, Commit
<1>2. ASSUME NEW p \in Callers, Deliver(p) PROVE Accounted'
  <2>1. ok' \in [Requests -> Nat] /\ crashed' = crashed
    <3>1. request[p] \in Requests
      BY <1>2 DEF Deliver, StoreInv, TypeOK
    <3> QED BY <1>0, <1>2, <3>1 DEF Deliver
  <2> QED BY <1>0, <1>2, <2>1, DeliverCounts DEF Accounted
<1>3. ASSUME NEW p \in Callers, Crash(p) PROVE Accounted'
  <2>1. crashed' \in [Requests -> Nat] /\ ok' = ok
    <3>1. request[p] \in Requests
      BY <1>3 DEF Crash, StoreInv, TypeOK
    <3> QED BY <1>0, <1>3, <3>1 DEF Crash
  <2> QED BY <1>0, <1>3, <2>1, CrashCounts DEF Accounted
<1>4. CASE UNCHANGED <<db, ok, crashed>> /\ \A R : Waiting(R)' = Waiting(R)
  <2>1. ASSUME NEW intent \in IntentIds, NEW transition \in Store!Status
        PROVE  AccountOf(intent, transition)'
    <3>1. PICK R : R = Recording(intent, transition)
      OBVIOUS
    <3>2. Waiting(R)' = Waiting(R)
      BY <1>4
    <3>3. /\ Times(ok, R)' = Times(ok, R) /\ Times(crashed, R)' = Times(crashed, R)
          /\ AuditRows(intent, transition)' = AuditRows(intent, transition)
      BY <1>4, <3>1 DEF Times, AuditRows, Recording
    <3>4. AccountOf(intent, transition)
      BY DEF Accounted
    <3> QED BY <1>4, <3>1, <3>2, <3>3, <3>4 DEF AccountOf, Total
  <2> QED BY <1>0, <1>4, <2>1 DEF Accounted
<1> QED BY <1>1, <1>2, <1>3, <1>4, CountingSteps

(***************************************************************************)
(* Exactly once, for any callers, calls and faults: every transition on    *)
(* record is a reported success, a caller about to hear of it or a process *)
(* that died, and every reported success is on record.                     *)
(***************************************************************************)
THEOREM EveryTransitionAccounted == Spec => []TransitionsAccounted
<1>1. Init => Accounted
  <2> SUFFICES ASSUME Init PROVE Accounted
    OBVIOUS
  <2>1. /\ ok = [r \in Requests |-> 0] /\ crashed = [r \in Requests |-> 0]
        /\ db.audit = <<>> /\ \A p \in Callers : pc[p] = "closed"
    BY DEF Init, Empty
  <2>2. ASSUME NEW intent \in IntentIds, NEW transition \in Store!Status
        PROVE  AccountOf(intent, transition)
    <3> DEFINE R == Recording(intent, transition)
    <3>1. \A r \in R : 1..ok[r] = {} /\ 1..crashed[r] = {}
      BY <2>1 DEF Recording
    <3>2. Times(ok, R) = {} /\ Times(crashed, R) = {}
      BY <3>1 DEF Times
    <3>3. Waiting(R) = {} /\ AuditRows(intent, transition) = {}
      BY <2>1 DEF Waiting, AuditRows
    <3> QED BY <3>2, <3>3, FS_EmptySet DEF AccountOf, Total
  <2> QED BY <2>1, <2>2 DEF Accounted
<1>2. Accounted => TransitionsAccounted
  BY DEF Accounted, AccountOf, TransitionsAccounted, Waiting
<1> QED BY <1>1, <1>2, AccountStep, StoreInvariant, PTL DEF Spec

=============================================================================
