-------------------------- MODULE StoreTransactions --------------------------
(***************************************************************************)
(* sentinel/store.py one SQL statement at a time.  Several callers, each   *)
(* with its own connection (threads or independent processes), run the     *)
(* public methods.  Every method that writes holds SQLite's write lock     *)
(* from BEGIN IMMEDIATE to COMMIT or ROLLBACK and sees, in between, its    *)
(* own uncommitted tables.  A statement may fail with a storage error, a   *)
(* caller may wait for the lock longer than the 10 s busy timeout, and a   *)
(* process may die at any statement, also between the commit and the       *)
(* return.  The committed tables implement StateStore.                     *)
(*                                                                         *)
(* The getters cursor, intent and is_latched change nothing and are left   *)
(* out; under WAL they read the committed tables.                          *)
(***************************************************************************)
EXTENDS Integers, Sequences, FiniteSets

CONSTANTS
    Sources, EventIds, Payloads, Positions, Blocks, IntentIds, IncidentIds,
    Nonces, Hashes, Null, MaxInteger, MaxAudit,     \* as in StateStore
    Callers,
    Requests,           \* the calls with arguments callers make
    FileVersions,       \* user_version of the file found at the start
    MaxCalls            \* bound: calls issued in a behaviour

VARIABLES
    db,         \* the committed tables
    version,    \* PRAGMA user_version of the file
    writer,     \* the caller that holds the write lock, or Null
    work,       \* the tables as the lock holder sees them
    pc,         \* the statement each caller executes next
    request,    \* the call each caller is in, Null outside one
    answer,     \* its value: TRUE also for a method that wrote and returns None
    issued,     \* calls begun so far
    ok,         \* how often each call reported that it wrote
    crashed     \* how often a process died inside each call

tvars == <<db, version, writer, work, pc, request, answer, issued, ok, crashed>>

Store == INSTANCE StateStore WITH
    events <- db.events, cursors <- db.cursors, incidents <- db.incidents,
    intents <- db.intents, intent_events <- db.intent_events,
    latch <- db.latch, outbox <- db.outbox, audit <- db.audit

\* The conditions of StateStore, evaluated on the tables the writer sees.
Work == INSTANCE StateStore WITH
    events <- work.events, cursors <- work.cursors, incidents <- work.incidents,
    intents <- work.intents, intent_events <- work.intent_events,
    latch <- work.latch, outbox <- work.outbox, audit <- work.audit

Empty == [events |-> Store!EmptyTable, cursors |-> Store!EmptyTable,
          incidents |-> Store!EmptyTable, intents |-> Store!EmptyTable,
          intent_events |-> Store!EmptyTable, latch |-> FALSE,
          outbox |-> <<>>, audit |-> <<>>]

\* Where a caller is between BEGIN IMMEDIATE and the end of its transaction.
Statements ==
    {"schema",
     "ingest", "ingest_insert", "ingest_cursor",
     "reserve", "reserve_known", "reserve_events", "reserve_incident",
     "reserve_intent", "reserve_own",
     "prepare", "broadcast", "finish", "finish_update", "finish_latch",
     "audit", "outbox", "commit"}

\* A call of a public method with arguments of the types it declares.
IsCall(r) ==
    \/ r \in [op : {"ingest"}, source : Sources, event_id : EventIds, sequence : Positions,
              block : Blocks, payload : Payloads]
    \/ r \in [op : {"reserve"}, intent : IntentIds, incident : IncidentIds,
              event_ids : Seq(EventIds)]
    \/ r \in [op : {"prepare"}, intent : IntentIds, nonce : Nonces]
    \/ r \in [op : {"broadcast"}, intent : IntentIds, tx_hash : Hashes]
    \/ r \in [op : {"finish"}, intent : IntentIds, outcome : Store!Outcome]

ASSUME CallsAssumption ==
    /\ \A r \in Requests : IsCall(r)
    /\ Null \notin Callers /\ Null \notin Requests /\ Null \notin BOOLEAN
    /\ IsFiniteSet(Callers)
    /\ MaxCalls \in Nat /\ MaxAudit \in Nat /\ MaxCalls <= MaxAudit

\* As StateStore assumes it of the same constants.
ASSUME StoreAssumption ==
    /\ Store!ArgumentAssumption
    /\ Store!NullAssumption
    /\ Store!DecimalAssumption

Init ==
    /\ db = Empty
    /\ version \in FileVersions
    /\ writer = Null /\ work = Empty
    /\ pc = [p \in Callers |-> "closed"]
    /\ request = [p \in Callers |-> Null]
    /\ answer = [p \in Callers |-> Null]
    /\ issued = 0
    /\ ok = [r \in Requests |-> 0]
    /\ crashed = [r \in Requests |-> 0]

-----------------------------------------------------------------------------
(* Leaving and advancing in a transaction. *)

At(p, label) == pc[p] = label /\ writer = p

Goto(p, label) == pc' = [pc EXCEPT ![p] = label]

\* The statement succeeds and leaves these tables to the next one.
Advance(p, tables, label) ==
    /\ work' = tables
    /\ Goto(p, label)
    /\ UNCHANGED <<db, version, writer, request, answer, issued, ok, crashed>>

\* return inside the with block: commit comes first.
Return(p, value) ==
    /\ answer' = [answer EXCEPT ![p] = value]
    /\ Goto(p, "commit")
    /\ UNCHANGED <<db, version, writer, work, request, issued, ok, crashed>>

\* Mutant of Raise: the exception leaves the transaction open.
RaiseMutant(p) ==
    /\ pc' = [pc EXCEPT ![p] = IF request[p] = Null THEN "closed" ELSE "idle"]
    /\ request' = [request EXCEPT ![p] = Null]
    /\ answer' = [answer EXCEPT ![p] = Null]
    /\ UNCHANGED <<db, version, writer, work, issued, ok, crashed>>

\* An exception: rollback, and the call ends without a value.
Raise(p) ==
    /\ writer' = Null /\ work' = Empty
    /\ pc' = [pc EXCEPT ![p] = IF request[p] = Null THEN "closed" ELSE "idle"]
    /\ request' = [request EXCEPT ![p] = Null]
    /\ answer' = [answer EXCEPT ![p] = Null]
    /\ UNCHANGED <<db, version, issued, ok, crashed>>

-----------------------------------------------------------------------------
(* __init__: every process opens the store before it calls anything. *)

Open(p) ==
    /\ pc[p] = "closed"
    /\ version \in {0, 1}           \* any other version raises
    /\ Goto(p, "begin")
    /\ UNCHANGED <<db, version, writer, work, request, answer, issued, ok, crashed>>

\* CREATE TABLE IF NOT EXISTS keeps what is there; COMMIT is part of the script.
Schema(p) ==
    /\ At(p, "schema")
    /\ version' = 1
    /\ writer' = Null /\ work' = Empty
    /\ Goto(p, "idle")
    /\ UNCHANGED <<db, request, answer, issued, ok, crashed>>

-----------------------------------------------------------------------------
(* _transaction *)

\* The argument checks that raise before a connection is opened.
ValidArguments(r) ==
    CASE r.op = "ingest"  -> r.sequence >= 0 /\ r.block >= 0
      [] r.op = "reserve" -> /\ r.event_ids # <<>>
                             /\ \A j, k \in DOMAIN r.event_ids :
                                    r.event_ids[j] = r.event_ids[k] => j = k
      [] r.op = "prepare" -> r.nonce >= 0
      [] OTHER            -> TRUE

Call(p, r) ==
    /\ pc[p] = "idle" /\ issued < MaxCalls
    /\ ValidArguments(r)
    /\ issued' = issued + 1
    /\ request' = [request EXCEPT ![p] = r]
    /\ Goto(p, "begin")
    /\ UNCHANGED <<db, version, writer, work, answer, ok, crashed>>

Begin(p) ==
    /\ pc[p] = "begin" /\ writer = Null
    /\ writer' = p /\ work' = db
    /\ Goto(p, IF request[p] = Null THEN "schema" ELSE request[p].op)
    /\ UNCHANGED <<db, version, request, answer, issued, ok, crashed>>

\* "database is locked" after the busy timeout; there is nothing to roll back.
Busy(p) ==
    /\ pc[p] = "begin" /\ writer # Null
    /\ pc' = [pc EXCEPT ![p] = IF request[p] = Null THEN "closed" ELSE "idle"]
    /\ request' = [request EXCEPT ![p] = Null]
    /\ UNCHANGED <<db, version, writer, work, answer, issued, ok, crashed>>

Commit(p) ==
    /\ At(p, "commit")
    /\ db' = work
    /\ writer' = Null /\ work' = Empty
    /\ Goto(p, "return")
    /\ UNCHANGED <<version, request, answer, issued, ok, crashed>>

\* The connection is closed and the caller has its answer.
Deliver(p) ==
    /\ pc[p] = "return"
    /\ ok' = IF answer[p] = TRUE THEN [ok EXCEPT ![request[p]] = @ + 1] ELSE ok
    /\ Goto(p, "idle")
    /\ request' = [request EXCEPT ![p] = Null]
    /\ answer' = [answer EXCEPT ![p] = Null]
    /\ UNCHANGED <<db, version, writer, work, issued, crashed>>

\* Mutant of StorageError: what was written before the error stays.
StorageErrorMutant(p) ==
    /\ writer = p
    /\ db' = work
    /\ writer' = Null /\ work' = Empty
    /\ pc' = [pc EXCEPT ![p] = IF request[p] = Null THEN "closed" ELSE "idle"]
    /\ request' = [request EXCEPT ![p] = Null]
    /\ answer' = [answer EXCEPT ![p] = Null]
    /\ UNCHANGED <<version, issued, ok, crashed>>

\* Any statement, the commit included, may raise sqlite3.Error.
StorageError(p) ==
    /\ writer = p
    /\ Raise(p)

\* The process dies: the lock and the uncommitted tables go with it.
Crash(p) ==
    /\ request[p] # Null
    /\ crashed' = [crashed EXCEPT ![request[p]] = @ + 1]
    /\ writer' = IF writer = p THEN Null ELSE writer
    /\ work' = IF writer = p THEN Empty ELSE work
    /\ Goto(p, "closed")
    /\ request' = [request EXCEPT ![p] = Null]
    /\ answer' = [answer EXCEPT ![p] = Null]
    /\ UNCHANGED <<db, version, issued, ok>>

-----------------------------------------------------------------------------
(* ingest *)

Row(r) == [source |-> r.source, sequence |-> Store!Str[r.sequence],
           block_number |-> r.block, payload |-> r.payload]

\* Mutant of IngestPrevious: any known id counts as a replay.
IngestPreviousMutant(p) ==
    LET r == request[p] IN
    /\ At(p, "ingest")
    /\ \/ Work!NewEvent(r.event_id) /\ Advance(p, work, "ingest_insert")
       \/ ~Work!NewEvent(r.event_id) /\ Return(p, FALSE)

IngestPrevious(p) ==
    LET r == request[p] IN
    /\ At(p, "ingest")
    /\ \/ Work!NewEvent(r.event_id) /\ Advance(p, work, "ingest_insert")
       \/ /\ ~Work!NewEvent(r.event_id)
          /\ IF work.events[r.event_id] = Row(r)
             THEN Return(p, FALSE) ELSE Raise(p)

IngestInsert(p) ==
    LET r == request[p] IN
    /\ At(p, "ingest_insert")
    /\ IF Work!Storable(r.block)
       THEN Advance(p, [work EXCEPT !.events = Work!Put(@, r.event_id, Row(r))],
                    "ingest_cursor")
       ELSE Raise(p)

IngestCursor(p) ==
    LET r == request[p] IN
    /\ At(p, "ingest_cursor")
    /\ answer' = [answer EXCEPT ![p] = TRUE]
    /\ work' = IF Work!AdvancesCursor(r.source, r.sequence)
               THEN [work EXCEPT !.cursors = Work!Put(@, r.source,
                        [sequence |-> Store!Str[r.sequence], block_number |-> r.block])]
               ELSE work
    /\ Goto(p, "commit")
    /\ UNCHANGED <<db, version, writer, request, issued, ok, crashed>>

-----------------------------------------------------------------------------
(* reserve *)

ReserveBlocked(p) ==
    /\ At(p, "reserve")
    /\ IF Work!ReservationBlocked THEN Return(p, FALSE)
       ELSE Advance(p, work, "reserve_known")

ReserveKnown(p) ==
    /\ At(p, "reserve_known")
    /\ IF Work!NewIntent(request[p].intent) THEN Advance(p, work, "reserve_events")
       ELSE Return(p, FALSE)

\* The loop stops at the first event that is owned or unknown.
ReserveEvents(p) ==
    LET ids == request[p].event_ids
        Fails(k) == ~Work!Reservable(ids[k])
        First(k) == Fails(k) /\ \A j \in 1..(k - 1) : ~Fails(j)
    IN
    /\ At(p, "reserve_events")
    /\ \/ (\A k \in DOMAIN ids : ~Fails(k)) /\ Advance(p, work, "reserve_incident")
       \/ \E k \in DOMAIN ids :
             /\ First(k)
             /\ IF ids[k] \in DOMAIN work.intent_events THEN Return(p, FALSE) ELSE Raise(p)

ReserveIncident(p) ==
    LET r == request[p] IN
    /\ At(p, "reserve_incident")
    /\ IF Work!NewIncident(r.incident)
       THEN Advance(p, [work EXCEPT !.incidents =
                            Work!Put(@, r.incident, {r.event_ids[k] : k \in DOMAIN r.event_ids})],
                    "reserve_intent")
       ELSE Raise(p)

ReserveIntent(p) ==
    LET r == request[p] IN
    /\ At(p, "reserve_intent")
    /\ Advance(p, [work EXCEPT !.intents = Work!Put(@, r.intent,
                      [incident_id |-> r.incident, status |-> "reserved",
                       nonce |-> Null, tx_hash |-> Null])],
               "reserve_own")

\* Mutant of ReserveOwn: only the first event of the list is owned.
ReserveOwnMutant(p) ==
    LET r == request[p] IN
    /\ At(p, "reserve_own")
    /\ Advance(p, [work EXCEPT !.intent_events = Work!Put(@, r.event_ids[1], r.intent)],
               "audit")

ReserveOwn(p) ==
    LET r   == request[p]
        ids == {r.event_ids[k] : k \in DOMAIN r.event_ids}
    IN
    /\ At(p, "reserve_own")
    /\ Advance(p, [work EXCEPT !.intent_events =
                      [e \in DOMAIN @ \cup ids |-> IF e \in ids THEN r.intent ELSE @[e]]],
               "audit")

-----------------------------------------------------------------------------
(* _audit: the last statement, but for the outbox of finish *)

Transition(r) ==
    CASE r.op = "reserve"   -> "reserved"
      [] r.op = "prepare"   -> "prepared"
      [] r.op = "broadcast" -> "broadcast"
      [] r.op = "finish"    -> r.outcome

Audit(p) ==
    LET r == request[p] IN
    /\ At(p, "audit")
    /\ work' = [work EXCEPT !.audit =
                    Append(@, [intent |-> r.intent, transition |-> Transition(r)])]
    /\ answer' = [answer EXCEPT ![p] = TRUE]
    /\ Goto(p, IF r.op = "finish" THEN "outbox" ELSE "commit")
    /\ UNCHANGED <<db, version, writer, request, issued, ok, crashed>>

-----------------------------------------------------------------------------
(* prepare, broadcast, finish *)

PrepareUpdate(p) ==
    LET r == request[p] IN
    /\ At(p, "prepare")
    /\ IF Work!Storable(r.nonce) /\ Work!HasStatus(r.intent, {"reserved"})
       THEN Advance(p, [work EXCEPT !.intents[r.intent].status = "prepared",
                                    !.intents[r.intent].nonce = r.nonce],
                    "audit")
       ELSE Raise(p)

BroadcastUpdate(p) ==
    LET r == request[p] IN
    /\ At(p, "broadcast")
    /\ IF Work!HasStatus(r.intent, {"prepared"})
       THEN Advance(p, [work EXCEPT !.intents[r.intent].status = "broadcast",
                                    !.intents[r.intent].tx_hash = r.tx_hash],
                    "audit")
       ELSE Raise(p)

FinishCheck(p) ==
    /\ At(p, "finish")
    /\ IF Work!OutcomeAllowed(request[p].intent, request[p].outcome)
       THEN Advance(p, work, "finish_update") ELSE Raise(p)

FinishUpdate(p) ==
    LET r == request[p] IN
    /\ At(p, "finish_update")
    /\ Advance(p, [work EXCEPT !.intents[r.intent].status = r.outcome], "finish_latch")

FinishLatch(p) ==
    /\ At(p, "finish_latch")
    /\ Advance(p, [work EXCEPT !.latch = Work!LatchAfter(request[p].outcome)], "audit")

FinishOutbox(p) ==
    LET r == request[p] IN
    /\ At(p, "outbox")
    /\ Advance(p, [work EXCEPT !.outbox =
                      Append(@, [intent |-> r.intent, outcome |-> r.outcome])], "commit")

-----------------------------------------------------------------------------
Statement(p) ==
    \/ Schema(p)
    \/ IngestPrevious(p) \/ IngestInsert(p) \/ IngestCursor(p)
    \/ ReserveBlocked(p) \/ ReserveKnown(p) \/ ReserveEvents(p)
    \/ ReserveIncident(p) \/ ReserveIntent(p) \/ ReserveOwn(p)
    \/ PrepareUpdate(p) \/ BroadcastUpdate(p)
    \/ FinishCheck(p) \/ FinishUpdate(p) \/ FinishLatch(p) \/ FinishOutbox(p)
    \/ Audit(p)
    \/ Commit(p)

Next == \E p \in Callers :
    \/ Open(p)
    \/ \E r \in Requests : Call(p, r)
    \/ Begin(p) \/ Busy(p)
    \/ Statement(p)
    \/ Deliver(p)
    \/ StorageError(p)
    \/ Crash(p)

Spec == Init /\ [][Next]_tvars

(***************************************************************************)
(* A statement of SQLite ends, a wait for the lock is cut by the timeout.  *)
(* Nothing is assumed of callers (they need not call), faults or crashes.  *)
(***************************************************************************)
FairSpec ==
    /\ Spec
    /\ \A p \in Callers : WF_tvars(Statement(p)) /\ WF_tvars(Begin(p) \/ Busy(p))

-----------------------------------------------------------------------------
(* Properties. *)

(***************************************************************************)
(* The lock, the statement a caller is at and the call it is in agree: the *)
(* tables being written belong to the one caller inside a transaction.     *)
(***************************************************************************)
TypeOK ==
    /\ writer \in Callers \cup {Null}
    /\ version \in FileVersions \cup {1}
    /\ issued \in 0..MaxCalls
    /\ pc \in [Callers -> Statements \cup {"closed", "idle", "begin", "return"}]
    /\ request \in [Callers -> Requests \cup {Null}]
    /\ answer \in [Callers -> BOOLEAN \cup {Null}]
    /\ \A p \in Callers :
          /\ writer = p <=> pc[p] \in Statements
          /\ pc[p] \in {"closed", "idle", "schema"} => request[p] = Null
          /\ pc[p] \in (Statements \ {"schema"}) \cup {"return"} => request[p] # Null
    /\ writer = Null => work = Empty

(***************************************************************************)
(* Committed tables change only as an atomic call of the store would       *)
(* change them: no interleaving of statements, storage error, lock timeout *)
(* or crash leaves part of an ingest, a reservation or a transition.       *)
(***************************************************************************)
ImplementsStore == Store!Spec

\* A caller that has its answer, whatever others committed since.
Answered(p, op, value) == pc[p] = "return" /\ request[p].op = op /\ answer[p] = value

(***************************************************************************)
(* What a call returns is true of the committed tables when it returns,    *)
(* though other callers may have committed in between: ingest (True or     *)
(* False) means that exactly this event is stored, reserve that this       *)
(* intent holds these events, a transition that it is on record.           *)
(***************************************************************************)
AnswersHold == \A p \in Callers :
    LET r == request[p] IN
    /\ \A value \in BOOLEAN : Answered(p, "ingest", value) =>
          /\ r.event_id \in DOMAIN db.events /\ db.events[r.event_id] = Row(r)
          /\ r.sequence <= Store!IntOf[db.cursors[r.source].sequence]
    /\ Answered(p, "reserve", TRUE) =>
          \A k \in DOMAIN r.event_ids : db.intent_events[r.event_ids[k]] = r.intent
    /\ \A op \in {"reserve", "prepare", "broadcast", "finish"} : Answered(p, op, TRUE) =>
          \E k \in DOMAIN db.audit :
              db.audit[k] = [intent |-> r.intent, transition |-> Transition(r)]

\* Each of the times that these calls were counted, and how many they are.
Times(counts, R) == UNION {{r} \X (1..counts[r]) : r \in R}

Total(counts, R) == Cardinality(Times(counts, R))

Recording(intent, transition) ==
    {r \in Requests : /\ r.op # "ingest"
                      /\ r.intent = intent /\ Transition(r) = transition}

AuditRows(intent, transition) ==
    {k \in DOMAIN db.audit : db.audit[k] = [intent |-> intent, transition |-> transition]}

(***************************************************************************)
(* Exactly once, seen from the callers: each transition on record is one   *)
(* call that reported success, or one that died or has yet to hear of its  *)
(* commit.  A call that raised has left no transition, and no success was  *)
(* reported without one.                                                   *)
(***************************************************************************)
TransitionsAccounted ==
    \A intent \in IntentIds, transition \in Store!Status :
        LET R        == Recording(intent, transition)
            rows     == Cardinality(AuditRows(intent, transition))
            unheard  == Cardinality({p \in Callers : /\ pc[p] = "return" /\ answer[p] = TRUE
                                                     /\ request[p] \in R})
        IN  /\ Total(ok, R) + unheard <= rows
            /\ rows <= Total(ok, R) + unheard + Total(crashed, R)

(***************************************************************************)
(* One event, one action, across callers, restarts and retries: at most    *)
(* one reserve call over an event ever reports success.                    *)
(***************************************************************************)
ReservationWonOnce ==
    \A e \in EventIds :
        LET R == {r \in Requests : /\ r.op = "reserve"
                                   /\ \E k \in DOMAIN r.event_ids : r.event_ids[k] = e}
        IN  \A r1, r2 \in R : (ok[r1] > 0 /\ ok[r2] > 0) => (r1 = r2 /\ ok[r1] = 1)

(***************************************************************************)
(* Nobody keeps the store locked: whoever takes the write lock gives it    *)
(* back, by commit, by rollback after any exception, or by dying.          *)
(***************************************************************************)
LockIsFreed == \A p \in Callers : writer = p ~> writer # p

=============================================================================
