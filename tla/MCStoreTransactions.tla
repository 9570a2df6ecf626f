------------------------ MODULE MCStoreTransactions ------------------------
(***************************************************************************)
(* Instances of StoreTransactions for TLC: the calls that meet each other. *)
(***************************************************************************)
EXTENDS StoreTransactions, TLC

CONSTANTS s1, e1, e2, x, y, i1, i2, c1, c2, h1

Ingestion(id, sequence, block, payload) ==
    [op |-> "ingest", source |-> s1, event_id |-> id, sequence |-> sequence,
     block |-> block, payload |-> payload]

Reservation(intent, incident, ids) ==
    [op |-> "reserve", intent |-> intent, incident |-> incident, event_ids |-> ids]

Outcome(intent, outcome) == [op |-> "finish", intent |-> intent, outcome |-> outcome]

\* A replay, a conflicting replay, an older position, an unstorable block; two
\* intents that want an event each, a reused incident, an unknown event.
Contention ==
    { Ingestion(e1, 10, 1, x), Ingestion(e1, 10, 1, y), Ingestion(e2, 9, 1, x),
      Ingestion(e2, 11, 2, x),
      Reservation(i1, c1, <<e1, e2>>), Reservation(i2, c2, <<e2>>),
      Reservation(i2, c1, <<e2>>), Reservation(i1, c1, <<e1, e1>>),
      Outcome(i1, "already_desired") }

\* The life of one intent and its retries.
Lifecycle ==
    { Ingestion(e1, 9, 1, x), Reservation(i1, c1, <<e1>>),
      [op |-> "prepare", intent |-> i1, nonce |-> 0],
      [op |-> "prepare", intent |-> i1, nonce |-> 2],
      [op |-> "broadcast", intent |-> i1, tx_hash |-> h1],
      Outcome(i1, "success"), Outcome(i1, "indeterminate") }

MCPositions == {9, 10, 11}

CallerSymmetry == Permutations(Callers)
=============================================================================
