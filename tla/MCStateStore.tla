---------------------------- MODULE MCStateStore ----------------------------
(***************************************************************************)
(* Instances of StateStore for TLC.  Positions 9 and 10 order differently  *)
(* as numbers and as texts; -1 is refused by ingest.  MaxInteger is the    *)
(* largest block and nonce that can be stored, one below the largest that  *)
(* is passed.                                                              *)
(***************************************************************************)
EXTENDS StateStore, TLC

MCPositions == {-1, 9, 10}

MCNonces == {-1, 0, 1, 2}

Symmetry ==
    Permutations(IntentIds) \cup Permutations(IncidentIds) \cup
    Permutations(EventIds) \cup Permutations(Hashes) \cup
    Permutations(Sources) \cup Permutations(Payloads)
=============================================================================
