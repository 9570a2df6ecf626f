------------------------------- MODULE Subgraph -------------------------------
(***************************************************************************)
(* subgraph/src/demo-vault.ts: handleWithdrawal, which graph-node calls    *)
(* for each Withdrawal event of each block it indexes.  The chain and      *)
(* graph-node are external: blocks are mined and, in a reorganisation,     *)
(* taken back; a transaction of a block that was taken back may be mined   *)
(* again elsewhere.  graph-node follows block by block and takes the       *)
(* entities of a block back with it.                                       *)
(*                                                                         *)
(* A log is an event of any contract; its index counts within the block.   *)
(* The fields copied from the event are its data.                          *)
(***************************************************************************)
EXTENDS Integers, FiniteSets, Sequences, SequencesExt

CONSTANTS
    Txs,                            \* transaction hashes
    LogsPerBlock,                   \* LOGS_PER_BLOCK, 1_000_000
    MaxBlocks                       \* bound: blocks ever mined

\* Gas keeps a block from holding more than LOGS_PER_BLOCK logs.
ASSUME BlockAssumption == LogsPerBlock \in Nat \ {0} /\ MaxBlocks \in Nat

VARIABLES
    chain,                          \* the canonical blocks
    indexed,                        \* the blocks graph-node has indexed
    entities,                       \* Withdrawal entities by id
    mined                           \* how many blocks were mined; the last one's hash

vars == <<chain, indexed, entities, mined>>

Log == [tx : Txs, withdrawal : BOOLEAN]

\* Where the blocks have logs: block number, place among the block's logs.
Logged(blocks) ==
    {p \in (1..Len(blocks)) \X (1..LogsPerBlock) : p[2] <= Len(blocks[p[1]].logs)}

TxAt(blocks, p) == blocks[p[1]].logs[p[2]].tx

\* A transaction is mined once, and its logs are together.
Sound(blocks) ==
    \A p, q \in Logged(blocks) : TxAt(blocks, p) = TxAt(blocks, q) =>
        /\ p[1] = q[1]
        /\ \A i \in p[2]..q[2] : TxAt(blocks, <<p[1], i>>) = TxAt(blocks, p)

Init == chain = <<>> /\ indexed = <<>> /\ entities = <<>> /\ mined = 0

Mine(logs) ==
    /\ mined < MaxBlocks /\ mined' = mined + 1
    /\ chain' = Append(chain, [hash |-> mined + 1, logs |-> logs])
    /\ Sound(chain')
    /\ UNCHANGED <<indexed, entities>>

Reorganise(height) ==
    /\ chain' = SubSeq(chain, 1, height)
    /\ UNCHANGED <<indexed, entities, mined>>

-----------------------------------------------------------------------------
(* The handler. *)

\* Mutant of Id: one entity per transaction.
IdMutant(log, logIndex) == <<log.tx, 0>>

Id(log, logIndex) == <<log.tx, logIndex>>

\* Mutant of Sequence: the stride is one short.
SequenceMutant(number, logIndex) == number * (LogsPerBlock - 1) + logIndex

Sequence(number, logIndex) == number * LogsPerBlock + logIndex

\* Positions of the Withdrawal events among the logs of a block.
Withdrawals(block) == {i \in DOMAIN block.logs : block.logs[i].withdrawal}

\* What handleWithdrawal saves for the event at log i of block b.
Entity(blocks, b, i) ==
    [id |-> Id(blocks[b].logs[i], i - 1), sequence |-> Sequence(b, i - 1),
     blockNumber |-> b, blockHash |-> blocks[b].hash, data |-> <<blocks[b].logs[i].tx, i>>]

\* All of it for the blocks' events, block numbers from 1.
Saved(blocks) ==
    {Entity(blocks, p[1], p[2]) :
        p \in {q \in Logged(blocks) : q[2] \in Withdrawals(blocks[q[1]])}}

IndexBlock ==
    /\ IsPrefix(indexed, chain) /\ indexed # chain
    /\ indexed' = SubSeq(chain, 1, Len(indexed) + 1)
    /\ LET new == {e \in Saved(indexed') : e.blockNumber = Len(indexed')}
       IN  entities' = [id \in DOMAIN entities \cup {e.id : e \in new} |->
                           IF \E e \in new : e.id = id
                           THEN CHOOSE e \in new : e.id = id ELSE entities[id]]
    /\ UNCHANGED <<chain, mined>>

RevertBlock ==
    /\ ~IsPrefix(indexed, chain)
    /\ indexed' = Front(indexed)
    /\ entities' = [id \in {i \in DOMAIN entities : entities[i].blockHash # Last(indexed).hash}
                       |-> entities[id]]
    /\ UNCHANGED <<chain, mined>>

Next ==
    \/ \E n \in 0..LogsPerBlock : \E logs \in [1..n -> Log] : Mine(logs)
    \/ \E height \in 0..Len(chain) - 1 : Reorganise(height)
    \/ IndexBlock \/ RevertBlock

Spec == Init /\ [][Next]_vars

-----------------------------------------------------------------------------
(* Properties. *)

Events == UNION {{<<b, i>> : i \in Withdrawals(indexed[b])} : b \in DOMAIN indexed}

(***************************************************************************)
(* ES-FR-003: the entities are the Withdrawal events of the indexed        *)
(* blocks, one entity per event, several in one transaction included, also *)
(* after blocks were taken back and their transactions mined elsewhere.    *)
(***************************************************************************)
EntitiesMirrorChain ==
    /\ {entities[id] : id \in DOMAIN entities} = Saved(indexed)
    /\ Cardinality(DOMAIN entities) = Cardinality(Events)

(***************************************************************************)
(* schema.graphql, "Sortable event position": entities sort by sequence as *)
(* their events lie on the chain, across block boundaries.                 *)
(***************************************************************************)
SequenceIsPosition ==
    \A d, e \in Saved(indexed) :
        d.sequence < e.sequence
            <=> \/ d.blockNumber < e.blockNumber
                \/ d.blockNumber = e.blockNumber /\ d.data[2] < e.data[2]

=============================================================================
