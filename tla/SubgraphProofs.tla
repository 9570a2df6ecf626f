---------------------------- MODULE SubgraphProofs ----------------------------
(***************************************************************************)
(* The entities of the subgraph for any transactions, any number of blocks *)
(* and any reorganisations.  The entities are what handleWithdrawal saves  *)
(* for the blocks indexed; a block adds and takes back only its own,       *)
(* because a transaction is mined once on a chain, so that no entity is    *)
(* overwritten, and because no two blocks share a hash.                    *)
(***************************************************************************)
EXTENDS Subgraph, FiniteSetTheorems, TLAPS

Block == [hash : Nat, logs : Seq(Log)]

\* Blocks as the chain and graph-node hold them.
IsChain(blocks) ==
    /\ blocks \in Seq(Block)
    /\ \A b \in 1..Len(blocks) : Len(blocks[b].logs) <= LogsPerBlock
    /\ \A b, c \in 1..Len(blocks) : blocks[b].hash = blocks[c].hash => b = c
    /\ Sound(blocks)

\* Block and place of the Withdrawal events.
Emitted(blocks) == {p \in Logged(blocks) : p[2] \in Withdrawals(blocks[p[1]])}

IdAt(blocks, p) == <<blocks[p[1]].logs[p[2]].tx, p[2] - 1>>

EntitiesRight ==
    /\ DOMAIN entities = {IdAt(indexed, p) : p \in Emitted(indexed)}
    /\ \A p \in Emitted(indexed) :
          entities[IdAt(indexed, p)] = Entity(indexed, p[1], p[2])

\* No block carries a hash that is still to be given.
HashesGiven(blocks, last) == \A b \in 1..Len(blocks) : blocks[b].hash <= last

Inv ==
    /\ mined \in Nat
    /\ IsChain(chain) /\ HashesGiven(chain, mined)
    /\ IsChain(indexed) /\ HashesGiven(indexed, mined)
    /\ EntitiesRight

-----------------------------------------------------------------------------
(* Blocks. *)

(***************************************************************************)
(* The first blocks of a chain are a chain: same logs at the same places.  *)
(***************************************************************************)
LEMMA PrefixIsChain ==
    ASSUME NEW blocks, IsChain(blocks), NEW n \in 0..Len(blocks)
    PROVE  LET first == SubSeq(blocks, 1, n) IN
           /\ IsChain(first) /\ Len(first) = n
           /\ \A b \in 1..n : first[b] = blocks[b]
<1> DEFINE first == SubSeq(blocks, 1, n)
<1>1. /\ first \in Seq(Block) /\ Len(first) = n /\ n \in Nat /\ n <= Len(blocks)
      /\ Len(blocks) \in Nat
      /\ \A b \in 1..n : first[b] = blocks[b]
  BY DEF IsChain
<1> HIDE DEF first
<1>2. \A p \in Logged(first) : p \in Logged(blocks) /\ TxAt(first, p) = TxAt(blocks, p)
  BY <1>1 DEF Logged, TxAt
<1>3. Sound(first)
  <2> SUFFICES ASSUME NEW p \in Logged(first), NEW q \in Logged(first),
                      TxAt(first, p) = TxAt(first, q)
               PROVE  /\ p[1] = q[1]
                      /\ \A i \in p[2]..q[2] : TxAt(first, <<p[1], i>>) = TxAt(first, p)
    BY DEF Sound
  <2>1. /\ p[1] = q[1]
        /\ \A i \in p[2]..q[2] : TxAt(blocks, <<p[1], i>>) = TxAt(blocks, p)
    BY <1>2 DEF IsChain, Sound
  <2>2. p[1] \in 1..n
    BY <1>1 DEF Logged
  <2> QED BY <1>1, <2>1, <2>2 DEF TxAt
<1>4. \A b \in 1..n : b \in 1..Len(blocks)
  BY <1>1
<1>5. ASSUME NEW b \in 1..n PROVE Len(first[b].logs) <= LogsPerBlock
  <2>1. Len(blocks[b].logs) <= LogsPerBlock
    BY <1>4, Zenon DEF IsChain
  <2> QED BY <1>1, <2>1, Zenon
<1>6. ASSUME NEW b \in 1..n, NEW c \in 1..n, first[b].hash = first[c].hash PROVE b = c
  <2>1. blocks[b].hash = blocks[c].hash
    BY <1>1, <1>6, Zenon
  <2> QED BY <1>4, <2>1, Zenon DEF IsChain
<1> QED BY <1>1, <1>3, <1>5, <1>6, Zenon DEF IsChain, first

(***************************************************************************)
(* An event is known by its transaction and its place in the block: the    *)
(* id of its entity.                                                       *)
(***************************************************************************)
LEMMA IdsAreUnique ==
    ASSUME NEW blocks, IsChain(blocks),
           NEW p \in Emitted(blocks), NEW q \in Emitted(blocks),
           IdAt(blocks, p) = IdAt(blocks, q)
    PROVE  p = q
<1>1. p \in Logged(blocks) /\ q \in Logged(blocks)
  BY DEF Emitted
<1>2. TxAt(blocks, p) = TxAt(blocks, q) /\ p[2] - 1 = q[2] - 1
  BY DEF IdAt, TxAt
<1>3. p[1] = q[1]
  BY <1>1, <1>2 DEF IsChain, Sound
<1> QED BY <1>1, <1>2, <1>3, BlockAssumption DEF Logged

(***************************************************************************)
(* Where two chains agree on a block, so do their events and entities.     *)
(***************************************************************************)
LEMMA SameBlock ==
    ASSUME NEW these, NEW those, NEW p, p[1] \in 1..Len(these), p[1] \in 1..Len(those),
           these[p[1]] = those[p[1]]
    PROVE  /\ p \in Emitted(these) <=> p \in Emitted(those)
           /\ IdAt(these, p) = IdAt(those, p)
           /\ Entity(these, p[1], p[2]) = Entity(those, p[1], p[2])
BY DEF Emitted, Logged, IdAt, Entity, Id, Sequence

(***************************************************************************)
(* What an entity says of its event.                                       *)
(***************************************************************************)
LEMMA EntityFields ==
    ASSUME NEW blocks, NEW p
    PROVE  LET e == Entity(blocks, p[1], p[2]) IN
           /\ e.id = IdAt(blocks, p) /\ e.blockNumber = p[1]
           /\ e.blockHash = blocks[p[1]].hash
           /\ e.sequence = p[1] * LogsPerBlock + (p[2] - 1) /\ e.data[2] = p[2]
BY DEF Entity, IdAt, Id, Sequence

-----------------------------------------------------------------------------
(* The chain. *)

LEMMA InitInv == Init => Inv
<1> SUFFICES ASSUME Init PROVE Inv
  OBVIOUS
<1>1. chain = <<>> /\ indexed = <<>> /\ entities = <<>> /\ mined = 0
  BY DEF Init
<1>2. Logged(<<>>) = {} /\ <<>> \in Seq(Block) /\ Len(<<>>) = 0
  BY DEF Logged
<1>3. IsChain(<<>>) /\ HashesGiven(<<>>, 0) /\ Emitted(<<>>) = {}
  BY <1>2 DEF IsChain, HashesGiven, Sound, Emitted
<1>4. DOMAIN entities = {}
  BY <1>1
<1> QED BY <1>1, <1>3, <1>4 DEF Inv, EntitiesRight

(***************************************************************************)
(* A block is mined with a hash of its own.                                *)
(***************************************************************************)
LEMMA MineKeeps ==
    ASSUME Inv, NEW n \in 0..LogsPerBlock, NEW logs \in [1..n -> Log], Mine(logs)
    PROVE  Inv'
<1> DEFINE block == [hash |-> mined + 1, logs |-> logs]
<1>1. /\ mined \in Nat /\ mined' = mined + 1 /\ indexed' = indexed /\ entities' = entities
      /\ chain \in Seq(Block) /\ indexed \in Seq(Block) /\ Sound(chain)'
  BY DEF Inv, Mine, IsChain
<1>2. logs \in Seq(Log) /\ Len(logs) <= LogsPerBlock
  BY BlockAssumption
<1>3. block \in Block /\ block.hash = mined + 1 /\ Len(block.logs) <= LogsPerBlock
  BY <1>1, <1>2 DEF Block
<1>4. chain' = Append(chain, block)
  BY DEF Mine
<1> HIDE DEF block
<1>5. /\ chain' \in Seq(Block) /\ Len(chain) \in Nat /\ Len(chain') = Len(chain) + 1
      /\ \A b \in 1..Len(chain) : chain'[b] = chain[b]
      /\ chain'[Len(chain) + 1] = block
  BY <1>1, <1>3, <1>4
<1>6. /\ \A b \in 1..Len(chain) : chain[b].hash \in Nat /\ chain[b].hash <= mined
      /\ \A b \in 1..Len(indexed) : indexed[b].hash \in Nat /\ indexed[b].hash <= mined
  <2>1. /\ \A b \in 1..Len(chain) : chain[b] \in Block
        /\ \A b \in 1..Len(indexed) : indexed[b] \in Block
    BY <1>1
  <2> QED BY <2>1 DEF Inv, HashesGiven, Block
<1>7. HashesGiven(chain', mined') /\ HashesGiven(indexed', mined')
  <2>1. \A b \in 1..Len(indexed) : indexed[b].hash <= mined + 1
    BY <1>1, <1>6
  <2>2. \A b \in 1..Len(chain) + 1 : chain'[b].hash <= mined + 1
    <3> SUFFICES ASSUME NEW b \in 1..Len(chain) + 1 PROVE chain'[b].hash <= mined + 1
      OBVIOUS
    <3>1. CASE b \in 1..Len(chain)
      <4>1. chain'[b] = chain[b] /\ chain[b].hash \in Nat /\ chain[b].hash <= mined
        BY <1>5, <1>6, <3>1
      <4> QED BY <1>1, <4>1
    <3>2. CASE b = Len(chain) + 1
      BY <1>1, <1>3, <1>5, <3>2
    <3> QED BY <1>5, <3>1, <3>2
  <2> QED BY <1>1, <1>5, <2>1, <2>2 DEF HashesGiven
<1>8. IsChain(chain')
  <2>1. \A b, c \in 1..Len(chain) : chain[b].hash = chain[c].hash => b = c
    BY DEF Inv, IsChain
  <2>2. \A b \in 1..Len(chain') : b \in 1..Len(chain) \/ b = Len(chain) + 1
    BY <1>5
  <2>3. ASSUME NEW b \in 1..Len(chain'), NEW c \in 1..Len(chain'),
               chain'[b].hash = chain'[c].hash
        PROVE  b = c
    <3>1. \A d \in 1..Len(chain) : chain'[d] = chain[d] /\ chain'[d].hash # mined + 1
      BY <1>1, <1>5, <1>6
    <3>2. chain'[Len(chain) + 1].hash = mined + 1
      BY <1>3, <1>5
    <3> QED BY <2>1, <2>2, <2>3, <3>1, <3>2
  <2>4. \A b \in 1..Len(chain') : Len(chain'[b].logs) <= LogsPerBlock
    BY <1>3, <1>5, <2>2 DEF Inv, IsChain
  <2> QED BY <1>1, <1>5, <2>3, <2>4 DEF IsChain
<1>9. EntitiesRight'
  BY <1>1 DEF Inv, EntitiesRight
<1> QED BY <1>1, <1>7, <1>8, <1>9 DEF Inv

LEMMA ReorganiseKeeps ==
    ASSUME Inv, NEW height \in 0..Len(chain) - 1, Reorganise(height)
    PROVE  Inv'
<1>1. Len(chain) \in Nat /\ height \in 0..Len(chain)
  BY DEF Inv, IsChain
<1>2. UNCHANGED <<indexed, entities, mined>> /\ chain' = SubSeq(chain, 1, height)
  BY DEF Reorganise
<1>3. /\ IsChain(chain') /\ Len(chain') = height
      /\ \A b \in 1..height : chain'[b] = chain[b]
  BY <1>1, <1>2, PrefixIsChain DEF Inv
<1>4. HashesGiven(chain', mined')
  BY <1>1, <1>2, <1>3 DEF Inv, HashesGiven
<1>5. EntitiesRight'
  BY <1>2 DEF Inv, EntitiesRight
<1> QED BY <1>2, <1>3, <1>4, <1>5 DEF Inv

-----------------------------------------------------------------------------
(* graph-node and the handler. *)

(***************************************************************************)
(* The entities of a new block are added, and no other is touched.         *)
(***************************************************************************)
LEMMA IndexKeeps == Inv /\ IndexBlock => Inv'
<1> SUFFICES ASSUME Inv, IndexBlock PROVE Inv'
  OBVIOUS
<1> DEFINE n == Len(indexed)
           new == {e \in Saved(indexed') : e.blockNumber = Len(indexed')}
<1>1. /\ indexed \in Seq(Block) /\ chain \in Seq(Block) /\ n \in Nat /\ Len(chain) \in Nat
      /\ n < Len(chain)
      /\ \A b \in 1..n : indexed[b] = chain[b]
  <2>1. indexed \in Seq(Block) /\ chain \in Seq(Block)
    BY DEF Inv, IsChain
  <2>2. n <= Len(chain) /\ SubSeq(indexed, 1, n) = SubSeq(chain, 1, n) /\ indexed # chain
    BY DEF IndexBlock, IsPrefix
  <2>3. \A b \in 1..n : indexed[b] = chain[b]
    <3> SUFFICES ASSUME NEW b \in 1..n PROVE indexed[b] = chain[b]
      OBVIOUS
    <3>1. SubSeq(indexed, 1, n)[b] = indexed[b] /\ SubSeq(chain, 1, n)[b] = chain[b]
      BY <2>1, <2>2
    <3> QED BY <2>2, <3>1
  <2>4. ASSUME n = Len(chain) PROVE FALSE
    BY <2>1, <2>2, <2>3, <2>4
  <2> QED BY <2>1, <2>2, <2>3, <2>4
<1>2. /\ IsChain(indexed') /\ HashesGiven(indexed', mined) /\ Len(indexed') = n + 1
      /\ \A b \in 1..n : indexed'[b] = indexed[b]
  <2>1. indexed' = SubSeq(chain, 1, n + 1) /\ n + 1 \in 0..Len(chain)
    BY <1>1 DEF IndexBlock
  <2>2. /\ IsChain(indexed') /\ Len(indexed') = n + 1
        /\ \A b \in 1..n + 1 : indexed'[b] = chain[b]
    BY <2>1, PrefixIsChain DEF Inv
  <2>3. HashesGiven(indexed', mined)
    BY <1>1, <2>2 DEF Inv, HashesGiven
  <2> QED BY <1>1, <2>2, <2>3
<1>3. entities' = [id \in DOMAIN entities \cup {e.id : e \in new} |->
                      IF \E e \in new : e.id = id
                      THEN CHOOSE e \in new : e.id = id ELSE entities[id]]
  BY DEF IndexBlock
<1> DEFINE InBlock(p) == p \in Emitted(indexed') /\ p[1] = n + 1
<1>4. /\ \A p : InBlock(p) => Entity(indexed', p[1], p[2]) \in new
      /\ \A e \in new : \E p : InBlock(p) /\ e = Entity(indexed', p[1], p[2])
  <2>1. Saved(indexed') = {Entity(indexed', p[1], p[2]) : p \in Emitted(indexed')}
    BY DEF Saved, Emitted
  <2>2. \A p : Entity(indexed', p[1], p[2]).blockNumber = p[1]
    BY EntityFields
  <2> QED BY <1>2, <2>1, <2>2
<1>5. \A p : p \in Emitted(indexed') /\ p[1] # n + 1 <=> p \in Emitted(indexed)
  <2>1. \A p \in Emitted(indexed') : p[1] \in 1..n + 1
    BY <1>2 DEF Emitted, Logged
  <2>2. \A p \in Emitted(indexed) : p[1] \in 1..n
    BY DEF Emitted, Logged
  <2>3. ASSUME NEW p, p[1] \in 1..n PROVE p \in Emitted(indexed') <=> p \in Emitted(indexed)
    <3>1. p[1] \in 1..Len(indexed') /\ indexed'[p[1]] = indexed[p[1]]
      BY <1>1, <1>2, <2>3
    <3> QED BY <2>3, <3>1, SameBlock
  <2> QED BY <1>1, <2>1, <2>2, <2>3
<1>6. \A p \in Emitted(indexed) :
         /\ IdAt(indexed', p) = IdAt(indexed, p)
         /\ Entity(indexed', p[1], p[2]) = Entity(indexed, p[1], p[2])
  <2> SUFFICES ASSUME NEW p \in Emitted(indexed)
               PROVE  /\ IdAt(indexed', p) = IdAt(indexed, p)
                      /\ Entity(indexed', p[1], p[2]) = Entity(indexed, p[1], p[2])
    OBVIOUS
  <2>1. p[1] \in 1..n
    BY DEF Emitted, Logged
  <2>2. p[1] \in 1..Len(indexed') /\ indexed'[p[1]] = indexed[p[1]]
    BY <1>1, <1>2, <2>1
  <2> QED BY <2>1, <2>2, SameBlock
<1> HIDE DEF new
<1>7. \A p : InBlock(p) => /\ IdAt(indexed', p) \in DOMAIN entities'
                        /\ entities'[IdAt(indexed', p)] = Entity(indexed', p[1], p[2])
  <2> SUFFICES ASSUME NEW p, InBlock(p)
               PROVE  /\ IdAt(indexed', p) \in DOMAIN entities'
                      /\ entities'[IdAt(indexed', p)] = Entity(indexed', p[1], p[2])
    OBVIOUS
  <2> DEFINE id == IdAt(indexed', p)
             saved == Entity(indexed', p[1], p[2])
  <2>1. saved \in new /\ saved.id = id
    BY <1>4, EntityFields
  <2>2. \A e \in new : e.id = id => e = saved
    <3> SUFFICES ASSUME NEW e \in new, e.id = id PROVE e = saved
      OBVIOUS
    <3>1. PICK q : InBlock(q) /\ e = Entity(indexed', q[1], q[2])
      BY <1>4
    <3>2. IdAt(indexed', q) = id
      BY <3>1, EntityFields
    <3>3. q = p
      BY <1>2, <3>1, <3>2, IdsAreUnique
    <3> QED BY <3>1, <3>3
  <2> HIDE DEF id, saved
  <2>3. (CHOOSE e \in new : e.id = id) = saved
    BY <2>1, <2>2
  <2>4. id \in DOMAIN entities' /\ entities'[id] = saved
    BY <1>3, <2>1, <2>3
  <2> QED BY <2>4 DEF id, saved
<1>8. \A p \in Emitted(indexed) :
         /\ IdAt(indexed', p) \in DOMAIN entities'
         /\ entities'[IdAt(indexed', p)] = Entity(indexed', p[1], p[2])
  <2> SUFFICES ASSUME NEW p \in Emitted(indexed)
               PROVE  /\ IdAt(indexed', p) \in DOMAIN entities'
                      /\ entities'[IdAt(indexed', p)] = Entity(indexed', p[1], p[2])
    OBVIOUS
  <2> DEFINE id == IdAt(indexed', p)
  <2>1. id \in DOMAIN entities /\ entities[id] = Entity(indexed', p[1], p[2])
    BY <1>6 DEF Inv, EntitiesRight
  <2>2. ~\E e \in new : e.id = id
    <3> SUFFICES ASSUME NEW e \in new, e.id = id PROVE FALSE
      OBVIOUS
    <3>1. PICK q : InBlock(q) /\ e = Entity(indexed', q[1], q[2])
      BY <1>4
    <3>2. IdAt(indexed', q) = id
      BY <3>1, EntityFields
    <3>3. q = p
      BY <1>2, <1>5, <3>1, <3>2, IdsAreUnique
    <3> QED BY <1>5, <3>1, <3>3
  <2> HIDE DEF id
  <2>3. id \in DOMAIN entities' /\ entities'[id] = entities[id]
    BY <1>3, <2>1, <2>2
  <2> QED BY <2>1, <2>3 DEF id
<1>9. \A id \in DOMAIN entities' : \E p \in Emitted(indexed') : id = IdAt(indexed', p)
  <2> SUFFICES ASSUME NEW id \in DOMAIN entities'
               PROVE  \E p \in Emitted(indexed') : id = IdAt(indexed', p)
    OBVIOUS
  <2>1. CASE id \in DOMAIN entities
    BY <1>5, <1>6, <2>1 DEF Inv, EntitiesRight
  <2>2. CASE \E e \in new : id = e.id
    <3>1. PICK p : InBlock(p) /\ id = Entity(indexed', p[1], p[2]).id
      BY <1>4, <2>2
    <3> QED BY <3>1, EntityFields
  <2> QED BY <1>3, <2>1, <2>2
<1>10. EntitiesRight'
  <2>1. \A p \in Emitted(indexed') :
           /\ IdAt(indexed', p) \in DOMAIN entities'
           /\ entities'[IdAt(indexed', p)] = Entity(indexed', p[1], p[2])
    BY <1>5, <1>7, <1>8
  <2>2. DOMAIN entities' = {IdAt(indexed', p) : p \in Emitted(indexed')}
    BY <1>9, <2>1
  <2> QED BY <2>1, <2>2 DEF EntitiesRight
<1>11. UNCHANGED <<chain, mined>>
  BY DEF IndexBlock
<1> QED BY <1>2, <1>10, <1>11 DEF Inv

(***************************************************************************)
(* A block is taken back with its entities: its hash is no other block's.  *)
(***************************************************************************)
LEMMA RevertKeeps == Inv /\ RevertBlock => Inv'
<1> SUFFICES ASSUME Inv, RevertBlock PROVE Inv'
  OBVIOUS
<1> DEFINE n == Len(indexed) - 1
           gone == indexed[Len(indexed)].hash
<1>1. /\ indexed \in Seq(Block) /\ chain \in Seq(Block) /\ Len(indexed) \in Nat
      /\ Len(chain) \in Nat /\ IsChain(indexed)
  BY DEF Inv, IsChain
<1>2. n \in 0..Len(indexed) /\ n + 1 = Len(indexed)
  <2>1. Len(indexed) # 0
    <3> SUFFICES ASSUME Len(indexed) = 0 PROVE FALSE
      OBVIOUS
    <3>1. SubSeq(indexed, 1, 0) = <<>> /\ SubSeq(chain, 1, 0) = <<>>
      BY <1>1
    <3> QED BY <1>1, <3>1 DEF RevertBlock, IsPrefix
  <2> QED BY <1>1, <2>1
<1>3. /\ IsChain(indexed') /\ Len(indexed') = n
      /\ \A b \in 1..n : indexed'[b] = indexed[b]
  <2>1. indexed' = SubSeq(indexed, 1, n)
    BY DEF RevertBlock, Front
  <2> QED BY <1>1, <1>2, <2>1, PrefixIsChain
<1>4. HashesGiven(indexed', mined)
  BY <1>2, <1>3 DEF Inv, HashesGiven
<1>5. /\ DOMAIN entities' = {i \in DOMAIN entities : entities[i].blockHash # gone}
      /\ \A i \in DOMAIN entities' : entities'[i] = entities[i]
  BY DEF RevertBlock, Last
<1>6. \A p \in Emitted(indexed) :
         /\ p[1] \in 1..n + 1
         /\ entities[IdAt(indexed, p)].blockHash # gone <=> p[1] # n + 1
  <2> SUFFICES ASSUME NEW p \in Emitted(indexed)
               PROVE  /\ p[1] \in 1..n + 1
                      /\ entities[IdAt(indexed, p)].blockHash # gone <=> p[1] # n + 1
    OBVIOUS
  <2>1. p[1] \in 1..n + 1
    BY <1>2 DEF Emitted, Logged
  <2>2. entities[IdAt(indexed, p)].blockHash = indexed[p[1]].hash
    BY EntityFields DEF Inv, EntitiesRight
  <2>3. indexed[p[1]].hash = indexed[n + 1].hash => p[1] = n + 1
    BY <1>1, <1>2, <2>1 DEF IsChain
  <2> QED BY <1>2, <2>1, <2>2, <2>3
<1>7. \A p : p \in Emitted(indexed') <=> p \in Emitted(indexed) /\ p[1] # n + 1
  <2>1. ASSUME NEW p, p[1] \in 1..n PROVE p \in Emitted(indexed') <=> p \in Emitted(indexed)
    <3>1. p[1] \in 1..Len(indexed) /\ indexed'[p[1]] = indexed[p[1]]
      BY <1>2, <1>3, <2>1
    <3> QED BY <1>3, <2>1, <3>1, SameBlock
  <2>2. \A p \in Emitted(indexed') : p[1] \in 1..n
    BY <1>3 DEF Emitted, Logged
  <2> QED BY <1>2, <1>6, <2>1, <2>2
<1>8. \A p \in Emitted(indexed') :
         /\ IdAt(indexed', p) = IdAt(indexed, p)
         /\ Entity(indexed', p[1], p[2]) = Entity(indexed, p[1], p[2])
  <2> SUFFICES ASSUME NEW p \in Emitted(indexed')
               PROVE  /\ IdAt(indexed', p) = IdAt(indexed, p)
                      /\ Entity(indexed', p[1], p[2]) = Entity(indexed, p[1], p[2])
    OBVIOUS
  <2>1. p[1] \in 1..n
    BY <1>3 DEF Emitted, Logged
  <2>2. p[1] \in 1..Len(indexed) /\ indexed'[p[1]] = indexed[p[1]]
    BY <1>2, <1>3, <2>1
  <2> QED BY <1>3, <2>1, <2>2, SameBlock
<1> HIDE DEF gone
<1>9. EntitiesRight'
  <2>1. \A p \in Emitted(indexed') :
           /\ IdAt(indexed', p) \in DOMAIN entities'
           /\ entities'[IdAt(indexed', p)] = Entity(indexed', p[1], p[2])
    BY <1>5, <1>6, <1>7, <1>8 DEF Inv, EntitiesRight
  <2>2. \A i \in DOMAIN entities' : \E p \in Emitted(indexed') : i = IdAt(indexed', p)
    BY <1>5, <1>6, <1>7, <1>8 DEF Inv, EntitiesRight
  <2>3. DOMAIN entities' = {IdAt(indexed', p) : p \in Emitted(indexed')}
    BY <2>1, <2>2
  <2> QED BY <2>1, <2>3 DEF EntitiesRight
<1>10. UNCHANGED <<chain, mined>>
  BY DEF RevertBlock
<1> QED BY <1>3, <1>4, <1>9, <1>10 DEF Inv

LEMMA NextInv == Inv /\ [Next]_vars => Inv'
<1> SUFFICES ASSUME Inv, [Next]_vars PROVE Inv'
  OBVIOUS
<1>1. CASE UNCHANGED vars
  BY <1>1 DEF vars, Inv, EntitiesRight
<1>2. CASE \E n \in 0..LogsPerBlock : \E logs \in [1..n -> Log] : Mine(logs)
  BY <1>2, MineKeeps
<1>3. CASE \E height \in 0..Len(chain) - 1 : Reorganise(height)
  BY <1>3, ReorganiseKeeps
<1>4. CASE IndexBlock \/ RevertBlock
  BY <1>4, IndexKeeps, RevertKeeps
<1> QED BY <1>1, <1>2, <1>3, <1>4 DEF Next

-----------------------------------------------------------------------------
(* The properties. *)

(***************************************************************************)
(* The events of the property are the ones the handler was called for.     *)
(***************************************************************************)
LEMMA EventsAreEmitted == Inv => Events = Emitted(indexed)
<1> SUFFICES ASSUME Inv PROVE Events = Emitted(indexed)
  OBVIOUS
<1>1. indexed \in Seq(Block) /\ DOMAIN indexed = 1..Len(indexed) /\ LogsPerBlock \in Nat
  BY BlockAssumption DEF Inv, IsChain
<1>2. \A b \in 1..Len(indexed) :
         /\ DOMAIN indexed[b].logs = 1..Len(indexed[b].logs)
         /\ Len(indexed[b].logs) \in Nat /\ Len(indexed[b].logs) <= LogsPerBlock
  <2>1. \A b \in 1..Len(indexed) : indexed[b] \in Block
    BY <1>1
  <2> QED BY <2>1 DEF Inv, IsChain, Block
<1>3. ASSUME NEW p \in Events PROVE p \in Emitted(indexed)
  <2>1. PICK b \in 1..Len(indexed) : \E i \in Withdrawals(indexed[b]) : p = <<b, i>>
    BY <1>1 DEF Events
  <2>2. PICK i \in Withdrawals(indexed[b]) : p = <<b, i>>
    BY <2>1
  <2>3. i \in 1..LogsPerBlock /\ i <= Len(indexed[b].logs)
    BY <1>1, <1>2, <2>2 DEF Withdrawals
  <2> QED BY <2>2, <2>3 DEF Emitted, Logged
<1>4. ASSUME NEW p \in Emitted(indexed) PROVE p \in Events
  <2>1. p = <<p[1], p[2]>> /\ p[1] \in 1..Len(indexed) /\ p[2] \in Withdrawals(indexed[p[1]])
    BY DEF Emitted, Logged
  <2> QED BY <1>1, <2>1 DEF Events
<1> QED BY <1>3, <1>4

(***************************************************************************)
(* demo-vault.ts, handleWithdrawal (ES-FR-003): whatever is mined, taken   *)
(* back and mined elsewhere, the entities are the Withdrawal events of the *)
(* indexed blocks, one for each.                                           *)
(***************************************************************************)
THEOREM OneEntityPerEvent == Spec => []EntitiesMirrorChain
<1>1. Inv => EntitiesMirrorChain
  <2> SUFFICES ASSUME Inv PROVE EntitiesMirrorChain
    OBVIOUS
  <2>1. Saved(indexed) = {Entity(indexed, p[1], p[2]) : p \in Emitted(indexed)}
    BY DEF Saved, Emitted
  <2>2. {entities[id] : id \in DOMAIN entities} = Saved(indexed)
    BY <2>1 DEF Inv, EntitiesRight
  <2> DEFINE f == [p \in Emitted(indexed) |-> IdAt(indexed, p)]
  <2>3. f \in Bijection(Emitted(indexed), DOMAIN entities)
    <3>1. f \in [Emitted(indexed) -> DOMAIN entities]
      BY DEF Inv, EntitiesRight
    <3>2. \A p, q \in Emitted(indexed) : f[p] = f[q] => p = q
      BY IdsAreUnique DEF Inv
    <3>3. \A id \in DOMAIN entities : \E p \in Emitted(indexed) : f[p] = id
      BY DEF Inv, EntitiesRight
    <3> HIDE DEF f
    <3> QED BY <3>1, <3>2, <3>3 DEF Bijection, Injection, Surjection, IsInjective
  <2>4. IsFiniteSet(Emitted(indexed))
    <3>1. Len(indexed) \in Nat /\ LogsPerBlock \in Nat
      BY BlockAssumption DEF Inv, IsChain
    <3>2. IsFiniteSet((1..Len(indexed)) \X (1..LogsPerBlock))
      <4>1. IsFiniteSet(1..Len(indexed)) /\ IsFiniteSet(1..LogsPerBlock)
        BY <3>1, FS_Interval
      <4> QED BY <4>1, FS_Product
    <3>3. Emitted(indexed) \subseteq (1..Len(indexed)) \X (1..LogsPerBlock)
      BY DEF Emitted, Logged
    <3> QED BY <3>2, <3>3, FS_Subset
  <2>5. Cardinality(DOMAIN entities) = Cardinality(Emitted(indexed))
    BY <2>3, <2>4, FS_Bijection DEF ExistsBijection
  <2> QED BY <2>2, <2>5, EventsAreEmitted DEF EntitiesMirrorChain
<1> QED BY <1>1, InitInv, NextInv, PTL DEF Spec

(***************************************************************************)
(* With fewer than LogsPerBlock logs before it in its block, a position is *)
(* below every position of a later block.                                  *)
(***************************************************************************)
LEMMA Stride ==
    ASSUME NEW b \in Nat, NEW c \in Nat, b < c, NEW n \in Nat
    PROVE  b * n + n <= c * n
<1>1. c = b + 1 + (c - b - 1) /\ c - b - 1 \in Nat
  OBVIOUS
<1>2. \A k \in Nat : k * n \in Nat /\ (b + 1 + k) * n = b * n + n + k * n
  OBVIOUS
<1>3. b * n \in Nat /\ (c - b - 1) * n \in Nat
  BY <1>1, <1>2
<1>4. c * n = b * n + n + (c - b - 1) * n
  BY <1>1, <1>2
<1> QED BY <1>3, <1>4

(***************************************************************************)
(* schema.graphql, LOGS_PER_BLOCK of demo-vault.ts: entities sort by       *)
(* sequence as their events lie on the chain, for every stride that no     *)
(* block outgrows.                                                         *)
(***************************************************************************)
THEOREM EntitiesSort == Spec => []SequenceIsPosition
<1>1. Inv => SequenceIsPosition
  <2> SUFFICES ASSUME Inv, NEW d \in Saved(indexed), NEW e \in Saved(indexed)
               PROVE  d.sequence < e.sequence
                         <=> \/ d.blockNumber < e.blockNumber
                             \/ d.blockNumber = e.blockNumber /\ d.data[2] < e.data[2]
    BY DEF SequenceIsPosition
  <2>1. PICK p \in Emitted(indexed) : d = Entity(indexed, p[1], p[2])
    BY DEF Saved, Emitted
  <2>2. PICK q \in Emitted(indexed) : e = Entity(indexed, q[1], q[2])
    BY DEF Saved, Emitted
  <2>3. /\ p[1] \in Nat /\ q[1] \in Nat /\ p[2] \in 1..LogsPerBlock
        /\ q[2] \in 1..LogsPerBlock /\ LogsPerBlock \in Nat
    BY BlockAssumption DEF Emitted, Logged
  <2>4. /\ d.blockNumber = p[1] /\ d.data[2] = p[2]
        /\ d.sequence = p[1] * LogsPerBlock + (p[2] - 1)
        /\ e.blockNumber = q[1] /\ e.data[2] = q[2]
        /\ e.sequence = q[1] * LogsPerBlock + (q[2] - 1)
    BY <2>1, <2>2, EntityFields
  <2>5. p[1] * LogsPerBlock \in Nat /\ q[1] * LogsPerBlock \in Nat
    BY <2>3
  <2>6. CASE p[1] = q[1]
    BY <2>3, <2>4, <2>5, <2>6
  <2>7. CASE p[1] < q[1]
    <3>1. p[1] * LogsPerBlock + LogsPerBlock <= q[1] * LogsPerBlock
      BY <2>3, <2>7, Stride
    <3> QED BY <2>3, <2>4, <2>5, <2>7, <3>1
  <2>8. CASE q[1] < p[1]
    <3>1. q[1] * LogsPerBlock + LogsPerBlock <= p[1] * LogsPerBlock
      BY <2>3, <2>8, Stride
    <3> QED BY <2>3, <2>4, <2>5, <2>8, <3>1
  <2> QED BY <2>3, <2>6, <2>7, <2>8
<1> QED BY <1>1, InitInv, NextInv, PTL DEF Spec

=============================================================================
