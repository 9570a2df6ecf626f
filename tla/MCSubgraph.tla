----------------------------- MODULE MCSubgraph -----------------------------
EXTENDS Subgraph, TLC

TxSymmetry == Permutations(Txs)

=============================================================================
