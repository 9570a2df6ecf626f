----------------------------- MODULE MCContracts -----------------------------
EXTENDS DemoVault, TLC

RefSymmetry == Permutations(Refs \ {ZeroHash})

=============================================================================
