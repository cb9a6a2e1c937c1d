---------------------------- MODULE MCPlaidSync ----------------------------
EXTENDS PlaidSync, TLC

CONSTANTS t1, t2

AllAlike == {{t1, t2}}

TxSymmetry == Permutations(Txs)
=============================================================================
