---------------------------- MODULE MCReceipts ----------------------------
EXTENDS Receipts, TLC

Symmetry == Permutations(Deliveries) \cup Permutations(Workers) \cup Permutations(Users)
            \cup Permutations(Items)
=============================================================================
