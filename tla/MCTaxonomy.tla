----------------------------- MODULE MCTaxonomy -----------------------------
EXTENDS Taxonomy, TLC

Alike == Permutations(Names) \cup Permutations(Subs) \cup Permutations(Txs)
           \cup Permutations(Procs)
=============================================================================
