------------------------------ MODULE MCOutbox ------------------------------
\* Small instances of Outbox for TLC.  Workers are interchangeable.
EXTENDS Outbox, TLC

WorkerSymmetry == Permutations(Workers)
=============================================================================
