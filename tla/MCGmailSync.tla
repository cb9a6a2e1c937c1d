---------------------------- MODULE MCGmailSync ----------------------------
EXTENDS GmailSync, TLC

JobSymmetry == Permutations(Jobs)
=============================================================================
