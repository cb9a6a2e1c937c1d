------------------------- MODULE MCJournalRequests -------------------------
(***************************************************************************)
(* Two requests beside each other, in two instances side by side: with a   *)
(* worker that may die, as in production (SplitwiseJournal itself, with    *)
(* the constants of the cfg), and outside it, where nothing is queued and  *)
(* the requests call the provider themselves (Synchronous).                *)
(***************************************************************************)
EXTENDS SplitwiseJournal, TLC

CONSTANTS r1, r2, i1, i2

VARIABLE production

Synchronous == INSTANCE SplitwiseJournal WITH
  Requests <- {r1, r2}, Workers <- Workers, Ids <- {i1, i2}, MaxGen <- 1, Amounts <- {10, 20},
  Kinds <- {"post", "undo", "remove", "amend", "retry"},
  MaxRequests <- 4, MaxTries <- 2, MaxCrashes <- 1, MaxOverruns <- 0, Production <- FALSE,
  LateErrors <- TRUE

EitherInit == \/ production = TRUE /\ Init
              \/ production = FALSE /\ Synchronous!Init

EitherNext == \/ production = TRUE /\ Next /\ UNCHANGED production
              \/ production = FALSE /\ Synchronous!Next /\ UNCHANGED production

EitherSpec == EitherInit /\ [][EitherNext]_<<vars, production>>

RequestSymmetry == Permutations(Requests)
=============================================================================
