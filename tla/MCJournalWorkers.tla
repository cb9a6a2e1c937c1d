-------------------------- MODULE MCJournalWorkers --------------------------
(***************************************************************************)
(* One request at a time against the outbox workers, in two instances side *)
(* by side: workers that live, through three generations of posting and    *)
(* undoing (SplitwiseJournal itself, with the constants of the cfg), and   *)
(* one worker that may die at any step (Dying).  A behaviour is of one of  *)
(* them; the other stays as it begins.                                     *)
(***************************************************************************)
EXTENDS SplitwiseJournal

CONSTANTS w1, i1, i2

VARIABLES dying, hisTx, hisOp, hisLatest, hisEvent, hisExpense, hisProc, hisBudget

his == <<hisTx, hisOp, hisLatest, hisEvent, hisExpense, hisProc, hisBudget>>

Dying == INSTANCE SplitwiseJournal WITH
  Workers <- {w1}, Ids <- {i1, i2}, MaxGen <- 1, Kinds <- {"post", "undo", "remove"},
  MaxRequests <- 3, MaxCrashes <- 1,
  tx <- hisTx, op <- hisOp, latest <- hisLatest, event <- hisEvent, expense <- hisExpense,
  proc <- hisProc, budget <- hisBudget

EitherInit == dying \in BOOLEAN /\ Init /\ Dying!Init

EitherNext == \/ dying = FALSE /\ Next /\ UNCHANGED <<dying, his>>
              \/ dying = TRUE /\ Dying!Next /\ UNCHANGED <<dying, vars>>

\* Fairness for the instance whose liveness is asked about.
EitherSpec == EitherInit /\ [][EitherNext]_<<dying, vars, his>> /\ (dying = TRUE => Dying!Fairness)

\* What was queued for the worker ends succeeded, failed for good, or among the
\* dead letters, wherever the worker dies (_queue_splitwise_operation, run_once).
SettledThoughDying == dying = TRUE => Dying!QueuedIsSettled
=============================================================================
