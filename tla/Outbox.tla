------------------------------- MODULE Outbox -------------------------------
(***************************************************************************)
(* The transactional outbox: app/services/outbox_service.py (the rows) and *)
(* app/jobs/outbox.py (the workers that drain them).                       *)
(*                                                                         *)
(* An event row is inserted once per dedupe key.  A worker claims rows one *)
(* commit at a time under a fresh lease token, collects up to MaxEvents of *)
(* them, and only then handles them one after the other; the lease is never*)
(* renewed, so it can run out before the worker reaches the event.         *)
(* complete/fail select the row by the worker's own token, which is what   *)
(* keeps a worker that lost its lease from settling somebody else's claim. *)
(* That select takes no lock: between it and the commit of the update the  *)
(* row may still be claimed, once its lease has run out (LateWrites).      *)
(*                                                                         *)
(* Time is two flags per row: due (available_at <= now) and leaseLive      *)
(* (lease_expires_at > now).  attempt_count is compared only with          *)
(* max_attempts, so it saturates there.                                    *)
(***************************************************************************)
EXTENDS Integers, Sequences

CONSTANTS
  Events,       \* dedupe keys, one row each
  Workers,      \* worker processes running run_once in a loop
  Tokens,       \* the strings secrets.token_hex can draw
  NoToken,      \* lease_token IS NULL
  Scrubbed,     \* the events of type telegram.process_update
  MaxEvents,    \* max_events of run_once
  MaxAttempts,  \* max_attempts of fail_outbox_event
  MaxFaults,    \* bound: worker crashes plus leases outrun by a live worker
  LateWrites    \* a row may be claimed between _leased_event and the commit

ASSUME OutboxConstants ==
  /\ NoToken \notin Tokens
  /\ Scrubbed \subseteq Events
  /\ MaxEvents \in Nat \ {0}
  /\ MaxAttempts \in Nat \ {0}
  /\ MaxFaults \in Nat
  /\ LateWrites \in BOOLEAN

VARIABLES
  state,      \* OutboxEvent.state, or "absent" before the row is inserted
  token,      \* OutboxEvent.lease_token
  attempts,   \* OutboxEvent.attempt_count, saturating at MaxAttempts
  due,        \* available_at <= now
  leaseLive,  \* lease_expires_at is set and in the future
  payload,    \* payload_json still holds what was enqueued
  pc,         \* where a worker is in run_once
  batch,      \* the ClaimedEvent list of a worker, its head being handled
  faults,     \* faults so far
  handled     \* history: a handler returned since the row was last queued

rowVars == <<state, token, attempts, due, leaseLive, payload>>
outboxVars == <<rowVars, pc, batch, faults, handled>>

Open == {"pending", "retry", "in_flight"}
Settled == {"succeeded", "dead"}
States == {"absent"} \cup Open \cup Settled
Claims == [event : Events, token : Tokens]
Writing == {"completing", "retrying", "burying"}
Positions == {"claim", "handle", "complete", "fail"} \cup Writing

Head1(w) == batch[w][1]

\* Mutant: any in-flight row may be settled, whoever leases it.
LeasedByState(w) == state[Head1(w).event] = "in_flight"

\* Mutant: the row is settled by its id alone.
LeasedById(w) == TRUE

\* _leased_event: the row is still leased under the worker's own token.
Leased(w) == /\ state[Head1(w).event] = "in_flight"
             /\ token[Head1(w).event] = Head1(w).token

\* Mutant: the lease is forgotten in the WHERE clause.
ReadyThoughLeased(e) == state[e] \in Open /\ due[e]

\* Mutant: rows in flight are left to the worker that claimed them.
ReadyUnlessInFlight(e) == state[e] \in {"pending", "retry"} /\ due[e] /\ ~leaseLive[e]

\* The WHERE clause of claim_outbox_batch.
Ready(e) == state[e] \in Open /\ due[e] /\ ~leaseLive[e]

\* attempt_count >= max_attempts.
Exhausted(e) == attempts[e] >= MaxAttempts

\* The rows replay_dead_outbox_events selects from.
Replayable == {e \in Events : state[e] = "dead"}

\* Tokens that no row and no worker remembers.
FreshTokens == {t \in Tokens : /\ \A e \in Events : token[e] # t
                               /\ \A w \in Workers : \A i \in 1..Len(batch[w]) :
                                    batch[w][i].token # t}

-----------------------------------------------------------------------------
OBInit ==
  /\ state = [e \in Events |-> "absent"]
  /\ token = [e \in Events |-> NoToken]
  /\ attempts = [e \in Events |-> 0]
  /\ due = [e \in Events |-> TRUE]
  /\ leaseLive = [e \in Events |-> FALSE]
  /\ payload = [e \in Events |-> TRUE]
  /\ pc = [w \in Workers |-> "claim"]
  /\ batch = [w \in Workers |-> <<>>]
  /\ faults = 0
  /\ handled = [e \in Events |-> FALSE]

\* enqueue_outbox_event inserts the row; for a dedupe key that already has a
\* row it returns that row as it is, in whatever state, which is a stutter.
Enqueue(e) ==
  /\ state[e] = "absent"
  /\ state' = [state EXCEPT ![e] = "pending"]
  /\ UNCHANGED <<token, attempts, due, leaseLive, payload, pc, batch, faults, handled>>

\* A worker has selected the row under its lease and not yet committed.
BeingWritten(e) ==
  \E w \in Workers : pc[w] \in Writing /\ Head1(w) = [event |-> e, token |-> token[e]]

\* One claim_outbox_batch(limit=1) of _claim_across_workspaces.
Claim(w, e) ==
  /\ pc[w] = "claim"
  /\ Len(batch[w]) < MaxEvents
  /\ Ready(e)
  /\ LateWrites \/ ~BeingWritten(e)
  /\ FreshTokens # {}
  /\ LET t == CHOOSE t \in FreshTokens : TRUE
     IN /\ token' = [token EXCEPT ![e] = t]
        /\ batch' = [batch EXCEPT ![w] = Append(@, [event |-> e, token |-> t])]
  /\ state' = [state EXCEPT ![e] = "in_flight"]
  /\ leaseLive' = [leaseLive EXCEPT ![e] = TRUE]
  /\ attempts' = [attempts EXCEPT ![e] = IF @ < MaxAttempts THEN @ + 1 ELSE @]
  /\ UNCHANGED <<due, payload, pc, faults, handled>>

\* The claiming loop ends: the batch is full or a round claimed nothing.
StopClaiming(w) ==
  /\ pc[w] = "claim"
  /\ batch[w] # <<>>
  /\ Len(batch[w]) = MaxEvents \/ \A e \in Events : ~Ready(e)
  /\ pc' = [pc EXCEPT ![w] = "handle"]
  /\ UNCHANGED <<rowVars, batch, faults, handled>>

\* _handle_event returns.  It looks neither at the row's state nor at its
\* lease; a scrubbed payload makes the handler raise instead.
HandlerReturns(w) ==
  /\ pc[w] = "handle"
  /\ payload[Head1(w).event]
  /\ pc' = [pc EXCEPT ![w] = "complete"]
  /\ handled' = [handled EXCEPT ![Head1(w).event] = TRUE]
  /\ UNCHANGED <<rowVars, batch, faults>>

\* _handle_event raises.
HandlerRaises(w) ==
  /\ pc[w] = "handle"
  /\ pc' = [pc EXCEPT ![w] = "fail"]
  /\ UNCHANGED <<rowVars, batch, faults, handled>>

\* The worker moves on to its next claimed event, or to the next run_once.
NextClaimed(w) ==
  /\ batch' = [batch EXCEPT ![w] = Tail(@)]
  /\ pc' = [pc EXCEPT ![w] = IF Len(batch[w]) > 1 THEN "handle" ELSE "claim"]

\* complete_outbox_event or fail_outbox_event finds the row under the worker's
\* lease, and fail_outbox_event decides by the attempts it reads.
FindLeased(w) ==
  /\ pc[w] \in {"complete", "fail"}
  /\ Leased(w)
  /\ pc' = [pc EXCEPT ![w] = IF pc[w] = "complete" THEN "completing"
                            ELSE IF Exhausted(Head1(w).event) THEN "burying"
                            ELSE "retrying"]
  /\ UNCHANGED <<rowVars, batch, faults, handled>>

\* complete_outbox_event writes the row it found, by primary key.
CompleteEvent(w) ==
  /\ pc[w] = "completing"
  /\ LET e == Head1(w).event
     IN /\ state' = [state EXCEPT ![e] = "succeeded"]
        /\ token' = [token EXCEPT ![e] = NoToken]
        /\ leaseLive' = [leaseLive EXCEPT ![e] = FALSE]
        /\ payload' = [payload EXCEPT ![e] = e \notin Scrubbed]
  /\ NextClaimed(w)
  /\ UNCHANGED <<attempts, due, faults, handled>>

\* fail_outbox_event writes the row it found: retry later, or dead.
FailEvent(w) ==
  /\ pc[w] \in {"retrying", "burying"}
  /\ LET e == Head1(w).event
     IN /\ state' = [state EXCEPT ![e] = IF pc[w] = "burying" THEN "dead" ELSE "retry"]
        /\ token' = [token EXCEPT ![e] = NoToken]
        /\ leaseLive' = [leaseLive EXCEPT ![e] = FALSE]
        /\ due' = [due EXCEPT ![e] = FALSE]
  /\ NextClaimed(w)
  /\ UNCHANGED <<attempts, payload, faults, handled>>

\* complete_outbox_event returned False, or fail_outbox_event "lease_lost".
LeaseLost(w) ==
  /\ pc[w] \in {"complete", "fail"}
  /\ ~Leased(w)
  /\ NextClaimed(w)
  /\ UNCHANGED <<rowVars, faults, handled>>

\* replay_dead_outbox_events: one transaction over the selected dead rows.
ReplayDead ==
  \E es \in SUBSET Replayable :
    /\ es # {}
    /\ state' = [e \in Events |-> IF e \in es THEN "pending" ELSE state[e]]
    /\ attempts' = [e \in Events |-> IF e \in es THEN 0 ELSE attempts[e]]
    /\ due' = [e \in Events |-> e \in es \/ due[e]]
    /\ token' = [e \in Events |-> IF e \in es THEN NoToken ELSE token[e]]
    /\ leaseLive' = [e \in Events |-> e \notin es /\ leaseLive[e]]
    /\ handled' = [e \in Events |-> e \notin es /\ handled[e]]
    /\ UNCHANGED <<payload, pc, batch, faults>>

\* available_at passes.
BecomesDue(e) ==
  /\ ~due[e]
  /\ due' = [due EXCEPT ![e] = TRUE]
  /\ UNCHANGED <<state, token, attempts, leaseLive, payload, pc, batch, faults, handled>>

\* A live worker still holds the claim the row is leased under.
Held(e) == \E w \in Workers : \E i \in 1..Len(batch[w]) : batch[w][i].token = token[e]

\* lease_expires_at passes.  Outrunning a worker that is still on its batch
\* is counted as a fault; the lease of a dead worker just runs out.
LeaseExpires(e) ==
  /\ leaseLive[e]
  /\ IF Held(e) THEN faults < MaxFaults /\ faults' = faults + 1
                ELSE UNCHANGED faults
  /\ leaseLive' = [leaseLive EXCEPT ![e] = FALSE]
  /\ UNCHANGED <<state, token, attempts, due, payload, pc, batch, handled>>

\* The process dies and is restarted: what it had claimed is forgotten.
Crash(w) ==
  /\ batch[w] # <<>>
  /\ faults < MaxFaults
  /\ faults' = faults + 1
  /\ batch' = [batch EXCEPT ![w] = <<>>]
  /\ pc' = [pc EXCEPT ![w] = "claim"]
  /\ UNCHANGED <<rowVars, handled>>

WorkerStep(w) == \/ \E e \in Events : Claim(w, e)
                 \/ StopClaiming(w) \/ HandlerReturns(w) \/ HandlerRaises(w)
                 \/ FindLeased(w) \/ CompleteEvent(w) \/ FailEvent(w) \/ LeaseLost(w)

OBNext ==
  \/ \E e \in Events : Enqueue(e) \/ BecomesDue(e) \/ LeaseExpires(e)
  \/ \E w \in Workers : WorkerStep(w) \/ Crash(w)
  \/ ReplayDead

OBSpec == OBInit /\ [][OBNext]_outboxVars

(***************************************************************************)
(* run_forever keeps taking steps and time passes.  Rows are claimed in    *)
(* order of available_at, so a due row cannot be passed over forever:      *)
(* strong fairness of its claim.                                           *)
(***************************************************************************)
Fairness == /\ \A w \in Workers : WF_outboxVars(WorkerStep(w))
            /\ \A e \in Events : /\ SF_outboxVars(\E w \in Workers : Claim(w, e))
                                 /\ WF_outboxVars(BecomesDue(e))
                                 /\ WF_outboxVars(LeaseExpires(e))

OBFairSpec == OBSpec /\ Fairness

-----------------------------------------------------------------------------
OBTypeOK ==
  /\ state \in [Events -> States]
  /\ token \in [Events -> Tokens \cup {NoToken}]
  /\ attempts \in [Events -> 0..MaxAttempts]
  /\ due \in [Events -> BOOLEAN]
  /\ leaseLive \in [Events -> BOOLEAN]
  /\ payload \in [Events -> BOOLEAN]
  /\ pc \in [Workers -> Positions]
  /\ batch \in [Workers -> Seq(Claims)]
  /\ faults \in 0..MaxFaults
  /\ handled \in [Events -> BOOLEAN]
  /\ \A w \in Workers : pc[w] # "claim" => batch[w] # <<>>

(***************************************************************************)
(* An event marked succeeded has had its handler return since it was last  *)
(* queued or replayed, however claims, expired leases, crashes and         *)
(* replays interleaved: complete_outbox_event never vouches for a run that *)
(* happened before a replay.                                               *)
(***************************************************************************)
SucceededWasHandled == \A e \in Events : state[e] = "succeeded" => handled[e]

(***************************************************************************)
(* An event that can still be claimed, or revived from the dead letters,   *)
(* has the payload its handler needs: complete_outbox_event scrubs only    *)
(* rows nobody will need again.                                            *)
(***************************************************************************)
PayloadKept == \A e \in Events : state[e] \in Open \cup {"dead"} => payload[e]

(***************************************************************************)
(* A row is dead only when its attempts are used up, and then it is leased *)
(* to nobody (fail_outbox_event).                                          *)
(***************************************************************************)
DeadIsExhausted ==
  \A e \in Events : state[e] = "dead" => attempts[e] = MaxAttempts /\ token[e] = NoToken

(***************************************************************************)
(* Success is final: no late complete, late fail, claim or dead-letter     *)
(* replay takes a row out of succeeded.                                    *)
(***************************************************************************)
SuccessIsFinal ==
  [][\A e \in Events : state[e] = "succeeded" => state'[e] = "succeeded"]_outboxVars

(***************************************************************************)
(* A worker whose lease was taken over cannot disturb the new holder: a    *)
(* row under a live lease changes hands or settles only by a step of the   *)
(* worker whose batch is headed by that very lease.                        *)
(***************************************************************************)
LiveLeaseRespected ==
  [][\A e \in Events :
       (leaseLive[e] /\ token'[e] # token[e]) =>
         \E w \in Workers : /\ pc[w] \in Writing
                            /\ Head1(w) = [event |-> e, token |-> token[e]]
                            /\ batch'[w] = Tail(batch[w])]_outboxVars

(***************************************************************************)
(* With finitely many faults every enqueued event is handled or ends in    *)
(* the dead letters.                                                       *)
(***************************************************************************)
EventuallySettled ==
  \A e \in Events : state[e] \in Open ~> state[e] \in Settled

(***************************************************************************)
(* What the outbox promises its users: the at-least-once queue of          *)
(* AtLeastOnce, where open stands for every state still to be delivered.   *)
(***************************************************************************)
Promise == INSTANCE AtLeastOnce WITH
  Jobs <- Events,
  status <- [e \in Events |-> IF state[e] \in Open THEN "open" ELSE state[e]],
  ran <- handled

PromiseKept == Promise!Spec
=============================================================================
