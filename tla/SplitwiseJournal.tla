-------------------------- MODULE SplitwiseJournal --------------------------
(***************************************************************************)
(* The financial-operation journal of app/services/transaction_service.py: *)
(* one bank transaction, the FinancialOperation rows that post it to       *)
(* Splitwise, amend and remove it, the outbox events that drive them and   *)
(* the expenses Splitwise holds.                                           *)
(*                                                                         *)
(* A process is a request (dashboard, Telegram, agent or Plaid sync) or an *)
(* outbox worker.  In production a request only queues an operation and a  *)
(* worker executes it; otherwise the request executes it itself.  Between  *)
(* its commits a process works on what its session has loaded (seen), and  *)
(* the ORM writes only the columns whose value differs from what was       *)
(* loaded; commits and rollbacks expire the session.                       *)
(*                                                                         *)
(* Payloads are abstracted to the amount they post.  attempt_count is      *)
(* compared only with 0, so tried stands for attempt_count > 0.            *)
(***************************************************************************)
EXTENDS Integers, FiniteSets

CONSTANTS
  Requests,     \* threads serving requests
  Workers,      \* outbox workers
  Ids,          \* bound: expense ids Splitwise can hand out
  MaxGen,       \* bound: splitwise_generation
  Amounts,      \* abs(amount_cents) the bank can report
  Kinds,        \* the requests that are made
  MaxRequests,  \* bound: requests made
  MaxTries,     \* max_attempts of fail_outbox_event
  MaxCrashes,   \* bound: processes that die while they work
  MaxOverruns,  \* bound: leases that run out while their holder works
  Production,   \* settings.is_production_mode
  LateErrors,   \* whether an HTTP error may be reported for a call that was applied
  None

ASSUME JournalConstants ==
  /\ Requests \cap Workers = {}
  /\ None \notin Ids \cup Requests \cup Workers \cup Amounts
  /\ MaxGen \in Nat /\ MaxRequests \in Nat /\ MaxTries \in Nat \ {0}
  /\ MaxCrashes \in Nat /\ MaxOverruns \in Nat
  /\ Production \in BOOLEAN /\ LateErrors \in BOOLEAN
  /\ Amounts # {}
  /\ Kinds \subseteq {"post", "draft", "mark_draft", "personal", "undo", "remove", "amend",
                   "retry", "replay"}

VARIABLES
  tx,        \* the ExpenseTransaction: status, expense, gen, amount, splitwise (amount
             \* posted), saved (the total of splitwise_payload_json)
  op,        \* the FinancialOperation of each action and generation
  latest,    \* the operation inserted last
  event,     \* the splitwise.execute_operation event of each operation
  expense,   \* what Splitwise holds under each id
  proc,      \* what each process is doing
  budget     \* requests made, crashes and overruns so far

vars == <<tx, op, latest, event, expense, proc, budget>>

Procs == Requests \cup Workers
Actions == {"create", "delete", "remove", "update"}
Ops == [action : Actions, gen : 0..MaxGen]

Statuses == {"ask_user", "personal", "shared_draft", "posting", "posted", "post_ambiguous",
             "undoing", "undo_ambiguous", "reconciliation_required", "error", "removed"}
OpStates == {"none", "pending", "in_flight", "failed", "needs_reconciliation", "succeeded"}
EventStates == {"absent", "ready", "in_flight", "succeeded", "dead"}

Idle == [pc |-> "idle"]

\* _should_defer_splitwise_provider_action.
Defers(p) == Production /\ p \in Requests

-----------------------------------------------------------------------------
Init ==
  /\ \E a \in Amounts :
       tx = [status |-> "ask_user", expense |-> None, gen |-> 0, amount |-> a, splitwise |-> None,
             saved |-> None]
  /\ op = [o \in Ops |-> [state |-> "none", tried |-> FALSE, lease |-> "none",
                          expense |-> None, request |-> None]]
  /\ latest = None
  /\ event = [o \in Ops |-> [state |-> "absent", holder |-> None, live |-> FALSE, tries |-> 0]]
  /\ expense = [i \in Ids |-> [state |-> "absent", mark |-> None, cost |-> None]]
  /\ proc = [p \in Procs |-> Idle]
  /\ budget = [requests |-> 0, crashes |-> 0, overruns |-> 0]

-----------------------------------------------------------------------------
(* Starting on an operation: the head of _execute_splitwise_create,        *)
(* _execute_splitwise_update and _execute_splitwise_delete.                *)

Removes(o) == o.action \in {"delete", "remove"}

\* The expense a delete or an update is about.
Target(o, t, row) == IF o.action = "create" \/ row.expense # None THEN row.expense ELSE t.expense

\* Mutant: a tried operation is repeated without looking at Splitwise.
EntryUnseen(o, t, row) ==
  IF row.state = "succeeded" \/ (Removes(o) /\ Target(o, t, row) = None) THEN "done" ELSE "go"

\* Where a process begins: a succeeded operation, and the removal of nothing,
\* are completed at once; one that was tried is looked up at Splitwise first.
Entry(o, t, row) ==
  IF row.state = "succeeded" \/ (Removes(o) /\ Target(o, t, row) = None) THEN "done"
  ELSE IF row.tried \/ row.state = "needs_reconciliation" THEN "look" ELSE "go"

\* The session of a process that starts on o: the loaded rows, what it has
\* assigned to the transaction and not yet flushed (mine), the payload.
Session(o, t, row, mine, payload) ==
  [pc |-> Entry(o, t, row), op |-> o, tx |-> t, seen |-> row, mine |-> mine,
   payload |-> payload, target |-> Target(o, t, row)]

\* _claim_financial_operation: the row of this action and generation, or a new one.
ClaimedRow(o, payload) ==
  IF op[o].state # "none" THEN op[o]
  ELSE [op[o] EXCEPT !.state = "pending", !.request = payload]

\* A request starts on o.  A new row is committed at once, with what the session
\* holds, unless the request defers: then the insert stays open.
Start(p, o, mine, payload) ==
  /\ o \in Ops
  /\ IF op[o].state # "none"
     THEN /\ proc' = [proc EXCEPT ![p] = Session(o, tx, op[o], mine, payload)]
          /\ UNCHANGED <<tx, op, latest>>
     ELSE LET row == ClaimedRow(o, payload)
          IN IF Defers(p)
             THEN /\ proc' = [proc EXCEPT ![p] =
                        [Session(o, tx, row, mine, payload) EXCEPT !.pc = "insert"]]
                  /\ UNCHANGED <<tx, op, latest>>
             ELSE /\ proc' = [proc EXCEPT ![p] = Session(o, mine, row, mine, payload)]
                  /\ op' = [op EXCEPT ![o] = row]
                  /\ latest' = o
                  /\ tx' = mine
  /\ UNCHANGED <<event, expense>>

\* Another request committed the row first: roll back and load what is there.
LostInsert(p) ==
  LET me == proc[p]
  IN /\ me.pc = "insert"
     /\ op[me.op].state # "none"
     /\ proc' = [proc EXCEPT ![p] = Session(me.op, tx, op[me.op], tx, me.payload)]
     /\ UNCHANGED <<tx, op, latest, event, expense, budget>>

\* Where a process goes when it returns to its caller, or raises while its
\* session sees the operation in state s.  _run_create_or_delete swallows what
\* a definite failure raises.
End(p, how) == IF p \in Workers THEN [pc |-> how, op |-> proc[p].op] ELSE Idle
Raise(p, s) == End(p, IF s = "failed" /\ proc[p].op.action # "update" THEN "returned" ELSE "raised")

\* Mutant: every lookup goes by the marker, the lookups before a delete too.
ShownByMark(me) == {i \in Ids : expense[i].state = "live" /\ expense[i].mark = me.op}

\* What Splitwise shows: find_expense_by_idempotency_key, expense_matches_payload
\* and expense_exists.
Shown(me) ==
  {i \in Ids : /\ expense[i].state = "live"
               /\ IF me.op.action = "create" THEN expense[i].mark = me.op
                  ELSE i = me.target /\ (Removes(me.op) \/ expense[i].cost = me.payload)}

\* The lookup before a mutation is repeated; Splitwise may also not answer.
Look(p) ==
  LET me == proc[p]
      done == (Shown(me) = {}) = Removes(me.op)
  IN /\ me.pc = "look"
     /\ \/ proc' = [proc EXCEPT ![p] =
            [me EXCEPT !.pc = IF done THEN "done" ELSE "go",
                       !.target = IF done /\ me.op.action = "create"
                                  THEN CHOOSE i \in Shown(me) : TRUE ELSE @]]
        \/ proc' = [proc EXCEPT ![p] = Raise(p, me.seen.state)]
     /\ UNCHANGED <<tx, op, latest, event, expense, budget>>

-----------------------------------------------------------------------------
(* Completing and failing: _complete_splitwise_create, _update, _delete    *)
(* and _fail_financial_operation, by the session me on the rows t and row. *)

CompletedTx(me, t) ==
  CASE me.op.action = "create" ->
         [t EXCEPT !.status = "posted", !.expense = me.target, !.splitwise = t.amount]
    [] me.op.action = "update" ->
         [t EXCEPT !.status = "posted", !.splitwise = t.amount, !.saved = me.payload,
                   !.gen = IF t.splitwise # t.amount THEN @ + 1 ELSE @]
    [] OTHER ->
         [t EXCEPT !.status = IF me.op.action = "remove" THEN "removed" ELSE "ask_user",
                   !.expense = None, !.splitwise = None, !.gen = @ + 1]

CompletedOp(me, row) ==
  [row EXCEPT !.state = "succeeded", !.lease = "none",
              !.expense = IF me.op.action = "create" THEN me.target ELSE @]

\* Mutant: a removal that may have failed leaves the transaction posted.
StillPosted(o, result) ==
  CASE result = "rejected" -> "error"
    [] ~Removes(o) /\ result = "ambiguous" -> "post_ambiguous"
    [] OTHER -> "posted"

FailedStatus(o, result) ==
  CASE o.action = "update" /\ result = "rejected"  -> "reconciliation_required"
    [] o.action # "update" /\ result = "rejected"  -> "error"
    [] ~Removes(o) /\ result = "ambiguous"         -> "post_ambiguous"
    [] Removes(o) /\ result = "ambiguous"          -> "undo_ambiguous"

FailedOp(row, result) ==
  [row EXCEPT !.state = IF result = "ambiguous" THEN "needs_reconciliation" ELSE "failed",
              !.lease = "none"]

\* What a flush leaves in a row: a session writes the columns whose value
\* differs from what it loaded, and no other.
Flushed(new, loaded, current) ==
  [c \in DOMAIN current |-> IF new[c] = loaded[c] THEN current[c] ELSE new[c]]

\* An operation found done is completed in the transaction that loaded it; a
\* create that had succeeded is only replayed onto the transaction.
Recover(p) ==
  LET me == proc[p]
      replay == me.op.action = "create" /\ me.seen.state = "succeeded"
  IN /\ me.pc = "done"
     /\ tx' = Flushed(IF replay THEN [me.mine EXCEPT !.status = "posted", !.expense = me.target]
                      ELSE CompletedTx(me, me.mine), me.tx, tx)
     /\ op' = IF replay THEN op
               ELSE [op EXCEPT ![me.op] = Flushed(CompletedOp(me, me.seen), me.seen, @)]
     /\ proc' = [proc EXCEPT ![p] = End(p, "returned")]
     /\ UNCHANGED <<latest, event, expense, budget>>

-----------------------------------------------------------------------------
(* A deferring request queues the operation.                               *)

QueuedStatus(o) ==
  CASE o.action = "create" -> "posting"
    [] o.action = "update" -> "reconciliation_required"
    [] OTHER -> "undoing"

\* enqueue_outbox_event, and the revival of a dead event.
Enqueued(e) ==
  IF e.state = "absent" THEN [e EXCEPT !.state = "ready"]
  ELSE IF e.state = "dead" THEN [e EXCEPT !.state = "ready", !.tries = 0]
  ELSE e

\* _queue_splitwise_operation: journal, transaction and event in one commit.
Queue(p) ==
  LET me == proc[p]
      row == [me.seen EXCEPT !.state = "pending", !.lease = "none", !.expense = me.target]
  IN /\ Defers(p)
     /\ \/ /\ me.pc = "insert"
           /\ op[me.op].state = "none"
           /\ op' = [op EXCEPT ![me.op] = row]
           /\ latest' = me.op
        \/ /\ me.pc = "go"
           /\ op' = [op EXCEPT ![me.op] = Flushed(row, me.seen, @)]
           /\ UNCHANGED latest
     /\ tx' = Flushed([me.mine EXCEPT !.status = QueuedStatus(me.op)], me.tx, tx)
     /\ event' = [event EXCEPT ![me.op] = Enqueued(@)]
     /\ proc' = [proc EXCEPT ![p] = Idle]
     /\ UNCHANGED <<expense, budget>>

-----------------------------------------------------------------------------
(* A worker, or a request that does not defer, executes the operation.     *)

\* Mutant: only a success stands in the way of another executor.
FreeUnlessSucceeded(row) == row.state # "succeeded"

\* The WHERE clause of _acquire_operation_lease.
Free(row) == row.state # "succeeded" /\ row.lease # "live"

\* Mutant: the attempt is counted when its outcome is known.
LeasedUntried(row) == [row EXCEPT !.state = "in_flight", !.lease = "live"]

\* Its SET clause: the attempt is counted before the provider is called.
Leased(row) == [row EXCEPT !.state = "in_flight", !.lease = "live", !.tried = TRUE]

\* _acquire_operation_lease: a compare-and-swap on the row, not on what the
\* session saw of it.
Acquire(p) ==
  LET me == proc[p]
      row == op[me.op]
  IN /\ me.pc = "go"
     /\ ~Defers(p)
     /\ IF Free(row)
        THEN /\ op' = [op EXCEPT ![me.op] =
                [Leased(row) EXCEPT !.expense = IF me.op.action = "create" THEN @ ELSE me.target]]
             /\ tx' = Flushed(me.mine, me.tx, tx)
             /\ proc' = [proc EXCEPT ![p].pc = "call"]
        ELSE /\ proc' = [proc EXCEPT ![p] = Raise(p, row.state)]
             /\ UNCHANGED <<tx, op>>
     /\ UNCHANGED <<latest, event, expense, budget>>

\* What Splitwise does with a call: nothing, or what was asked.
Applied(me) ==
  CASE me.op.action = "create" ->
         {[expense EXCEPT ![i] = [state |-> "live", mark |-> me.op, cost |-> me.payload]] :
            i \in {CHOOSE i \in Ids : expense[i].state = "absent"}}
    [] me.op.action = "update" -> {[expense EXCEPT ![me.target].cost = me.payload]}
    [] OTHER -> {[expense EXCEPT ![me.target].state = "deleted"]}

CanApply(me) ==
  IF me.op.action = "create" THEN \E i \in Ids : expense[i].state = "absent"
  ELSE expense[me.target].state = "live"

\* The provider call.  A timeout or a lost response (ambiguous) leaves open
\* whether the call was applied; so does an HTTP error (rejected) that a gateway
\* reports for a request that went through.
Call(p) ==
  LET me == proc[p]
  IN /\ me.pc = "call"
     /\ tx' = [tx EXCEPT !.status = QueuedStatus(me.op)]
     /\ op' = IF me.op.action = "create" THEN [op EXCEPT ![me.op].request = me.payload] ELSE op
     /\ \/ /\ CanApply(me)
           /\ expense' \in Applied(me)
           /\ \E result \in {"ok", "ambiguous"} \cup (IF LateErrors THEN {"rejected"} ELSE {}) :
                proc' = [proc EXCEPT ![p] = [me EXCEPT !.pc = result,
                   !.target = IF me.op.action = "create"
                              THEN CHOOSE i \in Ids : expense[i].state = "absent" ELSE @]]
        \/ /\ UNCHANGED expense
           /\ \E result \in {"rejected", "ambiguous"} : proc' = [proc EXCEPT ![p].pc = result]
     /\ UNCHANGED <<latest, event, budget>>

\* The outcome is written over whatever the rows hold by now.
Succeed(p) ==
  LET me == proc[p]
  IN /\ me.pc = "ok"
     /\ tx' = CompletedTx(me, tx)
     /\ op' = [op EXCEPT ![me.op] = CompletedOp(me, @)]
     /\ proc' = [proc EXCEPT ![p] = End(p, "returned")]
     /\ UNCHANGED <<latest, event, expense, budget>>

FailCall(p) ==
  LET me == proc[p]
  IN /\ me.pc \in {"rejected", "ambiguous"}
     /\ tx' = [tx EXCEPT !.status = FailedStatus(me.op, me.pc)]
     /\ op' = [op EXCEPT ![me.op] = FailedOp(@, me.pc)]
     /\ proc' = [proc EXCEPT ![p] = IF me.op.action = "update" \/ me.pc = "rejected"
                                    THEN End(p, "returned") ELSE End(p, "raised")]
     /\ UNCHANGED <<latest, event, expense, budget>>

-----------------------------------------------------------------------------
(* The outbox worker around it: _handle_splitwise_operation.               *)

\* Mutant: what a dead worker held is not claimed again.
ClaimableIfReady(e) == e.state = "ready"

Claimable(e) == e.state = "ready" \/ (e.state = "in_flight" /\ ~e.live)

ClaimEvent(w, o) ==
  /\ proc[w] = Idle
  /\ Claimable(event[o])
  /\ event' = [event EXCEPT ![o] = [state |-> "in_flight", holder |-> w, live |-> TRUE,
                                    tries |-> IF @.tries < MaxTries THEN @.tries + 1 ELSE @.tries]]
  /\ proc' = [proc EXCEPT ![w] = [pc |-> "claimed", op |-> o]]
  /\ UNCHANGED <<tx, op, latest, expense, budget>>

\* An update is refused when there is nothing to update, or when the payload
\* does not add up to the amount of the transaction.
Refused(o, t, amount, payload) == o.action = "update" /\ (t.expense = None \/ payload # amount)

Handle(w) ==
  LET o == proc[w].op
  IN /\ proc[w].pc = "claimed"
     /\ proc' = [proc EXCEPT ![w] =
          IF op[o].state = "succeeded" THEN End(w, "returned")
          ELSE IF Refused(o, tx, tx.amount, op[o].request) THEN End(w, "raised")
          ELSE Session(o, tx, op[o], tx, op[o].request)]
     /\ UNCHANGED <<tx, op, latest, event, expense, budget>>

\* complete_outbox_event or fail_outbox_event, if the worker still leases it.
SettleEvent(w) ==
  LET o == proc[w].op
      e == event[o]
      state == IF proc[w].pc = "returned" THEN "succeeded"
               ELSE IF e.tries >= MaxTries THEN "dead" ELSE "ready"
  IN /\ proc[w].pc \in {"returned", "raised"}
     /\ event' = IF e.state = "in_flight" /\ e.holder = w
                 THEN [event EXCEPT ![o] = [@ EXCEPT !.state = state, !.holder = None, !.live = FALSE]]
                 ELSE event
     /\ proc' = [proc EXCEPT ![w] = Idle]
     /\ UNCHANGED <<tx, op, latest, expense, budget>>

-----------------------------------------------------------------------------
(* The requests.                                                           *)

Requested(kind) == /\ kind \in Kinds
                   /\ budget.requests < MaxRequests
                   /\ budget' = [budget EXCEPT !.requests = @ + 1]

\* _ensure_can_post.
CanPost == /\ tx.expense = None
           /\ tx.status \in {"ask_user", "personal", "shared_draft", "error"}

\* create_equal_split_expense, create_custom_split_expense and
\* post_prepared_splitwise_expense, confirmed.
Post(p) ==
  /\ proc[p] = Idle
  /\ CanPost
  /\ Requested("post")
  /\ Start(p, [action |-> "create", gen |-> tx.gen], [tx EXCEPT !.saved = tx.amount], tx.amount)

\* A request that only changes the transaction: what it loaded, and what it is
\* about to write.
Change(p, new) == /\ proc' = [proc EXCEPT ![p] = [pc |-> "write", tx |-> tx, new |-> new]]
                  /\ UNCHANGED <<tx, op, latest, event, expense>>

SetStatus(p, status) == Change(p, [tx EXCEPT !.status = status])

Write(p) ==
  LET me == proc[p]
  IN /\ me.pc = "write"
     /\ tx' = Flushed(me.new, me.tx, tx)
     /\ proc' = [proc EXCEPT ![p] = Idle]
     /\ UNCHANGED <<op, latest, event, expense, budget>>

\* The same requests with confirm=False.
SaveDraft(p) ==
  /\ proc[p] = Idle
  /\ CanPost
  /\ Requested("draft")
  /\ Change(p, [tx EXCEPT !.status = "shared_draft", !.saved = tx.amount])

\* mark_shared_draft: a saved payload that still adds up, and no expense yet.
MarkSharedDraft(p) ==
  /\ proc[p] = Idle
  /\ tx.expense = None
  /\ tx.saved = tx.amount
  /\ Requested("mark_draft")
  /\ SetStatus(p, "shared_draft")

\* validate_mark_personal.
CanMarkPersonal == tx.expense = None /\ tx.status \in {"ask_user", "shared_draft", "posted"}

MarkPersonal(p) ==
  proc[p] = Idle /\ CanMarkPersonal /\ Requested("personal") /\ SetStatus(p, "personal")

\* can_undo_transaction, undo_transaction.
Undo(p) ==
  /\ proc[p] = Idle
  /\ tx.status \in {"personal", "posted", "shared_draft", "reconciliation_required"}
  /\ Requested("undo")
  /\ IF tx.expense = None THEN SetStatus(p, "ask_user")
     ELSE Start(p, [action |-> "delete", gen |-> tx.gen], tx, None)

\* mark_removed, from a Plaid sync.
Remove(p) ==
  /\ proc[p] = Idle
  /\ Requested("remove")
  /\ IF tx.expense = None THEN SetStatus(p, "removed")
     ELSE Start(p, [action |-> "remove", gen |-> tx.gen], tx, None)

\* A Plaid sync brings another amount: _reconcile_posted_amount_change.
Amend(p, a) ==
  /\ proc[p] = Idle
  /\ a # tx.amount
  /\ Requested("amend")
  /\ IF tx.expense = None
     THEN Change(p, [tx EXCEPT !.amount = a])
     ELSE Start(p, [action |-> "update", gen |-> tx.gen], [tx EXCEPT !.amount = a], a)

\* What Recovery offers to retry: the operation inserted last, if it is not settled.
Recoverable ==
  latest # None /\ op[latest].state \in {"failed", "needs_reconciliation", "in_flight"}

\* retry_financial_operation.
Retry(p) ==
  /\ proc[p] = Idle
  /\ Recoverable
  /\ ~Refused(latest, tx, tx.amount, op[latest].request)
  /\ Requested("retry")
  /\ Start(p, latest, tx, op[latest].request)

\* replay_dead_outbox_events, by an operator.
ReplayDead(o) ==
  /\ event[o].state = "dead"
  /\ Requested("replay")
  /\ event' = [event EXCEPT ![o].state = "ready", ![o].tries = 0]
  /\ UNCHANGED <<tx, op, latest, expense, proc>>

-----------------------------------------------------------------------------
(* Time and failures.                                                      *)

Executes(p, o) == proc[p].pc \in {"call", "ok", "rejected", "ambiguous"} /\ proc[p].op = o

\* Running out under a holder that is still at work is an overrun.
RunsOut(held) == IF held THEN /\ budget.overruns < MaxOverruns
                              /\ budget' = [budget EXCEPT !.overruns = @ + 1]
                 ELSE UNCHANGED budget

OpLeaseExpires(o) ==
  /\ op[o].lease = "live"
  /\ RunsOut(\E p \in Procs : Executes(p, o))
  /\ op' = [op EXCEPT ![o].lease = "expired"]
  /\ UNCHANGED <<tx, latest, event, expense, proc>>

EventLeaseExpires(o) ==
  /\ event[o].live
  /\ RunsOut(event[o].holder # None)
  /\ event' = [event EXCEPT ![o].live = FALSE]
  /\ UNCHANGED <<tx, op, latest, expense, proc>>

\* A process dies: its session is lost, its claim stays until it runs out.
Crash(p) ==
  /\ proc[p] # Idle
  /\ budget.crashes < MaxCrashes
  /\ budget' = [budget EXCEPT !.crashes = @ + 1]
  /\ proc' = [proc EXCEPT ![p] = Idle]
  /\ event' = [o \in Ops |-> IF event[o].holder = p THEN [event[o] EXCEPT !.holder = None]
                             ELSE event[o]]
  /\ UNCHANGED <<tx, op, latest, expense>>

-----------------------------------------------------------------------------
Execute(p) == \/ LostInsert(p) \/ Look(p) \/ Recover(p) \/ Queue(p) \/ Acquire(p) \/ Call(p)
              \/ Succeed(p) \/ FailCall(p) \/ Write(p)

Request(p) == \/ Post(p) \/ SaveDraft(p) \/ MarkSharedDraft(p) \/ MarkPersonal(p)
              \/ Undo(p) \/ Remove(p) \/ Retry(p) \/ \E a \in Amounts : Amend(p, a)

Work(w) == Handle(w) \/ SettleEvent(w) \/ \E o \in Ops : ClaimEvent(w, o)

Expire == \E o \in Ops : OpLeaseExpires(o) \/ EventLeaseExpires(o)

Next == \/ \E p \in Requests : Request(p)
        \/ \E p \in Procs : Execute(p) \/ Crash(p)
        \/ \E w \in Workers : Work(w)
        \/ \E o \in Ops : ReplayDead(o)
        \/ Expire

Spec == Init /\ [][Next]_vars

\* A request that does not die finishes; the outbox worker polls for ever; leases
\* nobody works under run out.
Fairness ==
  /\ \A p \in Procs : WF_vars(Execute(p))
  /\ \A w \in Workers : WF_vars(Work(w))
  /\ \A o \in Ops : WF_vars(OpLeaseExpires(o)) /\ WF_vars(EventLeaseExpires(o))

-----------------------------------------------------------------------------
TxRow == [status : Statuses, expense : Ids \cup {None}, gen : Nat, amount : Amounts,
          splitwise : Amounts \cup {None}, saved : Amounts \cup {None}]

OpRow == [state : OpStates, tried : BOOLEAN, lease : {"none", "live", "expired"},
          expense : Ids \cup {None}, request : Amounts \cup {None}]

EventRow == [state : EventStates, holder : Workers \cup {None}, live : BOOLEAN, tries : 0..MaxTries]

\* What a process that works on an operation holds.
Sessions ==
  [pc : {"insert", "go", "look", "done", "call", "ok", "rejected", "ambiguous"}, op : Ops,
   tx : TxRow, seen : OpRow, mine : TxRow, payload : Amounts \cup {None},
   target : Ids \cup {None}]

Positions(p) ==
  {Idle} \cup Sessions \cup
  (IF p \in Workers THEN [pc : {"claimed", "returned", "raised"}, op : Ops]
   ELSE [pc : {"write"}, tx : TxRow, new : TxRow])

\* Rows, events, expenses and sessions have their types: in particular a status
\* is always one the guards know.
TypeOK ==
  /\ tx \in TxRow
  /\ op \in [Ops -> OpRow]
  /\ latest \in Ops \cup {None}
  /\ event \in [Ops -> EventRow]
  /\ \A i \in Ids : expense[i] \in [state : {"absent", "live", "deleted"},
                                    mark : Ops \cup {None}, cost : Amounts \cup {None}]
  /\ \A p \in Procs : proc[p] \in Positions(p)
  /\ budget \in [requests : 0..MaxRequests, crashes : 0..MaxCrashes, overruns : 0..MaxOverruns]

Live == {i \in Ids : expense[i].state = "live"}

\* As long as no lease runs out under its holder, an operation that was queued for
\* the worker never leaves two expenses behind: whatever was lost, retried or died,
\* the next attempt looks for the marker of the one before (_execute_splitwise_create).
OneExpensePerOperation ==
  budget.overruns = 0 =>
    \A i, j \in Live : /\ expense[i].mark = expense[j].mark
                       /\ event[expense[i].mark].state # "absent"
                       => i = j

\* Every expense Splitwise was ever asked for is one whose attempt the journal
\* counted before the call, so that a later attempt looks before it creates.
WrittenAhead == \A i \in Ids : expense[i].state # "absent" => op[expense[i].mark].tried

\* As long as no lease runs out under its holder, no two processes execute one
\* operation: in production the event of an operation is leased to one worker, outside
\* it the operation itself is (_claim_across_workspaces, _acquire_operation_lease).
OneExecutes ==
  budget.overruns = 0 =>
    \A o \in Ops : \A p, q \in Procs : Executes(p, o) /\ Executes(q, o) => p = q

\* While requests come one at a time and nobody dies, a transaction shown as posted has
\* an expense that Splitwise still holds (_complete_splitwise_create,
\* _fail_financial_operation, undo_transaction).
PostedIsBacked ==
  tx.status = "posted" => tx.expense # None /\ expense[tx.expense].state = "live"

\* Under the same conditions the expense of a transaction is let go only once Splitwise
\* has deleted it (_execute_splitwise_delete): a "retry verifies provider absence before
\* clearing local posted state".
ForgetsOnlyDeleted ==
  tx.expense # None /\ tx'.expense # tx.expense => expense[tx.expense].state = "deleted"

\* The same of every step (_execute_splitwise_delete, retry_financial_operation).
ForgottenOnlyWhenDeleted == [][ForgetsOnlyDeleted]_vars

\* What was queued for the worker ends succeeded, failed for good, or among the
\* dead letters, whatever dies on the way.
QueuedIsSettled ==
  \A o \in Ops : event[o].state = "ready"
                   ~> op[o].state \in {"succeeded", "failed"} \/ event[o].state = "dead"

-----------------------------------------------------------------------------
(* What the documentation says and the code does not do.                   *)

\* "No duplicate Splitwise expense under replay, timeout, or concurrency": Splitwise
\* holds at most one expense of a bank transaction.
AtMostOneLiveExpense == Cardinality(Live) <= 1

\* "Confirmed failures can either retry or remove the old split": a pending
\* operation has an outbox event that a worker, or an operator, can still run.
PendingIsDriven == \A o \in Ops : op[o].state = "pending" => event[o].state # "succeeded"

\* "Marking personal must not let that later retry silently resurrect and
\* overwrite the decision": nothing is left to retry on a personal transaction.
PersonalIsUnrecoverable == tx.status = "personal" => ~Recoverable
=============================================================================
