--------------------------- MODULE AgentProposal ---------------------------
(***************************************************************************)
(* The confirmed actions of the agent: proposals to mark one bank          *)
(* transaction personal or to post it to Splitwise, from the tool call     *)
(* that prepares one (app/agent/service.py) to the request that confirms,  *)
(* claims and executes it (app/agent/actions.py) and the page loads that   *)
(* learn what became of it.                                                *)
(*                                                                         *)
(* Every commit of a confirm request is a step.  Production is assumed: a  *)
(* post only queues a FinancialOperation, and a worker drives it; what     *)
(* happens to the operation itself is SplitwiseJournal's business and is   *)
(* one step here, as is whatever the owner does from the dashboard.        *)
(*                                                                         *)
(* A proposal freezes the status and updated_at of the transaction it was  *)
(* prepared for, and every change of the row moves updated_at: fresh holds *)
(* the proposals prepared for the row as it is now.  The version number is *)
(* left out: it is 1 for as long as a proposal awaits confirmation, and no *)
(* later version is compared.                                              *)
(***************************************************************************)
EXTENDS Integers, FiniteSets

CONSTANTS
  Proposals,   \* proposals that may be prepared
  Tool,        \* what each would do: "personal" or "post"
  Requests,    \* threads serving confirm requests
  Edits,       \* what the owner does from the dashboard
  MaxEdits,    \* bound: how often
  MaxGen,      \* bound: splitwise_generation
  MaxTries,    \* bound: ambiguous outcomes of one operation
  MaxFaults,   \* bound: database errors while an action is carried out
  MaxCrashes,  \* bound: requests that die
  Owner, None

ASSUME ProposalConstants ==
  /\ Tool \in [Proposals -> {"personal", "post"}]
  /\ Edits \subseteq {"personal", "draft", "post", "undo"}
  /\ MaxEdits \in Nat /\ MaxGen \in Nat /\ MaxTries \in Nat
  /\ MaxFaults \in Nat /\ MaxCrashes \in Nat
  /\ Owner \notin Proposals /\ None \notin Proposals \cup Nat /\ Owner # None

VARIABLES
  proposal,  \* the AgentActionProposal rows: status, overdue (expires_at has passed), ref
             \* (the generation of the operation recorded in result_metadata_json)
  tx,        \* the ExpenseTransaction: status and splitwise_generation
  fresh,     \* the proposals that froze the row as it is
  op,        \* the splitwise_create operation of each generation: state, by (whose
             \* correlation_id), live (its outbox event is unsettled), tries
  marked,    \* the proposals named by transaction_marked_personal audit events
  archived,  \* whether the conversation is archived
  request,   \* what each confirm request is doing
  budget,    \* edits, faults and crashes so far
  acted      \* history: how often each proposal's action was carried out

vars == <<proposal, tx, fresh, op, marked, archived, request, budget, acted>>

Statuses == {"absent", "awaiting_confirmation", "confirmed", "executing", "completed",
             "cancelled", "expired", "failed", "ambiguous"}
Active == {"awaiting_confirmation", "confirmed", "executing"}
Generations == 0..MaxGen
NoOperation == [state |-> "none", by |-> None, live |-> FALSE, tries |-> 0]
Idle == [at |-> "idle", p |-> None, claimed |-> FALSE, ref |-> None]

Init ==
  /\ proposal = [p \in Proposals |-> [status |-> "absent", overdue |-> FALSE, ref |-> None]]
  /\ tx = [status |-> "needs_review", gen |-> 0]
  /\ fresh = {} /\ marked = {} /\ archived = FALSE
  /\ op = [g \in Generations |-> NoOperation]
  /\ request = [r \in Requests |-> Idle]
  /\ budget = [edits |-> 0, faults |-> 0, crashes |-> 0]
  /\ acted = [p \in Proposals |-> 0]

---------------------------------------------------------------------------
(* Proposal rows. *)

Operation == op[tx.gen]

CanMarkPersonal == tx.status \in {"needs_review", "shared_draft"}
CanPost == tx.status \in {"needs_review", "shared_draft", "personal", "error"}
Allowed(p) == IF Tool[p] = "personal" THEN CanMarkPersonal ELSE CanPost

(* Overdue proposals are swept whenever one is prepared. *)
Swept == [p \in Proposals |->
  IF proposal[p].status = "awaiting_confirmation" /\ proposal[p].overdue
  THEN [proposal[p] EXCEPT !.status = "expired"] ELSE proposal[p]]

(* Same tool, same parameters, same preview, and not finished. *)
ActiveDuplicate(p) ==
  \E q \in fresh \ {p} : Tool[q] = Tool[p] /\ Swept[q].status \in Active

Prepare(p) ==
  /\ proposal[p].status = "absent" /\ ~archived /\ Allowed(p)
  /\ IF ActiveDuplicate(p)
     THEN proposal' = Swept /\ UNCHANGED fresh
     ELSE /\ proposal' = [Swept EXCEPT ![p].status = "awaiting_confirmation"]
          /\ fresh' = fresh \cup {p}
  /\ UNCHANGED <<tx, op, marked, archived, request, budget, acted>>

(* Fifteen minutes pass. *)
BecomesOverdue(p) ==
  /\ proposal[p].status = "awaiting_confirmation" /\ ~proposal[p].overdue
  /\ proposal' = [proposal EXCEPT ![p].overdue = TRUE]
  /\ UNCHANGED <<tx, fresh, op, marked, archived, request, budget, acted>>

CancellableWhileActive == Active  \* mutant: whatever is not finished
Cancellable == {"awaiting_confirmation"}

Cancel(p) ==
  /\ proposal[p].status \in Cancellable
  /\ proposal' = [proposal EXCEPT ![p].status = "cancelled"]
  /\ UNCHANGED <<tx, fresh, op, marked, archived, request, budget, acted>>

Archive ==
  /\ ~archived
  /\ archived' = TRUE
  /\ proposal' = [p \in Proposals |->
       IF proposal[p].status = "awaiting_confirmation"
       THEN [proposal[p] EXCEPT !.status = "cancelled"] ELSE proposal[p]]
  /\ UNCHANGED <<tx, fresh, op, marked, request, budget, acted>>

SettlesAny(status) == Statuses  \* mutant: the row's status is not looked at

(* complete_action_proposal moves an executing row, fail_action_proposal a  *)
(* confirmed one too; both leave any other as it is.                       *)
Settles(status) == IF status = "completed" THEN {"executing"} ELSE {"confirmed", "executing"}

Settle(p, status) ==
  proposal' = IF proposal[p].status \in Settles(status)
              THEN [proposal EXCEPT ![p].status = status] ELSE proposal

VerdictWithoutDoubt(o) ==  \* mutant: an ambiguous outcome counts as a failure
  CASE o.state = "succeeded" -> "completed"
    [] o.state \in {"needs_reconciliation", "failed"} -> "failed"
    [] OTHER -> None
VerdictOfQueued(o) ==  \* mutant: queued is as good as done
  CASE o.state \in {"succeeded", "pending"} -> "completed"
    [] o.state = "needs_reconciliation" -> "ambiguous"
    [] o.state = "failed" -> "failed"
    [] OTHER -> None

(* What an operation says of the proposal it belongs to. *)
Verdict(o) == CASE o.state = "succeeded" -> "completed"
                [] o.state = "needs_reconciliation" -> "ambiguous"
                [] o.state = "failed" -> "failed"
                [] OTHER -> None

---------------------------------------------------------------------------
(* A confirm request. *)

Goto(r, at) == request' = [request EXCEPT ![r].at = at]
Return(r) == request' = [request EXCEPT ![r] = Idle]

(* confirm_and_execute looks at the proposal and takes it from there. *)
Start(r, p) ==
  /\ request[r].at = "idle" /\ proposal[p].status \in Active
  /\ LET at == IF proposal[p].status = "awaiting_confirmation" THEN "confirm" ELSE "claim" IN
       request' = [request EXCEPT ![r] = [Idle EXCEPT !.at = at, !.p = p]]
  /\ UNCHANGED <<proposal, tx, fresh, op, marked, archived, budget, acted>>

Confirm(r) == LET p == request[r].p IN
  /\ request[r].at = "confirm"
  /\ \/ /\ ~archived /\ proposal[p].status = "awaiting_confirmation" /\ ~proposal[p].overdue
        /\ proposal' = [proposal EXCEPT ![p].status = "confirmed"]
        /\ Goto(r, "claim")
     \/ /\ ~archived /\ proposal[p].status = "awaiting_confirmation" /\ proposal[p].overdue
        /\ proposal' = [proposal EXCEPT ![p].status = "expired"]
        /\ Return(r)
     \/ /\ archived \/ proposal[p].status # "awaiting_confirmation"
        /\ Return(r)
        /\ UNCHANGED proposal
  /\ UNCHANGED <<tx, fresh, op, marked, archived, budget, acted>>

(* Of the requests that find the proposal confirmed one makes it executing; *)
(* the others go on as followers.                                          *)
Winnable == {"confirmed"}

Claim(r) == LET p == request[r].p IN
  /\ request[r].at = "claim"
  /\ \/ /\ proposal[p].status \in Winnable
        /\ proposal' = [proposal EXCEPT ![p].status = "executing"]
        /\ request' = [request EXCEPT ![r].at = "execute", ![r].claimed = TRUE]
     \/ /\ proposal[p].status = "executing"
        /\ Goto(r, "execute")
        /\ UNCHANGED proposal
     \/ /\ proposal[p].status \notin {"confirmed", "executing"}
        /\ Return(r)
        /\ UNCHANGED proposal
  /\ UNCHANGED <<tx, fresh, op, marked, archived, budget, acted>>

FollowersAct(r) == TRUE  \* mutant: whoever gets there acts

(* A request that did not win the claim leaves the transaction alone. *)
MayAct(r) == request[r].claimed

(* Posting finds the operation of the generation or inserts it; it does not *)
(* revive an event that is settled.                                        *)
Queue(by) ==
  /\ op' = [op EXCEPT ![tx.gen] =
       IF @.by = None THEN [@ EXCEPT !.state = "pending", !.by = by, !.live = TRUE]
                      ELSE [@ EXCEPT !.state = "pending"]]
  /\ tx' = [tx EXCEPT !.status = "posting"]
  /\ fresh' = {}

(* A stale proposal fails; nothing else is done. *)
Stale(r) == Settle(request[r].p, "failed") /\ Return(r)

(* The row is locked from the first look at it to the commit. *)
ExecutePersonal(r) == LET p == request[r].p IN
  /\ request[r].at = "execute" /\ Tool[p] = "personal"
  /\ \/ /\ tx.status = "personal"
        /\ \/ /\ ~request[r].claimed /\ p \in marked
              /\ Settle(p, "completed") /\ Return(r)
           \/ /\ proposal[p].status = "completed"
              /\ Return(r) /\ UNCHANGED proposal
           \/ /\ proposal[p].status # "completed" /\ (request[r].claimed \/ p \notin marked)
              /\ Stale(r)
        /\ UNCHANGED <<tx, fresh, marked, acted>>
     \/ /\ tx.status # "personal" /\ ~MayAct(r)
        /\ Return(r)
        /\ UNCHANGED <<proposal, tx, fresh, marked, acted>>
     \/ /\ tx.status # "personal" /\ MayAct(r) /\ (p \notin fresh \/ ~CanMarkPersonal)
        /\ Stale(r)
        /\ UNCHANGED <<tx, fresh, marked, acted>>
     \/ /\ tx.status # "personal" /\ MayAct(r) /\ p \in fresh /\ CanMarkPersonal
        /\ tx' = [tx EXCEPT !.status = "personal"]
        /\ fresh' = {}
        /\ marked' = marked \cup {p}
        /\ acted' = [acted EXCEPT ![p] = @ + 1]
        /\ Goto(r, "finish")
        /\ UNCHANGED proposal
  /\ UNCHANGED <<op, archived, budget>>

(* mark_personal raises, before its commit or after it, and rolls back what *)
(* is left.                                                                *)
MarkFails(r) == LET p == request[r].p IN
  /\ request[r].at = "execute" /\ Tool[p] = "personal" /\ MayAct(r)
  /\ tx.status # "personal" /\ p \in fresh /\ CanMarkPersonal
  /\ budget.faults < MaxFaults
  /\ budget' = [budget EXCEPT !.faults = @ + 1]
  /\ \/ UNCHANGED <<tx, fresh, marked, acted>>
     \/ /\ tx' = [tx EXCEPT !.status = "personal"]
        /\ fresh' = {}
        /\ marked' = marked \cup {p}
        /\ acted' = [acted EXCEPT ![p] = @ + 1]
  /\ Goto(r, "recover")
  /\ UNCHANGED <<proposal, op, archived>>

Recover(r) ==
  /\ request[r].at = "recover"
  /\ Settle(request[r].p, IF tx.status = "personal" THEN "completed" ELSE "failed")
  /\ Return(r)
  /\ UNCHANGED <<tx, fresh, op, marked, archived, budget, acted>>

Finish(r) ==
  /\ request[r].at = "finish"
  /\ Settle(request[r].p, "completed")
  /\ Return(r)
  /\ UNCHANGED <<tx, fresh, op, marked, archived, budget, acted>>

(* An operation of the current generation decides: somebody else's makes   *)
(* the proposal stale, its own one settles it or is left to the worker.    *)
Defer(r) == LET p == request[r].p IN
  /\ Operation.by # None
  /\ IF Operation.by # p THEN Settle(p, "failed")
     ELSE IF Verdict(Operation) # None THEN Settle(p, Verdict(Operation))
     ELSE UNCHANGED proposal
  /\ Return(r)

Reconcile(r) ==
  /\ request[r].at = "execute" /\ Tool[request[r].p] = "post"
  /\ \/ Defer(r)
     \/ /\ Operation.by = None /\ ~MayAct(r)
        /\ Return(r) /\ UNCHANGED proposal
     \/ /\ Operation.by = None /\ MayAct(r)
        /\ Goto(r, "post") /\ UNCHANGED proposal
  /\ UNCHANGED <<tx, fresh, op, marked, archived, budget, acted>>

(* The row is locked; the integration, the participants or the payer may    *)
(* have changed; otherwise the operation is queued.                        *)
Post(r) == LET p == request[r].p IN
  /\ request[r].at = "post"
  /\ \/ /\ p \notin fresh
        /\ Defer(r) \/ (Operation.by = None /\ Stale(r))
        /\ UNCHANGED <<tx, fresh, op, acted>>
     \/ /\ p \in fresh
        /\ Stale(r)
        /\ UNCHANGED <<tx, fresh, op, acted>>
     \/ /\ p \in fresh /\ CanPost
        /\ Queue(p)
        /\ acted' = [acted EXCEPT ![p] = @ + 1]
        /\ Goto(r, "apply")
        /\ UNCHANGED proposal
  /\ UNCHANGED <<marked, archived, budget>>

(* The operation is read again, by the generation the row has by then. *)
Apply(r) == LET p == request[r].p IN
  /\ request[r].at = "apply"
  /\ \/ /\ Operation.by = None
        /\ Settle(p, "ambiguous") /\ Return(r)
     \/ /\ Verdict(Operation) # None
        /\ Settle(p, Verdict(Operation)) /\ Return(r)
     \/ /\ Operation.state = "pending"
        /\ request' = [request EXCEPT ![r].at = "record", ![r].ref = tx.gen]
        /\ UNCHANGED proposal
  /\ UNCHANGED <<tx, fresh, op, marked, archived, budget, acted>>

RecordNothing(r) ==  \* mutant: the reference is not kept
  /\ request[r].at = "record"
  /\ Return(r)
  /\ UNCHANGED <<proposal, tx, fresh, op, marked, archived, budget, acted>>

Record(r) == LET p == request[r].p IN
  /\ request[r].at = "record"
  /\ proposal' = IF proposal[p].status = "executing"
                 THEN [proposal EXCEPT ![p].ref = request[r].ref] ELSE proposal
  /\ Return(r)
  /\ UNCHANGED <<tx, fresh, op, marked, archived, budget, acted>>

Crash(r) ==
  /\ request[r].at # "idle" /\ budget.crashes < MaxCrashes
  /\ budget' = [budget EXCEPT !.crashes = @ + 1]
  /\ Return(r)
  /\ UNCHANGED <<proposal, tx, fresh, op, marked, archived, acted>>

(* Loading the conversation settles the proposals whose operation is over. *)
Refresh(p) ==
  /\ proposal[p].status = "executing" /\ Tool[p] = "post" /\ proposal[p].ref # None
  /\ LET o == op[proposal[p].ref] IN
       /\ o.by = p /\ Verdict(o) # None
       /\ Settle(p, Verdict(o))
  /\ UNCHANGED <<tx, fresh, op, marked, archived, request, budget, acted>>

---------------------------------------------------------------------------
(* The rest of the system. *)

(* A worker runs the operation.  A definite failure settles its event, an  *)
(* ambiguous one is tried again.                                           *)
Drive(state) ==
  /\ Operation.live
  /\ state = "needs_reconciliation" => Operation.tries < MaxTries
  /\ op' = [op EXCEPT ![tx.gen].state = state,
                      ![tx.gen].live = state = "needs_reconciliation",
                      ![tx.gen].tries = IF state = "needs_reconciliation" THEN @ + 1 ELSE @]
  /\ tx' = [tx EXCEPT !.status = CASE state = "succeeded" -> "posted"
                                   [] state = "failed" -> "error"
                                   [] OTHER -> "post_ambiguous"]
  /\ fresh' = {}
  /\ UNCHANGED <<proposal, marked, archived, request, budget, acted>>

Edit(kind) == kind \in Edits /\ budget.edits < MaxEdits /\ budget' = [budget EXCEPT !.edits = @ + 1]

EditStatus ==
  /\ \/ Edit("personal") /\ CanMarkPersonal /\ tx' = [tx EXCEPT !.status = "personal"]
     \/ Edit("draft") /\ tx.status # "posted" /\ tx' = [tx EXCEPT !.status = "shared_draft"]
     \/ /\ Edit("undo") /\ tx.status \in {"personal", "shared_draft"}
        /\ tx' = [tx EXCEPT !.status = "needs_review"]
  /\ fresh' = {}
  /\ UNCHANGED <<proposal, op, marked, archived, request, acted>>

EditPost ==
  /\ Edit("post") /\ CanPost /\ Queue(Owner)
  /\ UNCHANGED <<proposal, marked, archived, request, acted>>

EditUndo ==
  /\ Edit("undo") /\ tx.status = "posted" /\ tx.gen < MaxGen
  /\ tx' = [status |-> "needs_review", gen |-> tx.gen + 1]
  /\ fresh' = {}
  /\ UNCHANGED <<proposal, op, marked, archived, request, acted>>

---------------------------------------------------------------------------
Outcomes == {"succeeded", "failed", "needs_reconciliation"}

ProposalStep(p) == Prepare(p) \/ BecomesOverdue(p) \/ Cancel(p) \/ Refresh(p)
RequestStep(r) ==
  \/ Confirm(r) \/ Claim(r) \/ ExecutePersonal(r) \/ MarkFails(r) \/ Recover(r) \/ Finish(r)
  \/ Reconcile(r) \/ Post(r) \/ Apply(r) \/ Record(r)

Next ==
  \/ \E p \in Proposals : ProposalStep(p)
  \/ Archive
  \/ \E r \in Requests, p \in Proposals : Start(r, p)
  \/ \E r \in Requests : RequestStep(r) \/ Crash(r)
  \/ \E state \in Outcomes : Drive(state)
  \/ EditStatus \/ EditPost \/ EditUndo

Spec == Init /\ [][Next]_vars

---------------------------------------------------------------------------
(* Properties. *)

TypeOK ==
  /\ proposal \in [Proposals -> [status : Statuses, overdue : BOOLEAN,
                                 ref : Generations \cup {None}]]
  /\ tx \in [status : {"needs_review", "shared_draft", "personal", "posting", "posted", "error",
                       "post_ambiguous"}, gen : Generations]
  /\ fresh \subseteq Proposals /\ marked \subseteq Proposals /\ archived \in BOOLEAN
  /\ op \in [Generations -> [state : Outcomes \cup {"none", "pending"},
                             by : Proposals \cup {Owner, None}, live : BOOLEAN,
                             tries : 0..MaxTries]]
  /\ request \in [Requests -> [at : {"idle", "confirm", "claim", "execute", "finish", "recover",
                                    "post", "apply", "record"},
                               p : Proposals \cup {None}, claimed : BOOLEAN,
                               ref : Generations \cup {None}]]
  /\ budget \in [edits : 0..MaxEdits, faults : 0..MaxFaults, crashes : 0..MaxCrashes]
  /\ acted \in [Proposals -> Nat]

(* Exactly one request carries a confirmed action out, however many confirm *)
(* it: the confirmed -> executing compare-and-swap has one winner, and     *)
(* followers never get past looking (docs/CONTROLLED_AGENT_ACTIONS.md:61). *)
Acting == {"finish", "recover", "post", "apply", "record"}
OneActor == \A r1, r2 \in Requests :
  request[r1].at \in Acting /\ request[r2].at \in Acting /\ request[r1].p = request[r2].p
    => r1 = r2

(* Nothing is ever done for a proposal that was not confirmed, or that ended *)
(* cancelled or expired, whatever its confirmation raced with              *)
(* (docs/CONTROLLED_AGENT_ACTIONS.md:63).                                  *)
ConsentFirst == \A p \in Proposals :
  proposal[p].status \in {"absent", "awaiting_confirmation", "confirmed", "cancelled", "expired"}
    => acted[p] = 0

(* The action was carried out in the proposal's own name, in a generation up *)
(* to the present one; nothing was done for it, and nothing is under way.   *)
Carried(p) == IF Tool[p] = "personal" THEN p \in marked
              ELSE \E g \in 0..tx.gen : op[g].by = p /\ op[g].state = "succeeded"
NothingDone(p) == IF Tool[p] = "personal" THEN p \notin marked
                  ELSE \A g \in 0..tx.gen : op[g].by = p => op[g].state = "failed"

(* The first generation, and the database has not failed: what the next two *)
(* properties need, since an executor that reads back tells neither the     *)
(* generation nor who marked the row.                                       *)
Undisturbed == tx.gen = 0 /\ budget.faults = 0

(* A proposal is declared failed only when nothing was done for it and     *)
(* nothing is under way: a follower that finds the transaction changed     *)
(* never fails the proposal of the winner that is changing it, and the     *)
(* fate of an operation of somebody else's is not taken for its own        *)
(* (docs/CONTROLLED_AGENT_ACTIONS.md:64 and :106).                         *)
FailsWhenUndone == [][Undisturbed => \A p \in Proposals :
  proposal'[p].status = "failed" /\ proposal[p].status # "failed" => NothingDone(p)]_vars

(* What the owner did by hand is not passed off as the agent's work        *)
(* (_apply_splitwise_operation_state).                                     *)
OwnWorkIsCredited ==
  Undisturbed => \A p \in Proposals : proposal[p].status = "completed" => Carried(p)

(* The fate of a proposal is told once: requests, followers and page loads *)
(* that settle it late agree with whoever settled it first.                *)
Over == {"completed", "cancelled", "expired", "failed", "ambiguous"}
VerdictIsFinal == [][\A p \in Proposals :
  proposal[p].status \in Over => proposal'[p].status = proposal[p].status]_vars

(* Requests run to their end, the worker drives what is queued             *)
(* (SplitwiseJournal's QueuedIsSettled) and the conversation is loaded     *)
(* again.                                                                  *)
Fairness ==
  /\ \A r \in Requests : WF_vars(RequestStep(r))
  /\ \A p \in Proposals : WF_vars(Refresh(p))
  /\ WF_vars(\E state \in Outcomes : Drive(state))

(* A confirmed action does not stay executing for ever, unless a request   *)
(* died.                                                                   *)
ExecutingIsSettled == \A p \in Proposals :
  proposal[p].status = "executing" ~> proposal[p].status \in Over \/ budget.crashes > 0
=============================================================================
