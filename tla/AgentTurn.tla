----------------------------- MODULE AgentTurn -----------------------------
(***************************************************************************)
(* One turn of the agent: app/agent/runtime.py (run_turn and the executor  *)
(* of its tools) and the runs, tool calls and proposals it keeps through   *)
(* app/agent/service.py.                                                   *)
(*                                                                         *)
(* A request carries the client_message_id its browser chose and may be    *)
(* sent again.  Its coroutine works the model's loop; every tool runs in   *)
(* a thread with a session of its own, which a coroutine that is cut off   *)
(* by its deadline or its client cannot stop.  A step is a commit, or what *)
(* a coroutine does between two awaits.                                    *)
(***************************************************************************)
EXTENDS Naturals, FiniteSets

CONSTANTS
  Requests,   \* HTTP requests of one conversation
  Messages,   \* client_message_ids
  MaxCalls,   \* MAX_AGENT_TOOL_CALLS
  MaxTrouble  \* bound: requests that die, threads that break, awaits cut off twice

ASSUME TurnConstants == MaxCalls \in Nat \ {0} /\ MaxTrouble \in Nat

VARIABLES
  conversation,  \* AgentConversation.status
  message,       \* the user messages stored
  run,           \* the AgentRun of each message, its answer, and the evidence it counts
  call,          \* the AgentToolCall rows of each run, with the thread at work on each
  proposal,      \* the AgentActionProposal of each call; all are of one action
  req,           \* the coroutine of each request
  began,         \* history: how often the run of a message was begun
  unwatched,     \* history: messages with a thread whose coroutine has gone on
  broken,        \* history: messages with a thread that a database error ended
  abandoned,     \* history: messages whose request died
  trouble        \* how much of MaxTrouble has happened

vars == <<conversation, message, run, call, proposal, req, began, unwatched, broken,
          abandoned, trouble>>

Calls == 1..MaxCalls
Open == {"proposed", "running"}
Ended == {"completed", "failed", "cancelled"}

Init ==
  /\ conversation = "active"
  /\ message = {}
  /\ run = [m \in Messages |-> [status |-> "none", result |-> "none", answers |-> 0, told |-> {}]]
  /\ call = [m \in Messages |-> [k \in Calls |-> [row |-> "none", thread |-> "none"]]]
  /\ proposal = [m \in Messages |-> [k \in Calls |-> "none"]]
  /\ req \in [Requests ->
       [msg : Messages, pc : {"idle"}, act : BOOLEAN, made : {0}, cut : {"no"}, soft : {FALSE},
        evidence : {{}}, failures : {{}}, offers : {0}, asks : {FALSE}, swept : {{}},
        reply : {"none"}]]
  /\ began = [m \in Messages |-> 0]
  /\ unwatched = {} /\ broken = {} /\ abandoned = {}
  /\ trouble = 0

-----------------------------------------------------------------------------
(* What happens once to a request *)

At(r, pc) == req[r].pc = pc
Msg(r) == req[r].msg
Go(r, pc) == req' = [req EXCEPT ![r].pc = pc]
Reply(r, what) == req' = [req EXCEPT ![r].pc = "done", ![r].reply = what]

Quiet == UNCHANGED <<unwatched, broken, abandoned, trouble>>
RowsKept == UNCHANGED <<call, proposal>>
OnlyRequest == UNCHANGED <<conversation, message, run, began>> /\ RowsKept /\ Quiet

\* append_user_message, under a lock on the conversation.
Append(r) ==
  /\ At(r, "idle")
  /\ \/ /\ conversation = "active"
        /\ message' = message \cup {Msg(r)}
        /\ Go(r, "create")
     \/ /\ conversation # "active"
        /\ Reply(r, "archived")
        /\ UNCHANGED message
  /\ UNCHANGED <<conversation, run, began>> /\ RowsKept /\ Quiet

\* create_run, under the same lock, and what run_turn makes of the run it returns.
Create(r) ==
  LET old == run[Msg(r)]
  IN /\ At(r, "create")
     /\ IF conversation # "active" THEN Reply(r, "archived") /\ UNCHANGED run
        ELSE \/ /\ old.status = "none"
                /\ run' = [run EXCEPT ![Msg(r)].status = "queued"]
                /\ Go(r, "start")
             \/ /\ old.status = "queued" /\ Go(r, "start")
                /\ UNCHANGED run
             \/ /\ old.status = "running" /\ Reply(r, "in progress")
                /\ UNCHANGED run
             \/ /\ old.status \in Ended
                /\ Reply(r, IF old.result = "none" THEN "unavailable" ELSE old.result)
                /\ UNCHANGED run
     /\ UNCHANGED <<conversation, message, began>> /\ RowsKept /\ Quiet

\* Mutant: the status create_run returned is believed.
StartAnyway(r) ==
  /\ At(r, "start")
  /\ run' = [run EXCEPT ![Msg(r)].status = "running"]
  /\ began' = [began EXCEPT ![Msg(r)] = @ + 1]
  /\ Go(r, "think")
  /\ UNCHANGED <<conversation, message>> /\ RowsKept /\ Quiet

\* start_run: of those that found the run queued one begins it.
Start(r) ==
  /\ At(r, "start")
  /\ \/ /\ run[Msg(r)].status = "queued"
        /\ run' = [run EXCEPT ![Msg(r)].status = "running"]
        /\ began' = [began EXCEPT ![Msg(r)] = @ + 1]
        /\ Go(r, "think")
     \/ /\ run[Msg(r)].status # "queued"
        /\ Reply(r, "in progress")
        /\ UNCHANGED <<run, began>>
  /\ UNCHANGED <<conversation, message>> /\ RowsKept /\ Quiet

-----------------------------------------------------------------------------
(* The threads of the tools.  A thread commits and goes on, or finds the    *)
(* row otherwise and raises (refused), or its database fails before or      *)
(* after the commit (broken).                                               *)

Thread(m, k) == call[m][k].thread
Row(m, k) == call[m][k].row
AtWork == {"record", "start", "finish", "fail", "propose", "check", "insert"}

\* The rows a run that is about to end has updated and not committed.
Locked(m, k) == \E r \in Requests : Msg(r) = m /\ k \in req[r].swept

Put(m, k, row, thread) == call' = [call EXCEPT ![m][k] = [row |-> row, thread |-> thread]]

Commits(m, k, ok, row, next) ==
  /\ \/ /\ ok /\ Put(m, k, row, next)
        /\ UNCHANGED <<broken, trouble>>
     \/ /\ ~ok /\ Put(m, k, Row(m, k), "refused")
        /\ UNCHANGED <<broken, trouble>>
     \/ /\ trouble < MaxTrouble
        /\ Put(m, k, Row(m, k), "broken") \/ (ok /\ Put(m, k, row, "broken"))
        /\ broken' = broken \cup {m}
        /\ trouble' = trouble + 1
  /\ UNCHANGED <<conversation, message, run, proposal, req, began, unwatched, abandoned>>

\* record_tool_call holds the run's lock from the look at its status to the commit.
Record(m, k) ==
  \/ /\ Thread(m, k) = "record"
     /\ Commits(m, k, run[m].status = "running", "proposed", "start")
  \/ /\ Thread(m, k) = "propose"
     /\ Commits(m, k, run[m].status = "running", "proposed", "check")

StartCall(m, k) ==
  /\ Thread(m, k) = "start" /\ ~Locked(m, k)
  /\ Commits(m, k, Row(m, k) = "proposed" /\ run[m].status = "running", "running", "prepared")

\* complete_tool_call
Complete(m, k) ==
  /\ Thread(m, k) = "finish" /\ ~Locked(m, k)
  /\ Commits(m, k, Row(m, k) \in Open /\ run[m].status = "running", "completed", "finished")

\* fail_tool_call asks for an open call, not for a running run.
FailCall(m, k) ==
  /\ Thread(m, k) = "fail" /\ ~Locked(m, k)
  /\ Commits(m, k, Row(m, k) \in Open, "failed", "failed")

Awaiting == \E m \in Messages, k \in Calls : proposal[m][k] = "awaiting"

\* create_action_proposal: the conversation and the call are looked at without a lock, and
\* an active proposal of the same action is returned instead of a second.
Check(m, k) ==
  /\ Thread(m, k) = "check"
  /\ Commits(m, k, conversation = "active" /\ Row(m, k) = "proposed", Row(m, k),
             IF Awaiting THEN "offered" ELSE "insert")

Insert(m, k) ==
  /\ Thread(m, k) = "insert"
  /\ proposal' = IF Awaiting THEN proposal ELSE [proposal EXCEPT ![m][k] = "awaiting"]
  /\ \/ /\ Put(m, k, Row(m, k), "offered")
        /\ UNCHANGED <<broken, trouble>>
     \/ /\ trouble < MaxTrouble
        /\ Put(m, k, Row(m, k), "broken")
        /\ broken' = broken \cup {m}
        /\ trouble' = trouble + 1
  /\ UNCHANGED <<conversation, message, run, req, began, unwatched, abandoned>>

Work(m, k) ==
  Record(m, k) \/ StartCall(m, k) \/ Complete(m, k) \/ FailCall(m, k) \/ Check(m, k) \/ Insert(m, k)

-----------------------------------------------------------------------------
(* The model's loop *)

\* Where a coroutine goes whose await was cut off: _failed_turn after the deadline,
\* _cancel_run_safely when the client has gone.
After(cut) == IF cut = "deadline" THEN "fail" ELSE "cancel"

\* A call is made: its thread begins.
Invoke(r, thread, pc) ==
  /\ req[r].made < MaxCalls
  /\ req' = [req EXCEPT ![r].made = @ + 1, ![r].pc = pc]
  /\ call' = [call EXCEPT ![Msg(r)][req[r].made + 1].thread = thread]
  /\ UNCHANGED <<conversation, message, run, proposal, began>> /\ Quiet

Read(r) == At(r, "think") /\ Invoke(r, "record", "prepare")
Propose(r) == At(r, "think") /\ req[r].act /\ Invoke(r, "propose", "offer")

\* An action whose target is not clear makes no call; the second ends the run.
Clarify(r) ==
  /\ At(r, "think") /\ req[r].act /\ req[r].made < MaxCalls
  /\ req' = [req EXCEPT ![r].made = @ + 1, ![r].asks = TRUE,
                        ![r].pc = IF req[r].asks THEN "fail" ELSE "think"]
  /\ OnlyRequest

\* The model is done: the response is composed from what the tools gave.
Composes(r) ==
  IF req[r].act THEN req[r].asks \/ req[r].offers = 1
  ELSE req[r].evidence # {} \/ req[r].failures = {}

Finish(r) ==
  /\ At(r, "think")
  /\ Go(r, IF Composes(r) THEN "answer" ELSE "fail")
  /\ OnlyRequest

\* Mutant: an error of the provider is not handled.
Propagate(r) == At(r, "think") /\ Reply(r, "lost") /\ OnlyRequest

\* The provider fails, a plan is incomplete, a budget is used up.
GiveUp(r) == At(r, "think") /\ Go(r, "fail") /\ OnlyRequest

-----------------------------------------------------------------------------
(* ReadToolExecutor.invoke and _propose_action, as their threads report *)

This(r) == req[r].made
Said(r) == Thread(Msg(r), This(r))

\* Where invoke returns or raises to.
Onward(r, soft) == IF req[r].cut # "no" THEN After(req[r].cut) ELSE IF soft THEN "think" ELSE "fail"

\* _record_failure with a prepared call: the failure counts at once and a thread stores it.
Fails(r, cut, soft) ==
  /\ req' = [req EXCEPT ![r].pc = "failing", ![r].cut = cut, ![r].soft = soft,
                        ![r].failures = @ \cup {This(r)}]
  /\ call' = [call EXCEPT ![Msg(r)][This(r)].thread = "fail"]
  /\ UNCHANGED <<conversation, message, run, proposal, began>> /\ Quiet

\* A call that was never prepared fails in memory only.
Unprepared(r, soft) ==
  /\ req' = [req EXCEPT ![r].pc = Onward(r, soft), ![r].failures = @ \cup {This(r)}]
  /\ OnlyRequest

Prepared(r) ==
  /\ At(r, "prepare")
  /\ \/ Said(r) = "prepared" /\ req[r].cut = "no" /\ Go(r, "read") /\ OnlyRequest
     \/ Said(r) = "prepared" /\ req[r].cut # "no" /\ Fails(r, req[r].cut, FALSE)
     \/ Said(r) = "refused" /\ Unprepared(r, FALSE)
     \/ Said(r) = "broken" /\ Unprepared(r, TRUE)

\* The handler answers, or it raises or takes longer than MAX_TOOL_SECONDS.
Handled(r) ==
  /\ At(r, "read")
  /\ \/ /\ Go(r, "finish")
        /\ call' = [call EXCEPT ![Msg(r)][This(r)].thread = "finish"]
        /\ UNCHANGED <<conversation, message, run, proposal, began>> /\ Quiet
     \/ \E soft \in BOOLEAN : Fails(r, "no", soft)

Finished(r) ==
  /\ At(r, "finish")
  /\ \/ /\ Said(r) = "finished"
        /\ req' = [req EXCEPT ![r].pc = Onward(r, TRUE), ![r].evidence = @ \cup {This(r)}]
        /\ OnlyRequest
     \/ Said(r) = "refused" /\ Fails(r, req[r].cut, FALSE)
     \/ Said(r) = "broken" /\ Fails(r, req[r].cut, TRUE)

\* A failure that could not be stored is raised in place of what was being handled.
Failed(r) ==
  /\ At(r, "failing")
  /\ \/ Said(r) = "failed" /\ Go(r, Onward(r, req[r].soft))
     \/ Said(r) \in {"refused", "broken"} /\ \E pc \in {"fail", Onward(r, req[r].soft)} : Go(r, pc)
  /\ OnlyRequest

Offered(r) ==
  /\ At(r, "offer")
  /\ \/ /\ Said(r) = "offered"
        /\ req' = [req EXCEPT ![r].pc = "think", ![r].offers = @ + 1]
     \/ Said(r) \in {"refused", "broken"} /\ Go(r, "fail")
  /\ OnlyRequest

\* Mutant: a completion under way is not waited for.
CutAtOnce(r) ==
  \E why \in {"deadline", "client"} :
    /\ req[r].cut = "no"
    /\ \/ At(r, "read") /\ Fails(r, why, FALSE)
       \/ /\ \E pc \in {"think", "prepare", "finish", "failing", "offer"} : At(r, pc)
          /\ req' = [req EXCEPT ![r].cut = why, ![r].pc = After(why)]
          /\ OnlyRequest

\* MAX_AGENT_RUN_SECONDS are over, or the client has closed the stream.  Reads are waited
\* for; the thread of a proposal is not.
Cut(r) ==
  \E why \in {"deadline", "client"} :
    /\ req[r].cut = "no"
    /\ \/ /\ At(r, "think")
          /\ req' = [req EXCEPT ![r].cut = why, ![r].pc = After(why)]
          /\ OnlyRequest
       \/ /\ \E pc \in {"prepare", "finish", "failing"} : At(r, pc)
          /\ req' = [req EXCEPT ![r].cut = why]
          /\ OnlyRequest
       \/ At(r, "read") /\ Fails(r, why, FALSE)
       \/ /\ At(r, "offer")
          /\ req' = [req EXCEPT ![r].cut = why, ![r].pc = After(why)]
          /\ unwatched' = unwatched \cup {Msg(r)}
          /\ UNCHANGED <<conversation, message, run, began, broken, abandoned, trouble>> /\ RowsKept

\* Cut off a second time while it waits, or by a loop that does not wait for its tools.
CutAgain(r) ==
  /\ req[r].cut # "no" /\ trouble < MaxTrouble
  /\ \E pc \in {"prepare", "finish", "failing"} : At(r, pc)
  /\ \E pc \in {"fail", "cancel"} : Go(r, pc)
  /\ unwatched' = unwatched \cup {Msg(r)}
  /\ trouble' = trouble + 1
  /\ UNCHANGED <<conversation, message, run, began, broken, abandoned>> /\ RowsKept

-----------------------------------------------------------------------------
(* The end of a run *)

\* stage_assistant_message looks at the conversation without a lock.  In an archived one
\* the answer becomes a failure, and a failure leaves the run as it is.
Stage(r) ==
  /\ At(r, "answer") \/ At(r, "fail")
  /\ IF conversation = "active" THEN Go(r, IF At(r, "answer") THEN "complete" ELSE "sweep")
     ELSE IF At(r, "answer") THEN Go(r, "fail")
     ELSE Reply(r, "lost")
  /\ OnlyRequest

Ends(m, status, result, told) ==
  run' = [run EXCEPT ![m] = [status |-> status, result |-> result, told |-> told,
                             answers |-> @.answers + (IF result = "none" THEN 0 ELSE 1)]]

\* complete_run, with the answer; nobody else ends a run, so it is still open.  What
\* run_turn reads after the commit may fail, which is handled like a failure of the run.
CompleteRun(r) ==
  /\ At(r, "complete")
  /\ run[Msg(r)].status \in {"queued", "running"}
  /\ Ends(Msg(r), "completed", "answer", req[r].evidence)
  /\ \/ Reply(r, "answer") /\ UNCHANGED trouble
     \/ Go(r, "fail") /\ trouble < MaxTrouble /\ trouble' = trouble + 1
  /\ UNCHANGED <<conversation, message, began, unwatched, broken, abandoned>> /\ RowsKept

\* Mutant: only calls that have begun are closed.
SweepRunning(r) ==
  /\ At(r, "sweep") \/ At(r, "cancel")
  /\ req' = [req EXCEPT ![r].pc = IF @ = "sweep" THEN "close" ELSE "close cancelled",
                        ![r].swept = {k \in Calls : Row(Msg(r), k) = "running"}]
  /\ OnlyRequest

\* fail_run and cancel_run close the open calls in one statement...
Sweep(r) ==
  /\ At(r, "sweep") \/ At(r, "cancel")
  /\ req' = [req EXCEPT ![r].pc = IF @ = "sweep" THEN "close" ELSE "close cancelled",
                        ![r].swept = {k \in Calls : Row(Msg(r), k) \in Open}]
  /\ OnlyRequest

Swept(r) ==
  [k \in Calls |-> IF k \in req[r].swept THEN [call[Msg(r)][k] EXCEPT !.row = "failed"] ELSE call[Msg(r)][k]]

Over(r, reply) == req' = [req EXCEPT ![r].pc = "done", ![r].swept = {}, ![r].reply = reply]

\* ...and the run in the next, if it has not ended; both are committed or neither.
Close(r) ==
  /\ \/ /\ At(r, "close") /\ run[Msg(r)].status \in {"queued", "running"}
        /\ Ends(Msg(r), "failed", "error", req[r].evidence)
        /\ Over(r, "error")
        /\ call' = [call EXCEPT ![Msg(r)] = Swept(r)]
     \/ /\ At(r, "close cancelled") /\ run[Msg(r)].status \in {"queued", "running"}
        /\ Ends(Msg(r), "cancelled", "none", {})
        /\ Over(r, "lost")
        /\ call' = [call EXCEPT ![Msg(r)] = Swept(r)]
     \/ /\ At(r, "close") \/ At(r, "close cancelled")
        /\ run[Msg(r)].status \notin {"queued", "running"}
        /\ Over(r, "lost")
        /\ UNCHANGED <<run, call>>
  /\ UNCHANGED <<conversation, message, proposal, began>> /\ Quiet

-----------------------------------------------------------------------------

\* archive_conversation
Archive ==
  /\ conversation = "active"
  /\ conversation' = "archived"
  /\ proposal' = [m \in Messages |-> [k \in Calls |->
       IF proposal[m][k] = "awaiting" THEN "cancelled" ELSE proposal[m][k]]]
  /\ UNCHANGED <<message, run, call, req, began>> /\ Quiet

\* A request dies, with its threads or, when its own session fails, without them.
Die(r) ==
  /\ trouble < MaxTrouble /\ ~At(r, "idle") /\ ~At(r, "done")
  /\ trouble' = trouble + 1
  /\ abandoned' = abandoned \cup {Msg(r)}
  /\ Over(r, "lost")
  /\ \/ call' = [call EXCEPT ![Msg(r)] = [k \in Calls |->
          IF req[r].made # 0 /\ @[k].thread \in AtWork THEN [@[k] EXCEPT !.thread = "none"] ELSE @[k]]]
     \/ UNCHANGED call
  /\ UNCHANGED <<conversation, message, run, proposal, began, unwatched, broken>>

Step(r) ==
  \/ Append(r) \/ Create(r) \/ Start(r)
  \/ Read(r) \/ Propose(r) \/ Clarify(r) \/ Finish(r) \/ GiveUp(r)
  \/ Prepared(r) \/ Handled(r) \/ Finished(r) \/ Failed(r) \/ Offered(r)
  \/ Stage(r) \/ CompleteRun(r) \/ Sweep(r) \/ Close(r)

Next ==
  \/ \E r \in Requests : Step(r) \/ Cut(r) \/ CutAgain(r) \/ Die(r)
  \/ \E m \in Messages, k \in Calls : Work(m, k)
  \/ Archive

Spec ==
  /\ Init /\ [][Next]_vars
  /\ \A r \in Requests : WF_vars(Step(r))
  /\ \A m \in Messages, k \in Calls : WF_vars(Work(m, k))

-----------------------------------------------------------------------------
(* Properties *)

Pcs == {"idle", "create", "start", "think", "prepare", "read", "finish", "failing", "offer",
        "answer", "fail", "cancel", "complete", "sweep", "close", "close cancelled", "done"}
Threads == AtWork \cup {"none", "prepared", "finished", "failed", "offered", "refused", "broken"}

RunRow == [status : {"none", "queued", "running"} \cup Ended, result : {"none", "answer", "error"},
           answers : Nat, told : SUBSET Calls]
CallRow == [row : {"none", "completed", "failed"} \cup Open, thread : Threads]
Coroutine ==
  [msg : Messages, pc : Pcs, act : BOOLEAN, made : 0..MaxCalls, cut : {"no", "deadline", "client"},
   soft : BOOLEAN, evidence : SUBSET Calls, failures : SUBSET Calls, offers : Nat, asks : BOOLEAN,
   swept : SUBSET Calls,
   reply : {"none", "archived", "in progress", "unavailable", "answer", "error", "lost"}]

\* Every variable keeps its type.
TypeOK ==
  /\ conversation \in {"active", "archived"}
  /\ message \subseteq Messages
  /\ run \in [Messages -> RunRow]
  /\ call \in [Messages -> [Calls -> CallRow]]
  /\ proposal \in [Messages -> [Calls -> {"none", "awaiting", "cancelled"}]]
  /\ req \in [Requests -> Coroutine]
  /\ began \in [Messages -> Nat]
  /\ unwatched \subseteq Messages /\ broken \subseteq Messages /\ abandoned \subseteq Messages
  /\ trouble \in 0..MaxTrouble

\* However often a message is sent, one request works on it; its run has one stored answer
\* exactly when it has completed or failed; and everyone who gets an answer gets that one.
OneAnswer ==
  /\ \A m \in Messages :
       /\ began[m] <= 1
       /\ run[m].answers = IF run[m].status \in {"completed", "failed"} THEN 1 ELSE 0
  /\ \A r \in Requests :
       req[r].reply \in {"answer", "error"} => req[r].reply = run[Msg(r)].result

\* What a run counts as evidence is what its ledger of calls holds as completed, also when
\* the deadline falls between the commit of a completion and its report; more only if a
\* database error or a second interruption hid a completion from the coroutine.
EvidenceIsRecorded ==
  \A m \in Messages : run[m].status \in {"completed", "failed"} =>
    LET done == {k \in Calls : Row(m, k) = "completed"}
    IN /\ run[m].told \subseteq done
       /\ m \notin unwatched \cup broken => run[m].told = done

\* A run that failed or was cancelled leaves no call open, unless a thread nobody waits for
\* stored it beside the end of the run; a completed run leaves open only calls that wait
\* for their proposal, unless the database failed.
CallsEndWithTheRun ==
  \A m \in Messages, k \in Calls : Row(m, k) \in Open =>
    /\ run[m].status \in {"failed", "cancelled"} => m \in unwatched
    /\ run[m].status = "completed" => Thread(m, k) = "offered" \/ m \in unwatched \cup broken

\* A run that has begun ends, unless its request dies or its conversation is archived.
TurnEnds ==
  \A m \in Messages :
    run[m].status = "running" ~>
      run[m].status \in Ended \/ m \in abandoned \/ conversation = "archived"
=============================================================================
