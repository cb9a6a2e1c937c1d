----------------------- MODULE SplitwiseJournalProofs -----------------------
(***************************************************************************)
(* Proofs about SplitwiseJournal, for any requests, workers, amounts, ids  *)
(* and bounds: type correctness and that the journal is written ahead of   *)
(* every expense, in production and outside it; and, as long as no lease   *)
(* runs out under its holder, that in production one process at a time     *)
(* executes an operation and that an operation queued for the worker       *)
(* leaves at most one live expense.  In production with one request        *)
(* thread, while nobody dies and nothing is retried or removed: a          *)
(* transaction shown as posted has its expense, which is let go only once  *)
(* Splitwise has deleted it.                                               *)
(***************************************************************************)
EXTENDS SplitwiseJournal, TLAPS

ExpenseRow ==
  [state : {"absent", "live", "deleted"}, mark : Ops \cup {None}, cost : Amounts \cup {None}]

\* The functions are functions of what TypeOK takes their values at.
Functions ==
  /\ expense = [i \in Ids |-> expense[i]]
  /\ proc = [p \in Procs |-> proc[p]]

\* A process in one of these works on a row that is in the journal.
Working == {"go", "look", "done", "call", "ok", "rejected", "ambiguous",
            "claimed", "returned", "raised"}

TriedExists == \A o \in Ops : op[o].tried => op[o].state # "none"
WorkExists == \A p \in Procs : proc[p].pc \in Working => op[proc[p].op].state # "none"
EventExists == \A o \in Ops : event[o].state # "absent" => op[o].state # "none"
CallTried == \A p \in Procs : proc[p].pc = "call" => op[proc[p].op].tried
Marked == \A i \in Ids : expense[i].state # "absent" => expense[i].mark \in Ops

\* The inductive invariant.  An expense appears under the mark of an operation
\* whose process is about to call, so CallTried is what makes WrittenAhead hold;
\* the rest says that an attempt, once counted, is never forgotten: a row is
\* inserted only where there is none, and whoever works on a row, or will be
\* given it by an event, finds it in the journal.
IInv == /\ TypeOK
        /\ Functions
        /\ TriedExists
        /\ WorkExists
        /\ EventExists
        /\ CallTried
        /\ Marked
        /\ WrittenAhead

-----------------------------------------------------------------------------
(* What a step may do to each variable. *)

TxKept == tx' \in TxRow /\ latest' \in Ops \cup {None}

OpsKept ==
  /\ op' \in [Ops -> OpRow]
  /\ \A o \in Ops : /\ op[o].state # "none" => op'[o].state # "none"
                    /\ op[o].tried => op'[o].tried
                    /\ op'[o].tried => op'[o].state # "none"

EventsKept ==
  /\ event' \in [Ops -> EventRow]
  /\ \A o \in Ops : event'[o].state # "absent" =>
                      event[o].state # "absent" \/ op'[o].state # "none"

ExpensesKept ==
  /\ expense' \in [Ids -> ExpenseRow]
  /\ \A i \in Ids : expense'[i].state # "absent" =>
       \/ expense[i].state # "absent" /\ expense'[i].mark = expense[i].mark
       \/ expense'[i].mark \in Ops /\ op[expense'[i].mark].tried

\* A position a process may move to.
Sound(q) == /\ q.pc \in Working => op'[q.op].state # "none"
            /\ q.pc = "call" => op'[q.op].tried

ProcsKept ==
  /\ proc' = [p \in Procs |-> proc'[p]]
  /\ \A p \in Procs : /\ proc'[p] \in Positions(p)
                      /\ proc'[p] = proc[p] \/ Sound(proc'[p])

Budgets == [requests : 0..MaxRequests, crashes : 0..MaxCrashes, overruns : 0..MaxOverruns]

StepKept ==
  TxKept /\ OpsKept /\ EventsKept /\ ExpensesKept /\ ProcsKept /\ budget' \in Budgets

LEMMA TypeParts ==
  IInv => /\ tx \in TxRow /\ op \in [Ops -> OpRow] /\ latest \in Ops \cup {None}
          /\ event \in [Ops -> EventRow] /\ expense \in [Ids -> ExpenseRow]
          /\ proc = [p \in Procs |-> proc[p]] /\ \A p \in Procs : proc[p] \in Positions(p)
          /\ budget \in Budgets
  BY DEF IInv, TypeOK, Functions, ExpenseRow, Budgets

\* An operation that a session, a claimed event or a settled call names.
LEMMA ProcOp ==
  ASSUME IInv, NEW p \in Procs, proc[p].pc \in Working \cup {"insert"}
  PROVE  proc[p].op \in Ops
<1>1. proc[p] \in Positions(p)
  BY TypeParts
<1> QED
  BY <1>1 DEF Positions, Sessions, Idle, Working

LEMMA Preserved == ASSUME IInv, StepKept PROVE IInv'
<1>1. TypeOK' /\ Functions'
  BY DEF StepKept, TxKept, OpsKept, EventsKept, ExpensesKept, ProcsKept, TypeOK, Functions,
         ExpenseRow, Budgets
<1>2. TriedExists'
  BY DEF StepKept, OpsKept, TriedExists
<1>3. EventExists'
  BY DEF IInv, StepKept, OpsKept, EventsKept, EventExists
<1>4. WorkExists' /\ CallTried'
  <2>1. ASSUME NEW p \in Procs, proc'[p] = proc[p], proc[p].pc \in Working
        PROVE  /\ op'[proc[p].op].state # "none"
               /\ proc[p].pc = "call" => op'[proc[p].op].tried
    <3>1. proc[p].op \in Ops
      BY <2>1, ProcOp
    <3> QED
      BY <2>1, <3>1 DEF IInv, StepKept, OpsKept, WorkExists, CallTried
  <2> QED
    BY <2>1 DEF StepKept, ProcsKept, Sound, WorkExists, CallTried, Working
<1>5. Marked' /\ WrittenAhead'
  BY DEF IInv, StepKept, OpsKept, ExpensesKept, Marked, WrittenAhead
<1> QED
  BY <1>1, <1>2, <1>3, <1>4, <1>5 DEF IInv

LEMMA OpsSame == ASSUME IInv, op' = op PROVE OpsKept
  BY TypeParts DEF IInv, OpsKept, TriedExists

LEMMA EventsSame == ASSUME IInv, event' = event PROVE EventsKept
  BY TypeParts DEF EventsKept

LEMMA ExpensesSame == ASSUME IInv, expense' = expense PROVE ExpensesKept
  BY TypeParts DEF ExpensesKept

LEMMA TxSame == ASSUME IInv, tx' = tx, latest' = latest PROVE TxKept
  BY TypeParts DEF TxKept

LEMMA ProcsSame == ASSUME IInv, proc' = proc PROVE ProcsKept
  BY TypeParts DEF ProcsKept

\* One process moves.
LEMMA ProcMoves ==
  ASSUME IInv, NEW p \in Procs, NEW q \in Positions(p), Sound(q), proc' = [proc EXCEPT ![p] = q]
  PROVE  ProcsKept
<1>1. proc = [r \in Procs |-> proc[r]] /\ \A r \in Procs : proc[r] \in Positions(r)
  BY TypeParts
<1>2. proc' = [r \in Procs |-> IF r = p THEN q ELSE proc[r]]
  BY <1>1
<1>3. \A r \in Procs : proc'[r] = IF r = p THEN q ELSE proc[r]
  BY <1>2
<1> QED
  BY <1>1, <1>2, <1>3 DEF ProcsKept

LEMMA IdleSound == Sound(Idle) /\ \A p : Idle \in Positions(p)
  BY DEF Sound, Idle, Working, Positions

LEMMA FlushedOp ==
  ASSUME NEW new \in OpRow, NEW loaded \in OpRow, NEW current \in OpRow
  PROVE  /\ Flushed(new, loaded, current) \in OpRow
         /\ Flushed(new, loaded, current).state \in {new.state, current.state}
         /\ new.tried = loaded.tried => Flushed(new, loaded, current).tried = current.tried
<1>1. Flushed(new, loaded, current) =
   [state |-> IF new.state = loaded.state THEN current.state ELSE new.state,
    tried |-> IF new.tried = loaded.tried THEN current.tried ELSE new.tried,
    lease |-> IF new.lease = loaded.lease THEN current.lease ELSE new.lease,
    expense |-> IF new.expense = loaded.expense THEN current.expense ELSE new.expense,
    request |-> IF new.request = loaded.request THEN current.request ELSE new.request]
  BY SMT DEF OpRow, Flushed
<1> QED
  BY <1>1 DEF OpRow

LEMMA FlushedTx ==
  ASSUME NEW new \in TxRow, NEW loaded \in TxRow, NEW current \in TxRow
  PROVE  Flushed(new, loaded, current) \in TxRow
<1>1. Flushed(new, loaded, current) =
   [status |-> IF new.status = loaded.status THEN current.status ELSE new.status,
    expense |-> IF new.expense = loaded.expense THEN current.expense ELSE new.expense,
    gen |-> IF new.gen = loaded.gen THEN current.gen ELSE new.gen,
    amount |-> IF new.amount = loaded.amount THEN current.amount ELSE new.amount,
    splitwise |-> IF new.splitwise = loaded.splitwise THEN current.splitwise ELSE new.splitwise,
    saved |-> IF new.saved = loaded.saved THEN current.saved ELSE new.saved]
  BY SMT DEF TxRow, Flushed
<1> QED
  BY <1>1 DEF TxRow

SessionPcs == {"insert", "go", "look", "done", "call", "ok", "rejected", "ambiguous"}

LEMMA SessionOf ==
  ASSUME IInv, NEW p \in Procs, proc[p].pc \in SessionPcs
  PROVE  proc[p] \in Sessions
<1>1. proc[p] \in Positions(p)
  BY TypeParts
<1> QED
  BY <1>1 DEF Positions, Idle, SessionPcs

\* The fields of a session, and the row it works on.
LEMMA SessionFields ==
  ASSUME NEW me \in Sessions
  PROVE  /\ me.pc \in SessionPcs /\ me.op \in Ops /\ me.op.action \in Actions
         /\ me.tx \in TxRow /\ me.seen \in OpRow /\ me.mine \in TxRow
         /\ me.payload \in Amounts \cup {None} /\ me.target \in Ids \cup {None}
  BY DEF Sessions, SessionPcs, Ops

LEMMA SessionRow ==
  ASSUME IInv, NEW p \in Procs, proc[p].pc \in SessionPcs, proc[p].pc # "insert"
  PROVE  op[proc[p].op] \in OpRow /\ op[proc[p].op].state # "none"
<1>1. proc[p].op \in Ops
  BY SessionOf, SessionFields
<1>2. proc[p].pc \in Working
  BY DEF SessionPcs, Working
<1> QED
  BY <1>1, <1>2, TypeParts DEF IInv, WorkExists

LEMMA InitIInv == Init => IInv
<1> SUFFICES ASSUME Init PROVE IInv
  OBVIOUS
<1>1. 0 \in 0..MaxRequests /\ 0 \in 0..MaxCrashes /\ 0 \in 0..MaxOverruns /\ 0 \in 0..MaxTries
  BY JournalConstants
<1>2. tx \in TxRow /\ latest \in Ops \cup {None}
  BY DEF Init, TxRow, Statuses
<1>3. op \in [Ops -> OpRow] /\ event \in [Ops -> EventRow]
  BY <1>1 DEF Init, OpRow, OpStates, EventRow, EventStates
<1>4. expense \in [Ids -> ExpenseRow] /\ budget \in Budgets
  BY <1>1 DEF Init, ExpenseRow, Budgets
<1>5. proc = [p \in Procs |-> proc[p]] /\ \A p \in Procs : proc[p] = Idle
  BY DEF Init
<1>6. TypeOK /\ Functions
  BY <1>2, <1>3, <1>4, <1>5, IdleSound DEF TypeOK, Functions, ExpenseRow, Budgets
<1>7. TriedExists /\ EventExists /\ Marked /\ WrittenAhead
  BY DEF Init, TriedExists, EventExists, Marked, WrittenAhead
<1>8. WorkExists /\ CallTried
  BY <1>5 DEF WorkExists, CallTried, Idle, Working
<1> QED
  BY <1>6, <1>7, <1>8 DEF IInv

-----------------------------------------------------------------------------
(* Where a process may go. *)

\* A session of the model, with another position or target.
LEMMA SessionMoves ==
  ASSUME IInv, NEW p \in Procs, proc[p].pc \in SessionPcs,
         NEW pc \in SessionPcs, NEW target \in Ids \cup {None},
         pc \in Working => op'[proc[p].op].state # "none",
         pc = "call" => op'[proc[p].op].tried,
         proc' = [proc EXCEPT ![p] = [proc[p] EXCEPT !.pc = pc, !.target = target]]
  PROVE  ProcsKept
<1> DEFINE q == [proc[p] EXCEPT !.pc = pc, !.target = target]
<1>1. proc[p] \in Sessions
  BY SessionOf
<1>2. q \in Sessions /\ q.pc = pc /\ q.op = proc[p].op
  BY <1>1 DEF Sessions, SessionPcs
<1>3. q \in Positions(p) /\ Sound(q)
  BY <1>2 DEF Positions, Sound
<1>4. proc' = [proc EXCEPT ![p] = q]
  OBVIOUS
<1> HIDE DEF q
<1> QED
  BY <1>3, <1>4, ProcMoves

\* A process returns, or raises.
LEMMA EndMoves ==
  ASSUME IInv, NEW p \in Procs, proc[p].pc \in Working \cup {"insert"},
         NEW how \in {"returned", "raised"}, op'[proc[p].op].state # "none",
         proc' = [proc EXCEPT ![p] = End(p, how)]
  PROVE  ProcsKept
<1>1. proc[p].op \in Ops
  BY ProcOp
<1>2. CASE p \in Workers
  <2>1. /\ End(p, how) = [pc |-> how, op |-> proc[p].op]
        /\ [pc |-> how, op |-> proc[p].op] \in Positions(p)
    BY <1>1, <1>2 DEF End, Positions
  <2>2. Sound([pc |-> how, op |-> proc[p].op])
    BY DEF Sound
  <2> QED
    BY <2>1, <2>2, ProcMoves
<1>3. CASE p \notin Workers
  BY <1>3, IdleSound, ProcMoves DEF End
<1> QED
  BY <1>2, <1>3

LEMMA RaiseMoves ==
  ASSUME IInv, NEW p \in Procs, proc[p].pc \in Working \cup {"insert"}, NEW s,
         op'[proc[p].op].state # "none", proc' = [proc EXCEPT ![p] = Raise(p, s)]
  PROVE  ProcsKept
<1>1. PICK how \in {"returned", "raised"} : Raise(p, s) = End(p, how)
  BY DEF Raise
<1> QED
  BY <1>1, EndMoves

\* A process becomes idle.
LEMMA IdleMoves ==
  ASSUME IInv, NEW p \in Procs, proc' = [proc EXCEPT ![p] = Idle]
  PROVE  ProcsKept
  BY IdleSound, ProcMoves

LEMMA EntryShape ==
  \A o, t, row : Entry(o, t, row) \in {"done", "look", "go"}
  BY DEF Entry

LEMMA SessionTyped ==
  ASSUME NEW o \in Ops, NEW t \in TxRow, NEW row \in OpRow, NEW mine \in TxRow,
         NEW payload \in Amounts \cup {None}
  PROVE  /\ Session(o, t, row, mine, payload) \in Sessions
         /\ Session(o, t, row, mine, payload).op = o
         /\ Session(o, t, row, mine, payload).pc \in {"done", "look", "go"}
<1>1. Entry(o, t, row) \in {"done", "look", "go"}
  BY EntryShape
<1>2. Target(o, t, row) \in Ids \cup {None}
  BY DEF Target, TxRow, OpRow
<1> QED
  BY <1>1, <1>2 DEF Session, Sessions

\* A session that is started, and one whose insert is still open.
LEMMA SessionStarts ==
  ASSUME IInv, NEW p \in Procs, NEW o \in Ops, NEW t \in TxRow, NEW row \in OpRow,
         NEW mine \in TxRow, NEW payload \in Amounts \cup {None}, op'[o].state # "none",
         proc' = [proc EXCEPT ![p] = Session(o, t, row, mine, payload)]
  PROVE  ProcsKept
<1> DEFINE q == Session(o, t, row, mine, payload)
<1>1. q \in Sessions /\ q.op = o /\ q.pc \in {"done", "look", "go"}
  BY SessionTyped
<1>2. q \in Positions(p) /\ Sound(q)
  BY <1>1 DEF Positions, Sound
<1>3. proc' = [proc EXCEPT ![p] = q]
  OBVIOUS
<1> HIDE DEF q
<1> QED
  BY <1>2, <1>3, ProcMoves

LEMMA InsertStarts ==
  ASSUME IInv, NEW p \in Procs, NEW o \in Ops, NEW t \in TxRow, NEW row \in OpRow,
         NEW mine \in TxRow, NEW payload \in Amounts \cup {None},
         proc' = [proc EXCEPT ![p] = [Session(o, t, row, mine, payload) EXCEPT !.pc = "insert"]]
  PROVE  ProcsKept
<1> DEFINE s == Session(o, t, row, mine, payload)
           q == [s EXCEPT !.pc = "insert"]
<1>1. s \in Sessions
  BY SessionTyped
<1>2. proc' = [proc EXCEPT ![p] = q]
  OBVIOUS
<1> HIDE DEF s
<1>3. q \in Sessions /\ q.pc = "insert"
  BY <1>1 DEF Sessions
<1> HIDE DEF q
<1>4. q \in Positions(p) /\ Sound(q)
  BY <1>3 DEF Positions, Sound, Working
<1> QED
  BY <1>2, <1>4, ProcMoves

-----------------------------------------------------------------------------
(* What becomes of the rows. *)

LEMMA OpChanges ==
  ASSUME IInv, NEW o \in Ops, NEW row \in OpRow, row.state # "none",
         op[o].tried => row.tried, op' = [op EXCEPT ![o] = row]
  PROVE  OpsKept /\ op'[o] = row
<1>1. op \in [Ops -> OpRow]
  BY TypeParts
<1>2. \A r \in Ops : op'[r] = IF r = o THEN row ELSE op[r]
  BY <1>1
<1> QED
  BY <1>1, <1>2 DEF IInv, OpsKept, TriedExists

LEMMA CompletedTyped ==
  ASSUME NEW me \in Sessions, NEW t \in TxRow, NEW row \in OpRow
  PROVE  /\ CompletedTx(me, t) \in TxRow
         /\ CompletedOp(me, row) \in OpRow
         /\ CompletedOp(me, row).state = "succeeded"
         /\ CompletedOp(me, row).tried = row.tried
<1>1. /\ me.target \in Ids \cup {None} /\ me.payload \in Amounts \cup {None}
      /\ me.op.action \in Actions
  BY SessionFields
<1>2. CompletedOp(me, row) = [row EXCEPT !.state = "succeeded", !.lease = "none",
        !.expense = IF me.op.action = "create" THEN me.target ELSE row.expense]
  BY DEF CompletedOp
<1>3. /\ CompletedOp(me, row) \in OpRow /\ CompletedOp(me, row).state = "succeeded"
      /\ CompletedOp(me, row).tried = row.tried
  BY <1>1, <1>2 DEF OpRow, OpStates
<1>4. CASE me.op.action = "create"
  <2>1. CompletedTx(me, t) =
          [t EXCEPT !.status = "posted", !.expense = me.target, !.splitwise = t.amount]
    BY <1>4 DEF CompletedTx
  <2>2. CompletedTx(me, t) \in TxRow
    BY <1>1, <2>1 DEF TxRow, Statuses
  <2> QED
    BY <1>3, <2>2
<1>5. CASE me.op.action = "update"
  <2> DEFINE gen == IF t.splitwise # t.amount THEN t.gen + 1 ELSE t.gen
  <2>1. CompletedTx(me, t) = [t EXCEPT !.status = "posted", !.splitwise = t.amount,
                                       !.saved = me.payload, !.gen = gen]
    BY <1>5 DEF CompletedTx
  <2>2. gen \in Nat
    BY DEF TxRow
  <2> HIDE DEF gen
  <2>3. CompletedTx(me, t) \in TxRow
    BY <1>1, <2>1, <2>2 DEF TxRow, Statuses
  <2> QED
    BY <1>3, <2>3
<1>6. CASE me.op.action \in {"delete", "remove"}
  <2> DEFINE status == IF me.op.action = "remove" THEN "removed" ELSE "ask_user"
  <2>1. CompletedTx(me, t) = [t EXCEPT !.status = status, !.expense = None, !.splitwise = None,
                                       !.gen = t.gen + 1]
    BY <1>6 DEF CompletedTx
  <2>2. status \in Statuses
    BY DEF Statuses
  <2> HIDE DEF status
  <2>3. t.gen + 1 \in Nat /\ None \in Ids \cup {None} /\ None \in Amounts \cup {None}
    BY DEF TxRow
  <2> DEFINE gen == t.gen + 1
  <2>4. CompletedTx(me, t) = [t EXCEPT !.status = status, !.expense = None, !.splitwise = None,
                                       !.gen = gen]
    BY <2>1
  <2>5. gen \in Nat
    BY <2>3
  <2> HIDE DEF gen
  <2>6. CompletedTx(me, t) \in TxRow
    BY <2>2, <2>4, <2>5 DEF TxRow
  <2> QED
    BY <1>3, <2>6
<1> QED
  BY <1>1, <1>4, <1>5, <1>6 DEF Actions

LEMMA StatusTyped ==
  ASSUME NEW o \in Ops
  PROVE  /\ QueuedStatus(o) \in Statuses
         /\ \A result \in {"rejected", "ambiguous"} : FailedStatus(o, result) \in Statuses
<1>1. o.action \in {"create", "update", "delete", "remove"}
  BY DEF Ops, Actions
<1>2. QueuedStatus(o) \in Statuses
  BY <1>1 DEF QueuedStatus, Statuses
<1>3. FailedStatus(o, "rejected") \in Statuses
  BY <1>1 DEF FailedStatus, Statuses, Removes
<1>4. FailedStatus(o, "ambiguous") \in Statuses
  BY <1>1 DEF FailedStatus, Statuses, Removes
<1> QED
  BY <1>2, <1>3, <1>4

LEMMA SetStatusTyped ==
  ASSUME NEW t \in TxRow, NEW status \in Statuses
  PROVE  [t EXCEPT !.status = status] \in TxRow
  BY DEF TxRow

-----------------------------------------------------------------------------
(* The steps that execute an operation. *)

LEMMA LookKept == ASSUME IInv, NEW p \in Procs, Look(p) PROVE StepKept
<1> DEFINE me == proc[p]
           done == (Shown(me) = {}) = Removes(me.op)
           pc == IF done THEN "done" ELSE "go"
           target == IF done /\ me.op.action = "create"
                     THEN CHOOSE i \in Shown(me) : TRUE ELSE me.target
<1>1. me.pc = "look" /\ UNCHANGED <<tx, op, latest, event, expense, budget>>
  BY DEF Look
<1>2. me \in Sessions /\ op[me.op].state # "none"
  BY <1>1, SessionOf, SessionRow DEF SessionPcs
<1>3. target \in Ids \cup {None}
  <2>1. me.target \in Ids \cup {None}
    BY <1>2, SessionFields
  <2>2. ASSUME done, me.op.action = "create" PROVE Shown(me) # {}
    BY <2>2 DEF Removes
  <2>3. Shown(me) \subseteq Ids
    BY DEF Shown
  <2> QED
    BY <2>1, <2>2, <2>3
<1>4. ProcsKept
  <2>1. CASE proc' = [proc EXCEPT ![p] = Raise(p, me.seen.state)]
    BY <1>1, <1>2, <2>1, RaiseMoves DEF Working
  <2>2. ASSUME proc' = [proc EXCEPT ![p] = [me EXCEPT !.pc = pc, !.target = target]]
        PROVE  ProcsKept
    <3>1. pc \in SessionPcs /\ pc # "call"
      BY DEF SessionPcs
    <3> HIDE DEF pc, target
    <3> QED
      BY <1>1, <1>2, <1>3, <2>2, <3>1, SessionMoves DEF SessionPcs
  <2> QED
    BY <2>1, <2>2 DEF Look
<1> QED
  BY <1>1, <1>4, TypeParts, TxSame, OpsSame, EventsSame, ExpensesSame DEF StepKept

LEMMA LostInsertKept == ASSUME IInv, NEW p \in Procs, LostInsert(p) PROVE StepKept
<1> DEFINE me == proc[p]
<1>1. /\ me.pc = "insert" /\ op[me.op].state # "none"
      /\ proc' = [proc EXCEPT ![p] = Session(me.op, tx, op[me.op], tx, me.payload)]
      /\ UNCHANGED <<tx, op, latest, event, expense, budget>>
  BY DEF LostInsert
<1>2. /\ me.op \in Ops /\ me.payload \in Amounts \cup {None}
      /\ op[me.op] \in OpRow /\ tx \in TxRow
  BY <1>1, SessionOf, SessionFields, TypeParts DEF SessionPcs
<1>3. op'[me.op].state # "none"
  BY <1>1
<1>4. ProcsKept
  <2> HIDE DEF me
  <2> QED
    BY <1>1, <1>2, <1>3, SessionStarts
<1> QED
  BY <1>1, <1>4, TypeParts, TxSame, OpsSame, EventsSame, ExpensesSame DEF StepKept

LEMMA RecoverKept == ASSUME IInv, NEW p \in Procs, Recover(p) PROVE StepKept
<1> DEFINE me == proc[p]
           replay == me.op.action = "create" /\ me.seen.state = "succeeded"
           new == IF replay THEN [me.mine EXCEPT !.status = "posted", !.expense = me.target]
                  ELSE CompletedTx(me, me.mine)
           row == Flushed(CompletedOp(me, me.seen), me.seen, op[me.op])
<1>1. /\ me.pc = "done" /\ tx' = Flushed(new, me.tx, tx)
      /\ op' = op \/ op' = [op EXCEPT ![me.op] = row]
      /\ proc' = [proc EXCEPT ![p] = End(p, "returned")]
      /\ UNCHANGED <<latest, event, expense, budget>>
  BY DEF Recover
<1>2. me \in Sessions /\ op[me.op] \in OpRow /\ op[me.op].state # "none"
  BY <1>1, SessionOf, SessionRow DEF SessionPcs
<1>3. /\ me.op \in Ops /\ me.tx \in TxRow /\ me.seen \in OpRow /\ me.mine \in TxRow
      /\ me.target \in Ids \cup {None}
  BY <1>2, SessionFields
<1>4. new \in TxRow
  <2>1. [me.mine EXCEPT !.status = "posted", !.expense = me.target] \in TxRow
    BY <1>3 DEF TxRow, Statuses
  <2>2. CompletedTx(me, me.mine) \in TxRow
    BY <1>2, <1>3, CompletedTyped
  <2> QED
    BY <2>1, <2>2
<1>5. tx' \in TxRow
  <2> HIDE DEF new
  <2> QED
    BY <1>1, <1>3, <1>4, TypeParts, FlushedTx
<1>6. row \in OpRow /\ row.state # "none" /\ row.tried = op[me.op].tried
  <2> DEFINE done == CompletedOp(me, me.seen)
  <2>1. done \in OpRow /\ done.state = "succeeded" /\ done.tried = me.seen.tried
    BY <1>2, <1>3, CompletedTyped
  <2>2. row = Flushed(done, me.seen, op[me.op])
    OBVIOUS
  <2> HIDE DEF done, row, me
  <2>3. /\ row \in OpRow /\ row.state \in {done.state, op[me.op].state}
        /\ done.tried = me.seen.tried => row.tried = op[me.op].tried
    BY <1>2, <1>3, <2>1, <2>2, FlushedOp
  <2> QED
    BY <1>2, <2>1, <2>3
<1>7. OpsKept /\ op'[me.op].state # "none"
  <2> HIDE DEF row
  <2>1. CASE op' = op
    BY <1>2, <2>1, OpsSame
  <2>2. CASE op' = [op EXCEPT ![me.op] = row]
    BY <1>3, <1>6, <2>2, OpChanges
  <2> QED
    BY <1>1, <2>1, <2>2
<1>8. ProcsKept
  BY <1>1, <1>7, EndMoves DEF Working
<1> QED
  BY <1>1, <1>5, <1>7, <1>8, TypeParts, EventsSame, ExpensesSame DEF StepKept, TxKept

LEMMA EnqueuedTyped ==
  ASSUME NEW e \in EventRow PROVE Enqueued(e) \in EventRow
<1>1. 0 \in 0..MaxTries
  BY JournalConstants
<1>2. [e EXCEPT !.state = "ready"] \in EventRow
  BY DEF EventRow, EventStates
<1>3. [e EXCEPT !.state = "ready", !.tries = 0] \in EventRow
  BY <1>1 DEF EventRow, EventStates
<1> QED
  BY <1>2, <1>3 DEF Enqueued

LEMMA QueueKept == ASSUME IInv, NEW p \in Procs, Queue(p) PROVE StepKept
<1> DEFINE me == proc[p]
           row == [me.seen EXCEPT !.state = "pending", !.lease = "none", !.expense = me.target]
           new == [me.mine EXCEPT !.status = QueuedStatus(me.op)]
<1>1. /\ me.pc \in {"insert", "go"}
      /\ tx' = Flushed(new, me.tx, tx)
      /\ event' = [event EXCEPT ![me.op] = Enqueued(event[me.op])]
      /\ proc' = [proc EXCEPT ![p] = Idle] /\ expense' = expense /\ budget' = budget
      /\ latest' \in {me.op, latest}
  BY DEF Queue
<1>2. /\ me.op \in Ops /\ me.tx \in TxRow /\ me.seen \in OpRow /\ me.mine \in TxRow
      /\ me.target \in Ids \cup {None} /\ op[me.op] \in OpRow /\ event[me.op] \in EventRow
      /\ tx \in TxRow
  BY <1>1, SessionOf, SessionFields, TypeParts DEF SessionPcs
<1>3. row \in OpRow /\ row.state = "pending" /\ row.tried = me.seen.tried
  BY <1>2 DEF OpRow, OpStates
<1>4. OpsKept /\ op'[me.op].state # "none"
  <2>1. CASE op[me.op].state = "none" /\ op' = [op EXCEPT ![me.op] = row]
    <3>1. ~op[me.op].tried
      BY <1>2, <2>1 DEF IInv, TriedExists
    <3> HIDE DEF row
    <3> QED
      BY <1>2, <1>3, <2>1, <3>1, OpChanges
  <2>2. CASE me.pc = "go" /\ op' = [op EXCEPT ![me.op] = Flushed(row, me.seen, op[me.op])]
    <3> DEFINE flushed == Flushed(row, me.seen, op[me.op])
    <3>1. op[me.op].state # "none"
      BY <2>2, SessionRow DEF SessionPcs
    <3>2. op' = [op EXCEPT ![me.op] = flushed]
      BY <2>2
    <3> HIDE DEF row
    <3>3. /\ flushed \in OpRow /\ flushed.state \in {row.state, op[me.op].state}
          /\ row.tried = me.seen.tried => flushed.tried = op[me.op].tried
      BY <1>2, <1>3, FlushedOp
    <3>4. flushed \in OpRow /\ flushed.state # "none" /\ flushed.tried = op[me.op].tried
      BY <1>3, <3>1, <3>3
    <3> HIDE DEF flushed
    <3>5. OpsKept /\ op'[me.op] = flushed
      BY <1>2, <3>2, <3>4, OpChanges
    <3> QED
      BY <3>4, <3>5
  <2> QED
    BY <2>1, <2>2 DEF Queue
<1>5. tx' \in TxRow
  <2>1. QueuedStatus(me.op) \in Statuses
    BY <1>2, StatusTyped
  <2>2. new \in TxRow
    BY <1>2, <2>1 DEF TxRow
  <2> HIDE DEF new
  <2> QED
    BY <1>1, <1>2, <2>2, FlushedTx
<1>6. EventsKept
  <2> DEFINE e == Enqueued(event[me.op])
  <2>1. event' = [event EXCEPT ![me.op] = e]
    BY <1>1
  <2>2. e \in EventRow
    BY <1>2, EnqueuedTyped
  <2> HIDE DEF e
  <2> QED
    BY <1>4, <2>1, <2>2, TypeParts DEF EventsKept
<1> QED
  BY <1>1, <1>2, <1>4, <1>5, <1>6, TypeParts, IdleMoves, ExpensesSame DEF StepKept, TxKept

LEMMA AcquireKept == ASSUME IInv, NEW p \in Procs, Acquire(p) PROVE StepKept
<1> DEFINE me == proc[p]
           old == op[me.op]
           row == [Leased(old) EXCEPT !.expense = IF me.op.action = "create" THEN @ ELSE me.target]
<1>1. me.pc = "go" /\ UNCHANGED <<latest, event, expense, budget>>
  BY DEF Acquire
<1>2. /\ me.op \in Ops /\ me.tx \in TxRow /\ me.mine \in TxRow /\ tx \in TxRow
      /\ me.target \in Ids \cup {None} /\ old \in OpRow /\ old.state # "none"
  BY <1>1, SessionOf, SessionFields, SessionRow, TypeParts DEF SessionPcs
<1>3. CASE proc' = [proc EXCEPT ![p] = Raise(p, old.state)] /\ UNCHANGED <<tx, op>>
  <2>1. ProcsKept
    BY <1>1, <1>2, <1>3, RaiseMoves DEF Working
  <2> QED
    BY <1>1, <1>3, <2>1, TypeParts, TxSame, OpsSame, EventsSame, ExpensesSame DEF StepKept
<1>4. ASSUME op' = [op EXCEPT ![me.op] = row], tx' = Flushed(me.mine, me.tx, tx),
             proc' = [proc EXCEPT ![p].pc = "call"]
      PROVE  StepKept
  <2>1. row \in OpRow /\ row.state = "in_flight" /\ row.tried
    BY <1>2 DEF Leased, OpRow, OpStates
  <2>2. OpsKept /\ op'[me.op] = row
    <3> HIDE DEF row
    <3> QED
      BY <1>2, <1>4, <2>1, OpChanges
  <2>3. op'[me.op].state # "none" /\ op'[me.op].tried
    BY <2>1, <2>2
  <2>4. tx' \in TxRow
    BY <1>2, <1>4, FlushedTx
  <2>5. proc' = [proc EXCEPT ![p] = [proc[p] EXCEPT !.pc = "call", !.target = proc[p].target]]
    <3>1. proc[p] \in Sessions
      BY <1>1, SessionOf DEF SessionPcs
    <3>2. [proc[p] EXCEPT !.pc = "call"] =
            [proc[p] EXCEPT !.pc = "call", !.target = proc[p].target]
      BY <3>1 DEF Sessions
    <3> QED
      BY <1>4, <3>2
  <2>6. ProcsKept
    BY <1>1, <1>2, <2>3, <2>5, SessionMoves DEF SessionPcs
  <2> QED
    BY <1>1, <2>2, <2>4, <2>6, TypeParts, EventsSame, ExpensesSame DEF StepKept, TxKept
<1> QED
  BY <1>3, <1>4 DEF Acquire

LEMMA SucceedKept == ASSUME IInv, NEW p \in Procs, Succeed(p) PROVE StepKept
<1> DEFINE me == proc[p]
           row == CompletedOp(me, op[me.op])
<1>1. /\ me.pc = "ok" /\ tx' = CompletedTx(me, tx) /\ op' = [op EXCEPT ![me.op] = row]
      /\ proc' = [proc EXCEPT ![p] = End(p, "returned")]
      /\ UNCHANGED <<latest, event, expense, budget>>
  BY DEF Succeed
<1>2. me \in Sessions /\ me.op \in Ops /\ op[me.op] \in OpRow /\ tx \in TxRow
  BY <1>1, SessionOf, SessionFields, SessionRow, TypeParts DEF SessionPcs
<1>3. tx' \in TxRow /\ row \in OpRow /\ row.state = "succeeded" /\ row.tried = op[me.op].tried
  BY <1>1, <1>2, CompletedTyped
<1>4. OpsKept /\ op'[me.op].state # "none"
  <2> HIDE DEF row
  <2> QED
    BY <1>1, <1>2, <1>3, OpChanges
<1>5. ProcsKept
  BY <1>1, <1>4, EndMoves DEF Working
<1> QED
  BY <1>1, <1>3, <1>4, <1>5, TypeParts, EventsSame, ExpensesSame DEF StepKept, TxKept

LEMMA FailCallKept == ASSUME IInv, NEW p \in Procs, FailCall(p) PROVE StepKept
<1> DEFINE me == proc[p]
           row == FailedOp(op[me.op], me.pc)
           status == FailedStatus(me.op, me.pc)
<1>1. /\ me.pc \in {"rejected", "ambiguous"} /\ tx' = [tx EXCEPT !.status = status]
      /\ op' = [op EXCEPT ![me.op] = row]
      /\ \E how \in {"returned", "raised"} : proc' = [proc EXCEPT ![p] = End(p, how)]
      /\ UNCHANGED <<latest, event, expense, budget>>
  BY DEF FailCall
<1>2. me \in Sessions /\ me.op \in Ops /\ op[me.op] \in OpRow /\ tx \in TxRow
  BY <1>1, SessionOf, SessionFields, SessionRow, TypeParts DEF SessionPcs
<1>3. row \in OpRow /\ row.state # "none" /\ row.tried = op[me.op].tried
  BY <1>2 DEF FailedOp, OpRow, OpStates
<1>4. status \in Statuses
  BY <1>1, <1>2, StatusTyped
<1>5. tx' \in TxRow
  <2> HIDE DEF status
  <2> QED
    BY <1>1, <1>2, <1>4, SetStatusTyped
<1>6. OpsKept /\ op'[me.op].state # "none"
  <2>1. me.op \in Ops /\ op' = [op EXCEPT ![me.op] = row]
    BY <1>1, <1>2
  <2> HIDE DEF row
  <2>2. OpsKept /\ op'[me.op] = row
    BY <1>3, <2>1, OpChanges
  <2> QED
    BY <1>3, <2>2
<1>7. ProcsKept
  BY <1>1, <1>6, EndMoves DEF Working
<1> QED
  BY <1>1, <1>5, <1>6, <1>7, TypeParts, EventsSame, ExpensesSame DEF StepKept, TxKept

\* The expense a create makes bears the mark of its operation; the other calls
\* leave the marks alone.
LEMMA AppliedKept ==
  ASSUME IInv, NEW p \in Procs, proc[p].pc = "call", CanApply(proc[p]),
         expense' \in Applied(proc[p])
  PROVE  ExpensesKept
<1> DEFINE me == proc[p]
<1>1. /\ me.op \in Ops /\ me.op.action \in Actions /\ me.payload \in Amounts \cup {None}
      /\ op[me.op].tried /\ expense \in [Ids -> ExpenseRow]
  BY SessionOf, SessionFields, TypeParts DEF SessionPcs, IInv, CallTried
<1>2. CASE me.op.action = "create"
  <2> DEFINE i == CHOOSE i \in Ids : expense[i].state = "absent"
             new == [state |-> "live", mark |-> me.op, cost |-> me.payload]
  <2>1. expense' = [expense EXCEPT ![i] = new]
    BY <1>2 DEF Applied
  <2>2. new \in ExpenseRow /\ new.mark = me.op
    BY <1>1 DEF ExpenseRow
  <2> HIDE DEF i, new, me
  <2>3. expense' \in [Ids -> ExpenseRow]
        /\ \A j \in Ids : expense'[j] = IF j = i THEN new ELSE expense[j]
    BY <1>1, <2>1, <2>2
  <2> QED
    BY <1>1, <2>2, <2>3 DEF ExpensesKept
<1>3. CASE me.op.action = "update"
  <2>1. expense' = [expense EXCEPT ![me.target].cost = me.payload]
    BY <1>3 DEF Applied
  <2>2. \A e \in ExpenseRow : LET n == [e EXCEPT !.cost = me.payload] IN
          n \in ExpenseRow /\ n.state = e.state /\ n.mark = e.mark
    BY <1>1 DEF ExpenseRow
  <2>3. /\ expense' \in [Ids -> ExpenseRow]
        /\ \A j \in Ids : expense'[j].state = expense[j].state /\ expense'[j].mark = expense[j].mark
    BY <1>1, <2>1, <2>2
  <2> QED
    BY <2>3 DEF ExpensesKept
<1>4. CASE me.op.action \in {"delete", "remove"}
  <2>1. expense' = [expense EXCEPT ![me.target].state = "deleted"] /\ expense[me.target].state = "live"
    BY <1>4 DEF Applied, CanApply
  <2>2. \A e \in ExpenseRow : LET n == [e EXCEPT !.state = "deleted"] IN
          n \in ExpenseRow /\ n.state = "deleted" /\ n.mark = e.mark
    BY DEF ExpenseRow
  <2>3. /\ expense' \in [Ids -> ExpenseRow]
        /\ \A j \in Ids : expense'[j] = IF j = me.target
                                       THEN [expense[j] EXCEPT !.state = "deleted"] ELSE expense[j]
    BY <1>1, <2>1, <2>2
  <2>4. ASSUME NEW j \in Ids, expense'[j].state # "absent"
        PROVE  expense[j].state # "absent" /\ expense'[j].mark = expense[j].mark
    BY <1>1, <2>1, <2>2, <2>3, <2>4
  <2>5. expense' \in [Ids -> ExpenseRow]
    BY <2>3
  <2> QED
    BY <2>4, <2>5 DEF ExpensesKept
<1> QED
  BY <1>1, <1>2, <1>3, <1>4 DEF Actions

LEMMA CallKept == ASSUME IInv, NEW p \in Procs, Call(p) PROVE StepKept
<1> DEFINE me == proc[p]
           row == [op[me.op] EXCEPT !.request = me.payload]
           status == QueuedStatus(me.op)
           target == IF me.op.action = "create"
                     THEN CHOOSE i \in Ids : expense[i].state = "absent" ELSE me.target
<1>1. /\ me.pc = "call" /\ tx' = [tx EXCEPT !.status = status]
      /\ UNCHANGED <<latest, event, budget>>
  BY DEF Call
<1>2. /\ me \in Sessions /\ me.op \in Ops /\ me.payload \in Amounts \cup {None}
      /\ me.target \in Ids \cup {None} /\ tx \in TxRow
      /\ op[me.op] \in OpRow /\ op[me.op].state # "none"
  BY <1>1, SessionOf, SessionFields, SessionRow, TypeParts DEF SessionPcs
<1>3. tx' \in TxRow
  <2>1. status \in Statuses
    BY <1>2, StatusTyped
  <2> HIDE DEF status
  <2> QED
    BY <1>1, <1>2, <2>1, SetStatusTyped
<1>4. OpsKept /\ op'[me.op].state # "none"
  <2>1. row \in OpRow /\ row.state = op[me.op].state /\ row.tried = op[me.op].tried
    BY <1>2 DEF OpRow
  <2>2. CASE op' = op
    BY <1>2, <2>2, OpsSame
  <2>3. CASE op' = [op EXCEPT ![me.op] = row]
    <3> HIDE DEF row
    <3>1. OpsKept /\ op'[me.op] = row
      BY <1>2, <2>1, <2>3, OpChanges
    <3> QED
      BY <1>2, <2>1, <3>1
  <2>4. [op EXCEPT ![me.op].request = me.payload] = [op EXCEPT ![me.op] = row]
    OBVIOUS
  <2> QED
    BY <2>2, <2>3, <2>4 DEF Call
<1>5. ASSUME CanApply(me), expense' \in Applied(me),
             NEW result \in {"ok", "ambiguous", "rejected"},
             proc' = [proc EXCEPT ![p] = [me EXCEPT !.pc = result, !.target = target]]
      PROVE  StepKept
  <2>1. target \in Ids \cup {None}
    BY <1>2, <1>5 DEF CanApply
  <2>2. ProcsKept
    <3>1. result \in SessionPcs /\ result # "call" /\ me.pc \in SessionPcs
      BY <1>1 DEF SessionPcs
    <3> HIDE DEF target
    <3> QED
      BY <1>4, <1>5, <2>1, <3>1, SessionMoves
  <2>3. ExpensesKept
    BY <1>1, <1>5, AppliedKept
  <2> QED
    BY <1>1, <1>3, <1>4, <2>2, <2>3, TypeParts, EventsSame DEF StepKept, TxKept
<1>6. ASSUME expense' = expense, NEW result \in {"ambiguous", "rejected"},
             proc' = [proc EXCEPT ![p].pc = result]
      PROVE  StepKept
  <2>1. proc' = [proc EXCEPT ![p] = [me EXCEPT !.pc = result, !.target = me.target]]
    <3>1. [me EXCEPT !.pc = result] = [me EXCEPT !.pc = result, !.target = me.target]
      BY <1>2 DEF Sessions
    <3> QED
      BY <1>6, <3>1
  <2>2. ProcsKept
    BY <1>1, <1>2, <1>4, <2>1, SessionMoves DEF SessionPcs
  <2> QED
    BY <1>1, <1>3, <1>4, <1>6, <2>2, TypeParts, EventsSame, ExpensesSame DEF StepKept, TxKept
<1>7. CASE CanApply(me) /\ expense' \in Applied(me)
           /\ \E result \in {"ok", "ambiguous"} \cup (IF LateErrors THEN {"rejected"} ELSE {}) :
                proc' = [proc EXCEPT ![p] = [me EXCEPT !.pc = result,
                  !.target = IF me.op.action = "create"
                             THEN CHOOSE i \in Ids : expense[i].state = "absent" ELSE @]]
  BY <1>5, <1>7
<1>8. CASE expense' = expense
           /\ \E result \in {"rejected", "ambiguous"} : proc' = [proc EXCEPT ![p].pc = result]
  BY <1>6, <1>8
<1> QED
  BY <1>7, <1>8 DEF Call

LEMMA WriteKept == ASSUME IInv, NEW p \in Procs, Write(p) PROVE StepKept
<1>1. /\ proc[p].pc = "write" /\ tx' = Flushed(proc[p].new, proc[p].tx, tx)
      /\ proc' = [proc EXCEPT ![p] = Idle] /\ UNCHANGED <<op, latest, event, expense, budget>>
  BY DEF Write
<1>2. proc[p] \in Positions(p)
  BY TypeParts
<1>3. proc[p].new \in TxRow /\ proc[p].tx \in TxRow
  BY <1>1, <1>2 DEF Positions, Sessions, Idle
<1>4. tx' \in TxRow
  BY <1>1, <1>3, TypeParts, FlushedTx
<1> QED
  BY <1>1, <1>4, TypeParts, IdleMoves, OpsSame, EventsSame, ExpensesSame DEF StepKept, TxKept

LEMMA ExecuteKept == ASSUME IInv, NEW p \in Procs, Execute(p) PROVE StepKept
  BY LookKept, LostInsertKept, RecoverKept, QueueKept, AcquireKept, CallKept, SucceedKept,
     FailCallKept, WriteKept DEF Execute

-----------------------------------------------------------------------------
(* The outbox worker. *)

LEMMA ClaimEventKept ==
  ASSUME IInv, NEW w \in Workers, NEW o \in Ops, ClaimEvent(w, o)
  PROVE  StepKept
<1> DEFINE tries == IF event[o].tries < MaxTries THEN event[o].tries + 1 ELSE event[o].tries
           row == [state |-> "in_flight", holder |-> w, live |-> TRUE, tries |-> tries]
           q == [pc |-> "claimed", op |-> o]
<1>1. /\ event' = [event EXCEPT ![o] = row] /\ proc' = [proc EXCEPT ![w] = q]
      /\ UNCHANGED <<tx, op, latest, expense, budget>> /\ Claimable(event[o])
  BY DEF ClaimEvent
<1>2. event \in [Ops -> EventRow] /\ event[o] \in EventRow /\ w \in Procs
  BY TypeParts DEF Procs
<1>3. tries \in 0..MaxTries
  <2>1. event[o].tries \in 0..MaxTries
    BY <1>2 DEF EventRow
  <2> QED
    BY <2>1, JournalConstants
<1>4. row \in EventRow
  <2> HIDE DEF tries
  <2> QED
    BY <1>3 DEF EventRow, EventStates
<1>5. event[o].state # "absent"
  BY <1>1 DEF Claimable
<1>6. EventsKept
  <2> HIDE DEF row
  <2> QED
    BY <1>1, <1>2, <1>4, <1>5 DEF EventsKept
<1>7. op'[o].state # "none"
  BY <1>1, <1>5 DEF IInv, EventExists
<1>8. q \in Positions(w) /\ Sound(q)
  BY <1>7 DEF Positions, Sound
<1>9. ProcsKept
  <2> HIDE DEF q
  <2> QED
    BY <1>1, <1>2, <1>8, ProcMoves
<1> QED
  BY <1>1, <1>6, <1>9, TypeParts, TxSame, OpsSame, ExpensesSame DEF StepKept

LEMMA HandleKept == ASSUME IInv, NEW w \in Workers, Handle(w) PROVE StepKept
<1> DEFINE o == proc[w].op
<1>1. /\ proc[w].pc = "claimed" /\ UNCHANGED <<tx, op, latest, event, expense, budget>>
      /\ w \in Procs
  BY DEF Handle, Procs
<1>2. o \in Ops /\ op[o] \in OpRow /\ op[o].state # "none" /\ tx \in TxRow
  BY <1>1, ProcOp, TypeParts DEF IInv, WorkExists, Working
<1>3. op[o].request \in Amounts \cup {None}
  BY <1>2 DEF OpRow
<1>4. \/ proc' = [proc EXCEPT ![w] = Session(o, tx, op[o], tx, op[o].request)]
      \/ proc' = [proc EXCEPT ![w] = End(w, "returned")]
      \/ proc' = [proc EXCEPT ![w] = End(w, "raised")]
  BY DEF Handle
<1>5. ProcsKept
  <2>1. CASE proc' = [proc EXCEPT ![w] = Session(o, tx, op[o], tx, op[o].request)]
    <3>1. op'[o].state # "none"
      BY <1>1, <1>2
    <3> HIDE DEF o
    <3> QED
      BY <1>1, <1>2, <1>3, <2>1, <3>1, SessionStarts
  <2>2. CASE \E how \in {"returned", "raised"} : proc' = [proc EXCEPT ![w] = End(w, how)]
    BY <1>1, <1>2, <2>2, EndMoves DEF Working
  <2> QED
    BY <1>4, <2>1, <2>2
<1> QED
  BY <1>1, <1>5, TypeParts, TxSame, OpsSame, EventsSame, ExpensesSame DEF StepKept

LEMMA SettleEventKept == ASSUME IInv, NEW w \in Workers, SettleEvent(w) PROVE StepKept
<1> DEFINE o == proc[w].op
           state == IF proc[w].pc = "returned" THEN "succeeded"
                    ELSE IF event[o].tries >= MaxTries THEN "dead" ELSE "ready"
           row == [event[o] EXCEPT !.state = state, !.holder = None, !.live = FALSE]
<1>1. /\ proc[w].pc \in {"returned", "raised"} /\ UNCHANGED <<tx, op, latest, expense, budget>>
      /\ proc' = [proc EXCEPT ![w] = Idle] /\ w \in Procs
  BY DEF SettleEvent, Procs
<1>2. o \in Ops /\ event \in [Ops -> EventRow] /\ event[o] \in EventRow /\ op[o].state # "none"
  BY <1>1, ProcOp, TypeParts DEF IInv, WorkExists, Working
<1>3. EventsKept
  <2>1. CASE event' = event
    BY <2>1, EventsSame
  <2>2. CASE event' = [event EXCEPT ![o] = row]
    <3>1. state \in EventStates
      BY DEF EventStates
    <3> HIDE DEF state
    <3>2. row \in EventRow
      BY <1>2, <3>1 DEF EventRow
    <3> HIDE DEF row
    <3>3. op'[o].state # "none"
      BY <1>1, <1>2
    <3> QED
      BY <1>2, <2>2, <3>2, <3>3 DEF EventsKept
  <2>3. event' = event \/ event' = [event EXCEPT ![o] = row]
    BY DEF SettleEvent
  <2> QED
    BY <2>1, <2>2, <2>3
<1> QED
  BY <1>1, <1>3, TypeParts, IdleMoves, TxSame, OpsSame, ExpensesSame DEF StepKept

LEMMA WorkKept == ASSUME IInv, NEW w \in Workers, Work(w) PROVE StepKept
  BY HandleKept, SettleEventKept, ClaimEventKept DEF Work

-----------------------------------------------------------------------------
(* The requests. *)

LEMMA RequestedBudget == ASSUME IInv, NEW kind, Requested(kind) PROVE budget' \in Budgets
<1>1. budget \in Budgets /\ budget.requests < MaxRequests
      /\ budget' = [budget EXCEPT !.requests = budget.requests + 1]
  BY TypeParts DEF Requested
<1> QED
  BY <1>1, JournalConstants DEF Budgets

LEMMA StartKept ==
  ASSUME IInv, NEW p \in Procs, NEW o, NEW mine \in TxRow, NEW payload \in Amounts \cup {None},
         Start(p, o, mine, payload)
  PROVE  TxKept /\ OpsKept /\ EventsKept /\ ExpensesKept /\ ProcsKept
<1>1. o \in Ops /\ UNCHANGED <<event, expense>>
  BY DEF Start
<1>2. tx \in TxRow /\ op[o] \in OpRow
  BY <1>1, TypeParts
<1>3. CASE op[o].state # "none"
  <2>1. proc' = [proc EXCEPT ![p] = Session(o, tx, op[o], mine, payload)]
        /\ UNCHANGED <<tx, op, latest>>
    BY <1>3 DEF Start
  <2>2. ProcsKept
    BY <1>1, <1>2, <1>3, <2>1, SessionStarts
  <2> QED
    BY <1>1, <2>1, <2>2, TxSame, OpsSame, EventsSame, ExpensesSame
<1>4. CASE op[o].state = "none"
  <2> DEFINE row == ClaimedRow(o, payload)
  <2>1. row \in OpRow /\ row.state = "pending" /\ row.tried = op[o].tried
    BY <1>2, <1>4 DEF ClaimedRow, OpRow, OpStates
  <2>2. CASE Defers(p)
    <3>1. proc' = [proc EXCEPT ![p] = [Session(o, tx, row, mine, payload) EXCEPT !.pc = "insert"]]
          /\ UNCHANGED <<tx, op, latest>>
      BY <1>4, <2>2 DEF Start
    <3> HIDE DEF row
    <3>2. ProcsKept
      BY <1>1, <1>2, <2>1, <3>1, InsertStarts
    <3> QED
      BY <1>1, <3>1, <3>2, TxSame, OpsSame, EventsSame, ExpensesSame
  <2>3. CASE ~Defers(p)
    <3>1. /\ proc' = [proc EXCEPT ![p] = Session(o, mine, row, mine, payload)]
          /\ op' = [op EXCEPT ![o] = row] /\ latest' = o /\ tx' = mine
      BY <1>4, <2>3 DEF Start
    <3> HIDE DEF row
    <3>2. OpsKept /\ op'[o] = row
      BY <1>1, <2>1, <3>1, OpChanges
    <3>3. op'[o].state # "none"
      BY <2>1, <3>2
    <3>4. ProcsKept
      BY <1>1, <2>1, <3>1, <3>3, SessionStarts
    <3> QED
      BY <1>1, <3>1, <3>2, <3>4, EventsSame, ExpensesSame DEF TxKept
  <2> QED
    BY <2>2, <2>3
<1> QED
  BY <1>3, <1>4

LEMMA ChangeKept ==
  ASSUME IInv, NEW p \in Requests, NEW new \in TxRow, Change(p, new)
  PROVE  TxKept /\ OpsKept /\ EventsKept /\ ExpensesKept /\ ProcsKept
<1> DEFINE q == [pc |-> "write", tx |-> tx, new |-> new]
<1>1. /\ proc' = [proc EXCEPT ![p] = q] /\ UNCHANGED <<tx, op, latest, event, expense>>
      /\ p \in Procs /\ p \notin Workers
  BY JournalConstants DEF Change, Procs
<1>2. q \in Positions(p) /\ Sound(q)
  BY <1>1, TypeParts DEF Positions, Sound, Working
<1>3. ProcsKept
  <2> HIDE DEF q
  <2> QED
    BY <1>1, <1>2, ProcMoves
<1> QED
  BY <1>1, <1>3, TxSame, OpsSame, EventsSame, ExpensesSame

\* What a request is about to write.
LEMMA NewTyped ==
  ASSUME IInv
  PROVE  /\ tx \in TxRow /\ tx.amount \in Amounts \cup {None}
         /\ [tx EXCEPT !.saved = tx.amount] \in TxRow
         /\ \A status \in Statuses : [tx EXCEPT !.status = status] \in TxRow
         /\ [tx EXCEPT !.status = "shared_draft", !.saved = tx.amount] \in TxRow
         /\ \A a \in Amounts : [tx EXCEPT !.amount = a] \in TxRow
<1>1. tx \in TxRow
  BY TypeParts
<1>2. tx.amount \in Amounts \cup {None} /\ tx.amount \in Amounts
  BY <1>1 DEF TxRow
<1>3. [tx EXCEPT !.saved = tx.amount] \in TxRow
  BY <1>1, <1>2 DEF TxRow
<1>4. [tx EXCEPT !.status = "shared_draft", !.saved = tx.amount] \in TxRow
  BY <1>1, <1>2 DEF TxRow, Statuses
<1>5. \A a \in Amounts : [tx EXCEPT !.amount = a] \in TxRow
  BY <1>1 DEF TxRow
<1> QED
  BY <1>1, <1>2, <1>3, <1>4, <1>5, SetStatusTyped

LEMMA RequestKept == ASSUME IInv, NEW p \in Requests, Request(p) PROVE StepKept
<1>1. /\ None \in Amounts \cup {None} /\ p \in Procs
      /\ {"shared_draft", "personal", "ask_user", "removed"} \subseteq Statuses
  BY DEF Procs, Statuses
<1>2. ASSUME NEW kind, Requested(kind), NEW o, NEW mine \in TxRow,
             NEW payload \in Amounts \cup {None}, Start(p, o, mine, payload)
      PROVE  StepKept
  BY <1>1, <1>2, RequestedBudget, StartKept DEF StepKept
<1>3. ASSUME NEW kind, Requested(kind), NEW new \in TxRow, Change(p, new) PROVE StepKept
  BY <1>3, RequestedBudget, ChangeKept DEF StepKept
<1>4. ASSUME NEW kind, Requested(kind), NEW status \in Statuses, SetStatus(p, status)
      PROVE  StepKept
  BY <1>3, <1>4, NewTyped DEF SetStatus
<1>5. CASE Post(p)
  BY <1>2, <1>5, NewTyped DEF Post
<1>6. CASE SaveDraft(p)
  BY <1>3, <1>6, NewTyped DEF SaveDraft
<1>7. CASE MarkSharedDraft(p) \/ MarkPersonal(p)
  BY <1>1, <1>4, <1>7 DEF MarkSharedDraft, MarkPersonal
<1>8. CASE Undo(p)
  BY <1>1, <1>2, <1>4, <1>8, NewTyped DEF Undo
<1>9. CASE Remove(p)
  BY <1>1, <1>2, <1>4, <1>9, NewTyped DEF Remove
<1>10. ASSUME NEW a \in Amounts, Amend(p, a) PROVE StepKept
  BY <1>2, <1>3, <1>10, NewTyped DEF Amend
<1>11. CASE Retry(p)
  <2>1. latest \in Ops
    BY <1>11, TypeParts DEF Retry, Recoverable
  <2>2. op[latest].request \in Amounts \cup {None}
    BY <2>1, TypeParts DEF OpRow
  <2> QED
    BY <1>2, <1>11, <2>2, NewTyped DEF Retry
<1> QED
  BY <1>5, <1>6, <1>7, <1>8, <1>9, <1>10, <1>11 DEF Request

-----------------------------------------------------------------------------
(* Time, failures, and all of it. *)

\* A step that changes one event, which was there.
LEMMA EventChanges ==
  ASSUME IInv, NEW o \in Ops, NEW row \in EventRow, event[o].state # "absent",
         event' = [event EXCEPT ![o] = row]
  PROVE  EventsKept
  BY TypeParts DEF EventsKept

LEMMA ReplayDeadKept == ASSUME IInv, NEW o \in Ops, ReplayDead(o) PROVE StepKept
<1> DEFINE row == [event[o] EXCEPT !.state = "ready", !.tries = 0]
<1>1. /\ event[o].state = "dead" /\ event \in [Ops -> EventRow]
      /\ UNCHANGED <<tx, op, latest, expense, proc>> /\ budget' \in Budgets
  BY TypeParts, RequestedBudget DEF ReplayDead
<1>2. event' = [event EXCEPT ![o] = row]
  BY DEF ReplayDead
<1>3. row \in EventRow
  <2>1. 0 \in 0..MaxTries
    BY JournalConstants
  <2> QED
    BY <1>1, <2>1 DEF EventRow, EventStates
<1>4. EventsKept
  <2> HIDE DEF row
  <2> QED
    BY <1>1, <1>2, <1>3, EventChanges
<1> QED
  BY <1>1, <1>4, TxSame, OpsSame, ExpensesSame, ProcsSame DEF StepKept

LEMMA RunsOutBudget == ASSUME IInv, NEW held, RunsOut(held) PROVE budget' \in Budgets
<1>1. budget \in Budgets
  BY TypeParts
<1>2. CASE budget' = budget
  BY <1>1, <1>2
<1>3. CASE budget.overruns < MaxOverruns
           /\ budget' = [budget EXCEPT !.overruns = budget.overruns + 1]
  BY <1>1, <1>3, JournalConstants DEF Budgets
<1> QED
  BY <1>2, <1>3 DEF RunsOut

LEMMA ExpireKept == ASSUME IInv, Expire PROVE StepKept
<1>1. ASSUME NEW o \in Ops, OpLeaseExpires(o) PROVE StepKept
  <2> DEFINE row == [op[o] EXCEPT !.lease = "expired"]
  <2>1. /\ op[o].lease = "live" /\ op[o] \in OpRow /\ UNCHANGED <<tx, latest, event, expense, proc>>
        /\ budget' \in Budgets /\ op \in [Ops -> OpRow]
    BY <1>1, TypeParts, RunsOutBudget DEF OpLeaseExpires
  <2>2. op' = [op EXCEPT ![o] = row]
    BY <1>1 DEF OpLeaseExpires
  <2>3. row \in OpRow /\ row.state = op[o].state /\ row.tried = op[o].tried
    BY <2>1 DEF OpRow
  <2>4. OpsKept
    <3> HIDE DEF row
    <3>1. \A r \in Ops : op'[r] = IF r = o THEN row ELSE op[r]
      BY <2>1, <2>2
    <3>2. op' \in [Ops -> OpRow]
      BY <2>1, <2>2, <2>3
    <3> QED
      BY <2>3, <3>1, <3>2 DEF OpsKept, IInv, TriedExists
  <2> QED
    BY <2>1, <2>4, TxSame, EventsSame, ExpensesSame, ProcsSame DEF StepKept
<1>2. ASSUME NEW o \in Ops, EventLeaseExpires(o) PROVE StepKept
  <2> DEFINE row == [event[o] EXCEPT !.live = FALSE]
  <2>1. /\ event \in [Ops -> EventRow] /\ UNCHANGED <<tx, op, latest, expense, proc>>
        /\ budget' \in Budgets
    BY <1>2, TypeParts, RunsOutBudget DEF EventLeaseExpires
  <2>2. event' = [event EXCEPT ![o] = row]
    BY <1>2 DEF EventLeaseExpires
  <2>3. row \in EventRow /\ row.state = event[o].state
    BY <2>1 DEF EventRow
  <2>4. EventsKept
    <3> HIDE DEF row
    <3> QED
      BY <2>1, <2>2, <2>3 DEF EventsKept
  <2> QED
    BY <2>1, <2>4, TxSame, OpsSame, ExpensesSame, ProcsSame DEF StepKept
<1> QED
  BY <1>1, <1>2 DEF Expire

LEMMA CrashKept == ASSUME IInv, NEW p \in Procs, Crash(p) PROVE StepKept
<1>1. /\ proc' = [proc EXCEPT ![p] = Idle] /\ UNCHANGED <<tx, op, latest, expense>>
      /\ budget' = [budget EXCEPT !.crashes = budget.crashes + 1] /\ budget.crashes < MaxCrashes
      /\ event' = [o \in Ops |-> IF event[o].holder = p THEN [event[o] EXCEPT !.holder = None]
                                 ELSE event[o]]
  BY DEF Crash
<1>2. budget' \in Budgets
  BY <1>1, TypeParts, JournalConstants DEF Budgets
<1>3. \A e \in EventRow : /\ [e EXCEPT !.holder = None] \in EventRow
                          /\ [e EXCEPT !.holder = None].state = e.state
  BY DEF EventRow
<1>4. EventsKept
  BY <1>1, <1>3, TypeParts DEF EventsKept
<1> QED
  BY <1>1, <1>2, <1>4, IdleMoves, TxSame, OpsSame, ExpensesSame DEF StepKept

LEMMA StepIInv == ASSUME IInv, [Next]_vars PROVE IInv'
<1>1. CASE UNCHANGED vars
  <2>1. StepKept
    BY <1>1, TypeParts, TxSame, OpsSame, EventsSame, ExpensesSame, ProcsSame DEF StepKept, vars
  <2> QED
    BY <2>1, Preserved
<1>2. CASE Next
  <2>1. StepKept
    BY <1>2, RequestKept, ExecuteKept, CrashKept, WorkKept, ReplayDeadKept, ExpireKept DEF Next
  <2> QED
    BY <2>1, Preserved
<1> QED
  BY <1>1, <1>2

\* The invariant holds throughout: every step keeps it.
THEOREM Inductive == Spec => []IInv
<1>1. IInv /\ [Next]_vars => IInv'
  BY StepIInv
<1> QED
  BY <1>1, InitIInv, PTL DEF Spec

\* Rows, events, expenses and sessions keep their types: whatever two sessions
\* flush over each other, a status is one the guards know.
THEOREM TypeCorrect == Spec => []TypeOK
<1>1. IInv => TypeOK
  BY DEF IInv
<1> QED
  BY <1>1, Inductive, PTL

\* No expense without an attempt in the journal that was counted before the call.
THEOREM JournalledAhead == Spec => []WrittenAhead
<1>1. IInv => WrittenAhead
  BY DEF IInv
<1> QED
  BY <1>1, Inductive, PTL

-----------------------------------------------------------------------------
(* One executor, in production.                                            *)

Executing == {"call", "ok", "rejected", "ambiguous"}

\* In production only workers execute, and as long as no lease has run out under its
\* holder a worker that is busy with an operation holds its event: so that two workers
\* never are.  The lease of the operation itself is not what keeps them apart: a late
\* completion may clear it.
WorkersHold ==
  Production =>
    /\ \A r \in Requests : proc[r].pc \notin Executing
    /\ budget.overruns = 0 =>
         \A w \in Workers : proc[w].pc # "idle" =>
           LET e == event[proc[w].op]
           IN e.state = "in_flight" /\ e.holder = w /\ e.live

HeldInv == IInv /\ WorkersHold

LEMMA BusyOp ==
  ASSUME IInv, NEW w \in Workers, proc[w].pc # "idle"
  PROVE  proc[w].op \in Ops /\ w \in Procs
<1>1. w \in Procs /\ proc[w] \in Positions(w)
  BY TypeParts DEF Procs
<1> QED
  BY <1>1 DEF Positions, Sessions, Idle

\* Where a step may take a process: nowhere, to rest, or on with its operation, in
\* production never to the provider if it is a request.
Calmly(p) ==
  /\ \A q \in Procs : q # p => proc'[q] = proc[q]
  /\ p \in Workers => \/ proc'[p].pc = "idle"
                      \/ proc[p].pc # "idle" /\ proc'[p].op = proc[p].op
  /\ Production /\ p \in Requests => proc'[p].pc \notin Executing

\* Which events a step leaves to whoever holds them.
EventsHeld ==
  \A o \in Ops : event[o].state = "in_flight" /\ event[o].live /\ event[o].holder # None =>
    /\ event'[o].state = "in_flight" /\ event'[o].live /\ event'[o].holder = event[o].holder

LEMMA HeldKept ==
  ASSUME HeldInv, NEW p \in Procs, Calmly(p), EventsHeld, budget'.overruns = 0 => budget.overruns = 0
  PROVE  WorkersHold'
<1> SUFFICES ASSUME Production
             PROVE  /\ \A r \in Requests : proc'[r].pc \notin Executing
                    /\ budget'.overruns = 0 =>
                         \A w \in Workers : proc'[w].pc # "idle" =>
                           LET e == event'[proc'[w].op]
                           IN e.state = "in_flight" /\ e.holder = w /\ e.live
  BY DEF WorkersHold
<1>1. \A r \in Requests : proc'[r].pc \notin Executing
  BY DEF HeldInv, WorkersHold, Calmly, Procs
<1>2. ASSUME budget'.overruns = 0, NEW w \in Workers, proc'[w].pc # "idle"
      PROVE  LET e == event'[proc'[w].op] IN e.state = "in_flight" /\ e.holder = w /\ e.live
  <2>1. proc[w].pc # "idle" /\ proc'[w].op = proc[w].op
    BY <1>2 DEF Calmly, Procs
  <2>2. proc[w].op \in Ops /\ w # None
    BY <2>1, BusyOp, JournalConstants DEF HeldInv
  <2>3. LET e == event[proc[w].op] IN e.state = "in_flight" /\ e.holder = w /\ e.live
    BY <1>2, <2>1 DEF HeldInv, WorkersHold
  <2> QED
    BY <2>1, <2>2, <2>3 DEF EventsHeld
<1> QED
  BY <1>1, <1>2

\* A process goes to a position.
LEMMA Goes ==
  ASSUME IInv, NEW p \in Procs, NEW q, proc' = [proc EXCEPT ![p] = q],
         p \in Workers => q.pc = "idle" \/ (proc[p].pc # "idle" /\ q.op = proc[p].op),
         Production /\ p \in Requests => q.pc \notin Executing
  PROVE  Calmly(p)
<1>1. proc = [r \in Procs |-> proc[r]]
  BY TypeParts
<1>2. \A r \in Procs : proc'[r] = IF r = p THEN q ELSE proc[r]
  BY <1>1
<1> QED
  BY <1>2 DEF Calmly

LEMMA EndShape ==
  ASSUME NEW p, NEW how \in {"returned", "raised"}
  PROVE  /\ End(p, how).pc \notin Executing
         /\ p \in Workers => End(p, how).op = proc[p].op
         /\ p \notin Workers => End(p, how).pc = "idle"
  BY DEF End, Idle, Executing

LEMMA EndGoes ==
  ASSUME IInv, NEW p \in Procs, NEW how \in {"returned", "raised"}, proc[p].pc # "idle",
         proc' = [proc EXCEPT ![p] = End(p, how)]
  PROVE  Calmly(p)
<1> DEFINE q == End(p, how)
<1>1. q.pc \notin Executing /\ (p \in Workers => q.op = proc[p].op)
  BY EndShape
<1>2. proc' = [proc EXCEPT ![p] = q]
  OBVIOUS
<1> HIDE DEF q
<1> QED
  BY <1>1, <1>2, Goes

LEMMA RaiseGoes ==
  ASSUME IInv, NEW p \in Procs, NEW s, proc[p].pc # "idle", proc' = [proc EXCEPT ![p] = Raise(p, s)]
  PROVE  Calmly(p)
<1>1. PICK how \in {"returned", "raised"} : Raise(p, s) = End(p, how)
  BY DEF Raise
<1> QED
  BY <1>1, EndGoes

\* A session goes on with another position and target.
LEMMA SessionGoes ==
  ASSUME IInv, NEW p \in Procs, proc[p].pc \in SessionPcs, NEW pc, NEW target,
         Production /\ p \in Requests => pc \notin Executing,
         proc' = [proc EXCEPT ![p] = [proc[p] EXCEPT !.pc = pc, !.target = target]]
  PROVE  Calmly(p)
<1> DEFINE q == [proc[p] EXCEPT !.pc = pc, !.target = target]
<1>1. proc[p] \in Sessions
  BY SessionOf
<1>2. q.pc = pc /\ q.op = proc[p].op /\ proc[p].pc # "idle"
  BY <1>1 DEF Sessions
<1>3. proc' = [proc EXCEPT ![p] = q]
  OBVIOUS
<1> HIDE DEF q
<1> QED
  BY <1>2, <1>3, Goes

\* A session is started by a request, or by a worker on the operation it has.
LEMMA StartGoes ==
  ASSUME IInv, NEW p \in Procs, NEW o, NEW t, NEW row, NEW mine, NEW payload,
         p \in Workers => proc[p].pc # "idle" /\ o = proc[p].op,
         proc' = [proc EXCEPT ![p] = Session(o, t, row, mine, payload)]
  PROVE  Calmly(p)
<1> DEFINE q == Session(o, t, row, mine, payload)
<1>1. q.pc \in {"done", "look", "go"} /\ q.op = o
  BY EntryShape DEF Session
<1>2. proc' = [proc EXCEPT ![p] = q]
  OBVIOUS
<1> HIDE DEF q
<1> QED
  BY <1>1, <1>2, Goes DEF Executing

LEMMA EventsSameHeld == ASSUME event' = event PROVE EventsHeld
  BY DEF EventsHeld

\* A session goes on with another position.
LEMMA PcGoes ==
  ASSUME IInv, NEW p \in Procs, proc[p].pc \in SessionPcs, NEW pc,
         Production /\ p \in Requests => pc \notin Executing,
         proc' = [proc EXCEPT ![p].pc = pc]
  PROVE  Calmly(p)
<1> DEFINE q == [proc[p] EXCEPT !.pc = pc]
<1>1. proc[p] \in Sessions
  BY SessionOf
<1>2. q.pc = pc /\ q.op = proc[p].op /\ proc[p].pc # "idle"
  BY <1>1 DEF Sessions
<1>3. proc' = [proc EXCEPT ![p] = q]
  OBVIOUS
<1> HIDE DEF q
<1> QED
  BY <1>2, <1>3, Goes

LEMMA IdleGoes ==
  ASSUME IInv, NEW p \in Procs, proc' = [proc EXCEPT ![p] = Idle]
  PROVE  Calmly(p)
<1>1. Idle.pc = "idle" /\ Idle.pc \notin Executing
  BY DEF Idle, Executing
<1> QED
  BY <1>1, Goes

LEMMA ExecuteCalm ==
  ASSUME HeldInv, NEW p \in Procs, Execute(p)
  PROVE  Calmly(p)
<1> DEFINE me == proc[p]
<1>0. IInv
  BY DEF HeldInv
<1>1. CASE LostInsert(p)
  <2>1. me.pc = "insert" /\ proc' = [proc EXCEPT ![p] = Session(me.op, tx, op[me.op], tx, me.payload)]
    BY <1>1 DEF LostInsert
  <2>2. me.pc # "idle"
    BY <2>1
  <2> HIDE DEF me
  <2>3. p \in Workers => proc[p].pc # "idle" /\ me.op = proc[p].op
    BY <2>2 DEF me
  <2> QED
    BY <1>0, <2>1, <2>3, StartGoes
<1>2. CASE Look(p)
  <2>1. me.pc = "look" /\ me.pc \in SessionPcs /\ me.pc # "idle"
    BY <1>2 DEF Look, SessionPcs
  <2>2. CASE proc' = [proc EXCEPT ![p] = Raise(p, me.seen.state)]
    BY <1>0, <2>1, <2>2, RaiseGoes
  <2>3. CASE ~(proc' = [proc EXCEPT ![p] = Raise(p, me.seen.state)])
    <3>1. \E pc \in {"done", "go"}, target \in {me.target, CHOOSE i \in Shown(me) : TRUE} :
            proc' = [proc EXCEPT ![p] = [me EXCEPT !.pc = pc, !.target = target]]
      BY <1>2, <2>3 DEF Look
    <3>2. PICK pc \in {"done", "go"}, target \in {me.target, CHOOSE i \in Shown(me) : TRUE} :
            proc' = [proc EXCEPT ![p] = [me EXCEPT !.pc = pc, !.target = target]]
      BY <3>1
    <3> QED
      BY <1>0, <2>1, <3>2, SessionGoes DEF Executing
  <2> QED
    BY <2>2, <2>3
<1>3. CASE Recover(p)
  <2>1. me.pc # "idle" /\ proc' = [proc EXCEPT ![p] = End(p, "returned")]
    BY <1>3 DEF Recover
  <2> QED
    BY <1>0, <2>1, EndGoes
<1>4. CASE Queue(p) \/ Write(p)
  <2>1. proc' = [proc EXCEPT ![p] = Idle]
    BY <1>4 DEF Queue, Write
  <2> QED
    BY <1>0, <2>1, IdleGoes
<1>5. CASE Acquire(p)
  <2>1. me.pc = "go" /\ me.pc # "idle" /\ me.pc \in SessionPcs /\ ~Defers(p)
    BY <1>5 DEF Acquire, SessionPcs
  <2>2. CASE proc' = [proc EXCEPT ![p].pc = "call"]
    BY <1>0, <2>1, <2>2, PcGoes DEF Defers
  <2>3. CASE proc' = [proc EXCEPT ![p] = Raise(p, op[me.op].state)]
    BY <1>0, <2>1, <2>3, RaiseGoes
  <2> QED
    BY <1>5, <2>2, <2>3 DEF Acquire
<1>6. CASE Call(p)
  <2>1. me.pc = "call" /\ me.pc \in SessionPcs /\ ~(Production /\ p \in Requests)
    BY <1>6 DEF Call, SessionPcs, HeldInv, WorkersHold, Executing
  <2>2. CASE \E result \in {"rejected", "ambiguous"} : proc' = [proc EXCEPT ![p].pc = result]
    BY <1>0, <2>1, <2>2, PcGoes
  <2>3. CASE \E result, target : proc' = [proc EXCEPT ![p] = [me EXCEPT !.pc = result, !.target = target]]
    BY <1>0, <2>1, <2>3, SessionGoes
  <2>4. ASSUME NEW result,
               proc' = [proc EXCEPT ![p] = [me EXCEPT !.pc = result,
                   !.target = IF me.op.action = "create"
                              THEN CHOOSE i \in Ids : expense[i].state = "absent" ELSE @]]
        PROVE  \E r, target : proc' = [proc EXCEPT ![p] = [me EXCEPT !.pc = r, !.target = target]]
    BY <2>4
  <2> QED
    BY <1>6, <2>2, <2>3, <2>4 DEF Call
<1>7. CASE Succeed(p) \/ FailCall(p)
  <2>1. me.pc # "idle"
    BY <1>7 DEF Succeed, FailCall
  <2>2. \E how \in {"returned", "raised"} : proc' = [proc EXCEPT ![p] = End(p, how)]
    BY <1>7 DEF Succeed, FailCall
  <2> QED
    BY <1>0, <2>1, <2>2, EndGoes
<1> QED
  BY <1>1, <1>2, <1>3, <1>4, <1>5, <1>6, <1>7 DEF Execute

LEMMA ExecuteHeld ==
  ASSUME HeldInv, NEW p \in Procs, Execute(p)
  PROVE  WorkersHold'
<1>1. EventsHeld
  <2>1. CASE event' = event
    BY <2>1, EventsSameHeld
  <2>2. CASE Queue(p)
    <3>1. event' = [event EXCEPT ![proc[p].op] = Enqueued(@)]
      BY <2>2 DEF Queue
    <3>2. \A o \in Ops : event[o].state = "in_flight" => Enqueued(event[o]) = event[o]
      BY DEF Enqueued
    <3>3. event \in [Ops -> EventRow]
      BY TypeParts DEF HeldInv
    <3> QED
      BY <3>1, <3>2, <3>3 DEF EventsHeld
  <2>3. event' = event \/ Queue(p)
    BY DEF Execute, LostInsert, Look, Recover, Acquire, Call, Succeed, FailCall, Write
  <2> QED
    BY <2>1, <2>2, <2>3
<1>2. budget' = budget
  BY DEF Execute, LostInsert, Look, Recover, Queue, Acquire, Call, Succeed, FailCall, Write
<1> QED
  BY <1>1, <1>2, ExecuteCalm, HeldKept

\* A request moves its own process only, and leaves events and expenses alone.
LEMMA RequestCalm ==
  ASSUME HeldInv, NEW p \in Requests, Request(p)
  PROVE  /\ p \in Procs /\ p \notin Workers /\ Calmly(p) /\ UNCHANGED <<event, expense>>
         /\ budget'.overruns = 0 => budget.overruns = 0
<1>0. IInv /\ p \in Procs /\ p \notin Workers
  BY JournalConstants DEF HeldInv, Procs
<1>1. budget'.overruns = 0 => budget.overruns = 0
  <2>1. PICK kind : Requested(kind)
    BY DEF Request, Post, SaveDraft, MarkSharedDraft, MarkPersonal, Undo, Remove, Amend, Retry
  <2>2. budget \in Budgets
    BY <1>0, TypeParts
  <2> QED
    BY <2>1, <2>2 DEF Requested, Budgets
<1>2. ASSUME NEW o, NEW mine, NEW payload, Start(p, o, mine, payload)
      PROVE  Calmly(p) /\ UNCHANGED <<event, expense>>
  <2>1. CASE proc' = [proc EXCEPT ![p] = Session(o, tx, op[o], mine, payload)]
    BY <1>0, <1>2, <2>1, StartGoes DEF Start
  <2>2. CASE proc' = [proc EXCEPT ![p] = Session(o, mine, ClaimedRow(o, payload), mine, payload)]
    BY <1>0, <1>2, <2>2, StartGoes DEF Start
  <2>3. CASE proc' = [proc EXCEPT ![p] =
                        [Session(o, tx, ClaimedRow(o, payload), mine, payload) EXCEPT !.pc = "insert"]]
    <3> DEFINE q == [Session(o, tx, ClaimedRow(o, payload), mine, payload) EXCEPT !.pc = "insert"]
    <3>1. q.pc = "insert"
      BY DEF Session
    <3>2. proc' = [proc EXCEPT ![p] = q]
      BY <2>3
    <3> HIDE DEF q
    <3>3. Calmly(p)
      BY <1>0, <3>1, <3>2, Goes DEF Executing
    <3> QED
      BY <1>2, <3>3 DEF Start
  <2> QED
    BY <1>2, <2>1, <2>2, <2>3 DEF Start
<1>3. ASSUME NEW new, Change(p, new)
      PROVE  Calmly(p) /\ UNCHANGED <<event, expense>>
  <2> DEFINE q == [pc |-> "write", tx |-> tx, new |-> new]
  <2>1. q.pc = "write" /\ proc' = [proc EXCEPT ![p] = q]
    BY <1>3 DEF Change
  <2> HIDE DEF q
  <2>2. Calmly(p)
    BY <1>0, <2>1, Goes DEF Executing
  <2> QED
    BY <1>3, <2>2 DEF Change
<1>4. Calmly(p) /\ UNCHANGED <<event, expense>>
  BY <1>2, <1>3 DEF Request, Post, SaveDraft, MarkSharedDraft, MarkPersonal, Undo, Remove, Amend,
                    Retry, SetStatus
<1> QED
  BY <1>0, <1>1, <1>4

LEMMA RequestHeld ==
  ASSUME HeldInv, NEW p \in Requests, Request(p)
  PROVE  WorkersHold'
  BY RequestCalm, EventsSameHeld, HeldKept

LEMMA ClaimEventHeld ==
  ASSUME HeldInv, NEW w \in Workers, NEW o \in Ops, ClaimEvent(w, o)
  PROVE  WorkersHold'
<1> DEFINE tries == IF event[o].tries < MaxTries THEN event[o].tries + 1 ELSE event[o].tries
           row == [state |-> "in_flight", holder |-> w, live |-> TRUE, tries |-> tries]
           q == [pc |-> "claimed", op |-> o]
<1>1. /\ event' = [event EXCEPT ![o] = row] /\ proc' = [proc EXCEPT ![w] = q]
      /\ UNCHANGED budget /\ Claimable(event[o])
  BY DEF ClaimEvent
<1>2. /\ event \in [Ops -> EventRow] /\ w \in Procs /\ proc = [p \in Procs |-> proc[p]]
      /\ Requests \cap Workers = {}
  BY TypeParts, JournalConstants DEF Procs, HeldInv
<1>3. row.state = "in_flight" /\ row.holder = w /\ row.live /\ q.pc = "claimed" /\ q.op = o
  OBVIOUS
<1> HIDE DEF row, q, tries
<1>4. /\ \A p \in Procs : proc'[p] = IF p = w THEN q ELSE proc[p]
      /\ \A u \in Ops : event'[u] = IF u = o THEN row ELSE event[u]
  BY <1>1, <1>2
<1> SUFFICES ASSUME Production PROVE WorkersHold'
  BY DEF WorkersHold
<1>5. ASSUME NEW r \in Requests PROVE proc'[r].pc \notin Executing
  BY <1>2, <1>4 DEF HeldInv, WorkersHold, Procs
<1>6. ASSUME budget'.overruns = 0, NEW v \in Workers, proc'[v].pc # "idle"
      PROVE  LET e == event'[proc'[v].op] IN e.state = "in_flight" /\ e.holder = v /\ e.live
  <2>1. CASE v = w
    BY <1>2, <1>3, <1>4, <2>1
  <2>2. CASE v # w
    <3>1. proc'[v] = proc[v] /\ proc[v].pc # "idle"
      BY <1>4, <1>6, <2>2 DEF Procs
    <3>2. LET e == event[proc[v].op] IN e.state = "in_flight" /\ e.holder = v /\ e.live
      BY <1>1, <1>6, <3>1 DEF HeldInv, WorkersHold
    <3>3. proc[v].op # o /\ proc[v].op \in Ops
      BY <1>1, <3>1, <3>2, BusyOp DEF Claimable, HeldInv
    <3> QED
      BY <1>4, <3>1, <3>2, <3>3
  <2> QED
    BY <2>1, <2>2
<1> QED
  BY <1>5, <1>6 DEF WorkersHold

LEMMA SettleEventHeld ==
  ASSUME HeldInv, NEW w \in Workers, SettleEvent(w)
  PROVE  WorkersHold'
<1> DEFINE o == proc[w].op
<1>1. /\ proc' = [proc EXCEPT ![w] = Idle] /\ UNCHANGED budget /\ w \in Procs /\ IInv
      /\ event \in [Ops -> EventRow]
  BY TypeParts DEF SettleEvent, Procs, HeldInv
<1>2. Calmly(w)
  BY <1>1, IdleGoes
<1>3. CASE event' = event
  BY <1>1, <1>2, <1>3, EventsSameHeld, HeldKept
<1>4. ASSUME event[o].holder = w, NEW row, event' = [event EXCEPT ![o] = row]
      PROVE  WorkersHold'
  <2> SUFFICES ASSUME Production PROVE WorkersHold'
    BY DEF WorkersHold
  <2>1. \A r \in Requests : proc'[r].pc \notin Executing
    BY <1>2 DEF HeldInv, WorkersHold, Calmly, Procs
  <2>2. ASSUME budget'.overruns = 0, NEW v \in Workers, proc'[v].pc # "idle"
        PROVE  LET e == event'[proc'[v].op] IN e.state = "in_flight" /\ e.holder = v /\ e.live
    <3>1. v # w
      <4>1. proc'[w] = Idle
        BY <1>1, TypeParts
      <4> QED
        BY <2>2, <4>1 DEF Idle
    <3>2. proc'[v] = proc[v]
      BY <1>2, <3>1 DEF Calmly, Procs
    <3>3. LET e == event[proc[v].op] IN e.state = "in_flight" /\ e.holder = v /\ e.live
      BY <1>1, <2>2, <3>2 DEF HeldInv, WorkersHold
    <3>4. proc[v].op # o /\ proc[v].op \in Ops
      BY <1>1, <1>4, <2>2, <3>1, <3>2, <3>3, BusyOp
    <3> QED
      BY <1>1, <1>4, <3>2, <3>3, <3>4
  <2> QED
    BY <2>1, <2>2 DEF WorkersHold
<1>5. event' = event \/ (event[o].holder = w /\ \E row : event' = [event EXCEPT ![o] = row])
  BY DEF SettleEvent
<1> QED
  BY <1>3, <1>4, <1>5

LEMMA WorkHeld ==
  ASSUME HeldInv, NEW w \in Workers, Work(w)
  PROVE  WorkersHold'
<1>1. CASE Handle(w)
  <2> DEFINE o == proc[w].op
  <2>1. /\ proc[w].pc # "idle" /\ UNCHANGED <<event, budget>> /\ w \in Procs /\ IInv
    BY <1>1 DEF Handle, Procs, HeldInv
  <2>2. CASE \E how \in {"returned", "raised"} : proc' = [proc EXCEPT ![w] = End(w, how)]
    BY <2>1, <2>2, EndGoes, EventsSameHeld, HeldKept
  <2>3. CASE proc' = [proc EXCEPT ![w] = Session(o, tx, op[o], tx, op[o].request)]
    <3>1. Calmly(w)
      BY <2>1, <2>3, StartGoes
    <3> QED
      BY <2>1, <3>1, EventsSameHeld, HeldKept
  <2> QED
    BY <1>1, <2>2, <2>3 DEF Handle
<1> QED
  BY <1>1, ClaimEventHeld, SettleEventHeld DEF Work

\* Nobody moves; what is held stays held.
LEMMA StillHeld ==
  ASSUME HeldInv, proc' = proc, EventsHeld, budget'.overruns = 0 => budget.overruns = 0
  PROVE  WorkersHold'
<1> SUFFICES ASSUME Production PROVE WorkersHold'
  BY DEF WorkersHold
<1>1. ASSUME budget'.overruns = 0, NEW w \in Workers, proc[w].pc # "idle"
      PROVE  LET e == event'[proc[w].op] IN e.state = "in_flight" /\ e.holder = w /\ e.live
  <2>1. LET e == event[proc[w].op] IN e.state = "in_flight" /\ e.holder = w /\ e.live
    BY <1>1 DEF HeldInv, WorkersHold
  <2>2. proc[w].op \in Ops /\ w # None
    BY <1>1, BusyOp, JournalConstants DEF HeldInv
  <2> QED
    BY <2>1, <2>2 DEF EventsHeld
<1> QED
  BY <1>1 DEF HeldInv, WorkersHold

\* An overrun is never taken back.
LEMMA OverrunsStay ==
  ASSUME IInv, NEW held, RunsOut(held)
  PROVE  /\ budget'.overruns = 0 => budget.overruns = 0
         /\ held = TRUE => budget'.overruns # 0
<1>1. budget \in Budgets /\ budget.overruns \in Nat
  BY TypeParts, JournalConstants DEF Budgets
<1> QED
  BY <1>1 DEF RunsOut, Budgets

LEMMA TimeHeld ==
  ASSUME HeldInv, NEW o \in Ops, ReplayDead(o) \/ OpLeaseExpires(o) \/ EventLeaseExpires(o)
  PROVE  WorkersHold'
<1>1. proc' = proc /\ event \in [Ops -> EventRow] /\ budget \in Budgets
  BY TypeParts DEF HeldInv, ReplayDead, OpLeaseExpires, EventLeaseExpires
<1>2. ASSUME NEW held, RunsOut(held)
      PROVE  /\ budget'.overruns = 0 => budget.overruns = 0
             /\ held = TRUE => budget'.overruns # 0
  BY <1>2, OverrunsStay DEF HeldInv
<1>3. CASE ReplayDead(o)
  <2>1. EventsHeld
    BY <1>1, <1>3 DEF ReplayDead, EventsHeld
  <2>2. budget'.overruns = budget.overruns
    BY <1>1, <1>3 DEF ReplayDead, Requested, Budgets
  <2> QED
    BY <1>1, <2>1, <2>2, StillHeld
<1>4. CASE OpLeaseExpires(o)
  BY <1>1, <1>2, <1>4, EventsSameHeld, StillHeld DEF OpLeaseExpires
<1>5. CASE EventLeaseExpires(o)
  <2>1. budget'.overruns = 0 => budget.overruns = 0
    BY <1>2, <1>5 DEF EventLeaseExpires
  <2>2. CASE event[o].holder = None
    <3>1. EventsHeld
      BY <1>1, <1>5, <2>2 DEF EventLeaseExpires, EventsHeld
    <3> QED
      BY <1>1, <2>1, <3>1, StillHeld
  <2>3. CASE event[o].holder # None
    <3>1. budget'.overruns # 0
      <4>1. (event[o].holder # None) = TRUE
        BY <2>3
      <4> QED
        BY <1>2, <1>5, <4>1 DEF EventLeaseExpires
    <3> QED
      BY <1>1, <3>1 DEF HeldInv, WorkersHold
  <2> QED
    BY <2>2, <2>3
<1> QED
  BY <1>3, <1>4, <1>5

LEMMA CrashHeld ==
  ASSUME HeldInv, NEW p \in Procs, Crash(p)
  PROVE  WorkersHold'
<1>1. /\ proc' = [proc EXCEPT ![p] = Idle] /\ IInv /\ event \in [Ops -> EventRow]
      /\ budget'.overruns = budget.overruns
      /\ event' = [o \in Ops |-> IF event[o].holder = p THEN [event[o] EXCEPT !.holder = None]
                                 ELSE event[o]]
  BY TypeParts DEF Crash, HeldInv, Budgets
<1>2. Calmly(p) /\ proc'[p] = Idle
  BY <1>1, IdleGoes, TypeParts
<1> SUFFICES ASSUME Production PROVE WorkersHold'
  BY DEF WorkersHold
<1>3. \A r \in Requests : proc'[r].pc \notin Executing
  BY <1>2 DEF HeldInv, WorkersHold, Calmly, Procs
<1>4. ASSUME budget'.overruns = 0, NEW v \in Workers, proc'[v].pc # "idle"
      PROVE  LET e == event'[proc'[v].op] IN e.state = "in_flight" /\ e.holder = v /\ e.live
  <2>1. v # p
    BY <1>2, <1>4 DEF Idle
  <2>2. proc'[v] = proc[v]
    BY <1>2, <2>1 DEF Calmly, Procs
  <2>3. LET e == event[proc[v].op] IN e.state = "in_flight" /\ e.holder = v /\ e.live
    BY <1>1, <1>4, <2>2 DEF HeldInv, WorkersHold
  <2>4. proc[v].op \in Ops
    BY <1>1, <1>4, <2>2, BusyOp
  <2>5. event'[proc[v].op] = event[proc[v].op]
    BY <1>1, <2>1, <2>3, <2>4
  <2> QED
    BY <2>2, <2>3, <2>5
<1> QED
  BY <1>3, <1>4 DEF WorkersHold

LEMMA StepHeld == ASSUME HeldInv, [Next]_vars PROVE HeldInv'
<1>1. IInv'
  BY StepIInv DEF HeldInv
<1>2. ASSUME UNCHANGED vars PROVE WorkersHold'
  BY <1>2, EventsSameHeld, StillHeld DEF vars
<1>3. ASSUME Next PROVE WorkersHold'
  BY <1>3, RequestHeld, ExecuteHeld, CrashHeld, WorkHeld, TimeHeld DEF Next, Expire
<1>4. WorkersHold'
  BY <1>2, <1>3
<1> QED
  BY <1>1, <1>4 DEF HeldInv

LEMMA InitHeld == Init => HeldInv
<1> SUFFICES ASSUME Init PROVE HeldInv
  OBVIOUS
<1>1. \A p \in Procs : proc[p].pc = "idle"
  BY DEF Init, Idle
<1> QED
  BY <1>1, InitIInv DEF HeldInv, WorkersHold, Procs, Executing

\* Workers hold the events of what they work on, and only workers execute (production).
THEOREM WorkersHoldAlways == Spec => []HeldInv
<1>1. Init => HeldInv
  BY InitHeld
<1>2. HeldInv /\ [Next]_vars => HeldInv'
  BY StepHeld
<1> QED
  BY <1>1, <1>2, PTL DEF Spec

\* In production, as long as no lease runs out under its holder, no two processes
\* execute one operation.
THEOREM OneExecutesInProduction == Spec => [](Production => OneExecutes)
<1>1. HeldInv => (Production => OneExecutes)
  <2> SUFFICES ASSUME HeldInv, Production, budget.overruns = 0, NEW o \in Ops, NEW p \in Procs,
                      NEW q \in Procs, Executes(p, o), Executes(q, o)
               PROVE  p = q
    BY DEF OneExecutes
  <2>1. p \in Workers /\ q \in Workers /\ proc[p].pc # "idle" /\ proc[q].pc # "idle"
    BY DEF HeldInv, WorkersHold, Executes, Executing, Procs
  <2>2. event[o].holder = p /\ event[o].holder = q
    BY <2>1 DEF HeldInv, WorkersHold, Executes
  <2> QED
    BY <2>2
<1> QED
  BY <1>1, WorkersHoldAlways, PTL

-----------------------------------------------------------------------------
(* One expense of an operation, in production.                             *)

NoneBears(o) == \A i \in Live : expense[i].mark # o

\* Outside production nothing is queued.
Unqueued == ~Production => \A o \in Ops : event[o].state = "absent"

\* A worker that is about to create, or is creating, an expense has none to find:
\* it is the first to try, or it has looked, and nobody else works on the operation.
CreatesFirst ==
  Production /\ budget.overruns = 0 =>
    \A w \in Workers :
      proc[w].pc \in {"go", "call"} /\ proc[w].op.action = "create" => NoneBears(proc[w].op)

MarkedOnce ==
  Production /\ budget.overruns = 0 =>
    \A i, j \in Live : expense[i].mark = expense[j].mark => i = j

MarkInv == HeldInv /\ Unqueued /\ CreatesFirst /\ MarkedOnce

\* A step after which no expense is live that was not, and one that takes process p
\* to the provider only where there is nothing to find.
NothingNew == \A i \in Ids : expense'[i].state = "live" =>
                             expense[i].state = "live" /\ expense'[i].mark = expense[i].mark

Ready(p) ==
  Production /\ budget.overruns = 0 /\ p \in Workers
  /\ proc'[p].pc \in {"go", "call"} /\ proc'[p].op.action = "create" => NoneBears(proc'[p].op)

\* An operation that was never tried has no expense.
LEMMA UntriedBare ==
  ASSUME IInv, NEW o \in Ops, ~op[o].tried
  PROVE  NoneBears(o)
  BY DEF IInv, WrittenAhead, NoneBears, Live

LEMMA SameIsNothingNew == ASSUME expense' = expense PROVE NothingNew
  BY DEF NothingNew

LEMMA MarksKept ==
  ASSUME MarkInv, NEW p \in Procs, \A q \in Procs : q # p => proc'[q] = proc[q],
         NothingNew, Ready(p), budget'.overruns = 0 => budget.overruns = 0
  PROVE  CreatesFirst' /\ MarkedOnce'
<1>1. MarkedOnce'
  BY DEF MarkInv, MarkedOnce, NothingNew, Live
<1>2. ASSUME Production, budget'.overruns = 0, NEW w \in Workers, proc'[w].pc \in {"go", "call"},
             proc'[w].op.action = "create", NEW i \in Ids, expense'[i].state = "live"
      PROVE  expense'[i].mark # proc'[w].op
  <2>1. budget.overruns = 0 /\ i \in Live /\ expense'[i].mark = expense[i].mark
    BY <1>2 DEF NothingNew, Live
  <2>2. CASE w = p
    BY <1>2, <2>1, <2>2 DEF Ready, NoneBears
  <2>3. CASE w # p
    <3>1. proc'[w] = proc[w]
      BY <2>3 DEF Procs
    <3> QED
      BY <1>2, <2>1, <3>1 DEF MarkInv, CreatesFirst, NoneBears
  <2> QED
    BY <2>2, <2>3
<1>3. CreatesFirst'
  BY <1>2 DEF CreatesFirst, NoneBears, Live
<1> QED
  BY <1>1, <1>3

\* Nobody moves and nothing is created.
LEMMA MarksStill ==
  ASSUME MarkInv, proc' = proc, NothingNew, budget'.overruns = 0 => budget.overruns = 0
  PROVE  CreatesFirst' /\ MarkedOnce'
<1>1. MarkedOnce'
  BY DEF MarkInv, MarkedOnce, NothingNew, Live
<1>2. CreatesFirst'
  BY DEF MarkInv, CreatesFirst, NothingNew, NoneBears, Live
<1> QED
  BY <1>1, <1>2

\* Where a process moves to, if not to the provider.
LEMMA RestReady ==
  ASSUME IInv, NEW p \in Procs, NEW q, q.pc \notin {"go", "call"}, proc' = [proc EXCEPT ![p] = q]
  PROVE  Ready(p)
<1>1. proc'[p] = q
  BY TypeParts
<1> QED
  BY <1>1 DEF Ready

LEMMA IdleReady ==
  ASSUME IInv, NEW p \in Procs, proc' = [proc EXCEPT ![p] = Idle]
  PROVE  Ready(p)
<1>1. Idle.pc \notin {"go", "call"}
  BY DEF Idle
<1> QED
  BY <1>1, RestReady

LEMMA EndReady ==
  ASSUME IInv, NEW p \in Procs, NEW how \in {"returned", "raised"},
         proc' = [proc EXCEPT ![p] = End(p, how)]
  PROVE  Ready(p)
<1>1. End(p, how).pc \notin {"go", "call"}
  BY DEF End, Idle
<1> QED
  BY <1>1, RestReady

LEMMA RaiseReady ==
  ASSUME IInv, NEW p \in Procs, NEW s, proc' = [proc EXCEPT ![p] = Raise(p, s)]
  PROVE  Ready(p)
<1>1. PICK how \in {"returned", "raised"} : Raise(p, s) = End(p, how)
  BY DEF Raise
<1> QED
  BY <1>1, EndReady

\* A session goes straight to the provider only for an operation that was not tried.
LEMMA SessionReady ==
  ASSUME IInv, NEW p \in Procs, NEW o \in Ops, NEW t, NEW mine, NEW payload,
         proc' = [proc EXCEPT ![p] = Session(o, t, op[o], mine, payload)]
  PROVE  Ready(p)
<1> DEFINE q == Session(o, t, op[o], mine, payload)
<1>1. q.op = o /\ q.pc \in {"done", "look", "go"} /\ (q.pc = "go" => ~op[o].tried)
  BY EntryShape DEF Session, Entry
<1>2. proc'[p] = q
  BY TypeParts
<1> HIDE DEF q
<1> QED
  BY <1>1, <1>2, UntriedBare DEF Ready

\* A lookup that finds no expense of the operation leads to the provider.
LEMMA LookReady ==
  ASSUME IInv, NEW p \in Procs, Look(p)
  PROVE  Ready(p)
<1> DEFINE me == proc[p]
           done == (Shown(me) = {}) = Removes(me.op)
           target == IF done /\ me.op.action = "create"
                     THEN CHOOSE i \in Shown(me) : TRUE ELSE me.target
           q == [me EXCEPT !.pc = IF done THEN "done" ELSE "go", !.target = target]
<1>1. me \in Sessions
  BY SessionOf DEF Look, SessionPcs
<1>2. CASE proc' = [proc EXCEPT ![p] = Raise(p, me.seen.state)]
  BY <1>2, RaiseReady
<1>3. CASE proc' = [proc EXCEPT ![p] = q]
  <2>1. q.op = me.op /\ q.pc = IF done THEN "done" ELSE "go"
    BY <1>1 DEF Sessions
  <2>2. proc'[p] = q
    BY <1>3, TypeParts
  <2>3. me.op.action = "create" /\ ~done => NoneBears(me.op)
    <3>1. me.op.action = "create" => Removes(me.op) = FALSE
      BY DEF Removes
    <3>2. Shown(me) # {} => (Shown(me) = {}) = FALSE
      OBVIOUS
    <3> HIDE DEF me
    <3>3. me.op.action = "create" /\ ~done => Shown(me) = {}
      BY <3>1, <3>2
    <3>4. me.op.action = "create" /\ Shown(me) = {} => NoneBears(me.op)
      BY DEF Shown, NoneBears, Live
    <3> QED
      BY <3>3, <3>4
  <2> HIDE DEF q, done, me
  <2> QED
    BY <2>1, <2>2, <2>3 DEF Ready
<1> QED
  BY <1>2, <1>3 DEF Look

\* A step of the execution that is not a call prepares the next one.
LEMMA ExecuteReady ==
  ASSUME MarkInv, NEW p \in Procs, Execute(p), ~Call(p)
  PROVE  Ready(p)
<1> DEFINE me == proc[p]
<1>0. IInv
  BY DEF MarkInv, HeldInv
<1>1. CASE LostInsert(p)
  <2>1. me.pc = "insert" /\ proc' = [proc EXCEPT ![p] = Session(me.op, tx, op[me.op], tx, me.payload)]
    BY <1>1 DEF LostInsert
  <2>2. me.op \in Ops
    BY <1>0, <2>1, ProcOp
  <2> QED
    BY <1>0, <2>1, <2>2, SessionReady
<1>2. CASE Look(p)
  BY <1>0, <1>2, LookReady
<1>3. CASE Recover(p) \/ Succeed(p) \/ FailCall(p)
  <2>1. \E how \in {"returned", "raised"} : proc' = [proc EXCEPT ![p] = End(p, how)]
    BY <1>3 DEF Recover, Succeed, FailCall
  <2> QED
    BY <1>0, <2>1, EndReady
<1>4. CASE Queue(p) \/ Write(p)
  <2>1. proc' = [proc EXCEPT ![p] = Idle]
    BY <1>4 DEF Queue, Write
  <2> QED
    BY <1>0, <2>1, IdleReady
<1>5. CASE Acquire(p)
  <2>1. me.pc = "go" /\ me \in Sessions
    BY <1>0, <1>5, SessionOf DEF Acquire, SessionPcs
  <2>2. CASE proc' = [proc EXCEPT ![p].pc = "call"]
    <3>1. proc'[p] = [me EXCEPT !.pc = "call"]
      BY <1>0, <2>2, TypeParts
    <3>2. proc'[p].op = me.op
      BY <2>1, <3>1 DEF Sessions
    <3> QED
      BY <2>1, <3>2 DEF Ready, MarkInv, CreatesFirst
  <2>3. CASE proc' = [proc EXCEPT ![p] = Raise(p, op[me.op].state)]
    BY <1>0, <2>3, RaiseReady
  <2> QED
    BY <1>5, <2>2, <2>3 DEF Acquire
<1> QED
  BY <1>1, <1>2, <1>3, <1>4, <1>5 DEF Execute

\* A create makes the one live expense that bears its mark, and no other worker is
\* about to create another: it would hold the same event.
LEMMA CreateKept ==
  ASSUME MarkInv, Production, budget.overruns = 0, NEW p \in Procs, proc[p].pc = "call", Calmly(p),
         proc'[p].pc \notin {"go", "call"}, proc[p].op.action = "create",
         NEW k \in Ids, NEW new, new.state = "live", new.mark = proc[p].op,
         expense' = [expense EXCEPT ![k] = new]
  PROVE  CreatesFirst' /\ MarkedOnce'
<1>1. /\ p \in Workers /\ expense \in [Ids -> ExpenseRow] /\ IInv
      /\ NoneBears(proc[p].op)
  BY TypeParts DEF MarkInv, HeldInv, WorkersHold, Executing, Procs, CreatesFirst
<1>2. /\ \A i \in Ids : expense'[i] = IF i = k THEN new ELSE expense[i]
      /\ \A i \in Ids \ {k} : expense'[i].state = "live" => expense[i].mark # proc[p].op
  BY <1>1 DEF NoneBears, Live
<1>3. MarkedOnce'
  <2>1. ASSUME NEW i \in Ids, NEW j \in Ids, expense'[i].state = "live", expense'[j].state = "live",
               expense'[i].mark = expense'[j].mark
        PROVE  i = j
    BY <1>2, <2>1 DEF MarkInv, MarkedOnce, Live
  <2> QED
    BY <2>1 DEF MarkedOnce, Live
<1>4. ASSUME NEW w \in Workers, proc'[w].pc \in {"go", "call"}, proc'[w].op.action = "create",
             NEW i \in Ids, expense'[i].state = "live"
      PROVE  expense'[i].mark # proc'[w].op
  <2>1. w # p /\ proc'[w] = proc[w] /\ w \in Procs
    BY <1>4 DEF Calmly, Procs
  <2>2. proc[w].op # proc[p].op
    <3>1. event[proc[w].op].holder = w /\ event[proc[p].op].holder = p
      BY <1>1, <1>4, <2>1 DEF MarkInv, HeldInv, WorkersHold
    <3> QED
      BY <2>1, <3>1
  <2> QED
    BY <1>2, <1>4, <2>1, <2>2 DEF MarkInv, CreatesFirst, NoneBears, Live
<1>5. CreatesFirst'
  BY <1>4 DEF CreatesFirst, NoneBears, Live
<1> QED
  BY <1>3, <1>5

\* A call that updates or deletes makes no expense.
LEMMA ApplyNothingNew ==
  ASSUME IInv, NEW p \in Procs, proc[p].pc = "call", proc[p].op.action # "create",
         CanApply(proc[p]), expense' \in Applied(proc[p])
  PROVE  NothingNew
<1> DEFINE me == proc[p]
<1>1. expense \in [Ids -> ExpenseRow] /\ me.op.action \in Actions
  BY SessionOf, SessionFields, TypeParts DEF SessionPcs
<1>2. CASE me.op.action = "update"
  <2>1. expense' = [expense EXCEPT ![me.target].cost = me.payload]
    BY <1>2 DEF Applied
  <2>2. \A e \in ExpenseRow : LET n == [e EXCEPT !.cost = me.payload] IN
          n.state = e.state /\ n.mark = e.mark
    BY DEF ExpenseRow
  <2> QED
    BY <1>1, <2>1, <2>2 DEF NothingNew
<1>3. CASE me.op.action \in {"delete", "remove"}
  <2>1. expense' = [expense EXCEPT ![me.target].state = "deleted"]
    BY <1>3 DEF Applied
  <2>2. \A e \in ExpenseRow : [e EXCEPT !.state = "deleted"].state = "deleted"
    BY DEF ExpenseRow
  <2>3. \A j \in Ids : expense'[j] = IF j = me.target
                                     THEN [expense[j] EXCEPT !.state = "deleted"] ELSE expense[j]
    BY <1>1, <2>1
  <2>4. \A j \in Ids : expense[j] \in ExpenseRow
    BY <1>1
  <2> HIDE DEF me
  <2>5. ASSUME NEW j \in Ids, expense'[j].state = "live"
        PROVE  expense'[j] = expense[j]
    BY <2>2, <2>3, <2>4, <2>5
  <2> QED
    BY <2>5 DEF NothingNew
<1> QED
  BY <1>1, <1>2, <1>3 DEF Actions

LEMMA CallMarks ==
  ASSUME MarkInv, NEW p \in Procs, Call(p)
  PROVE  CreatesFirst' /\ MarkedOnce'
<1> DEFINE me == proc[p]
<1>1. me.pc = "call" /\ UNCHANGED budget /\ IInv /\ me \in Sessions /\ Calmly(p)
  BY SessionOf, ExecuteCalm DEF Call, MarkInv, HeldInv, SessionPcs, Execute
<1>2. proc'[p].pc \notin {"go", "call"}
  <2>1. \E result \in {"ok", "rejected", "ambiguous"} : \E target :
          \/ proc' = [proc EXCEPT ![p] = [me EXCEPT !.pc = result, !.target = target]]
          \/ proc' = [proc EXCEPT ![p] = [me EXCEPT !.pc = result]]
    BY DEF Call
  <2>2. PICK result \in {"ok", "rejected", "ambiguous"} : \E target :
          \/ proc' = [proc EXCEPT ![p] = [me EXCEPT !.pc = result, !.target = target]]
          \/ proc' = [proc EXCEPT ![p] = [me EXCEPT !.pc = result]]
    BY <2>1
  <2>3. PICK target :
          \/ proc' = [proc EXCEPT ![p] = [me EXCEPT !.pc = result, !.target = target]]
          \/ proc' = [proc EXCEPT ![p] = [me EXCEPT !.pc = result]]
    BY <2>2
  <2>4. /\ [me EXCEPT !.pc = result, !.target = target].pc = result
        /\ [me EXCEPT !.pc = result].pc = result
    BY <1>1 DEF Sessions
  <2>5. \/ proc'[p] = [me EXCEPT !.pc = result, !.target = target]
        \/ proc'[p] = [me EXCEPT !.pc = result]
    BY <1>1, <2>3, TypeParts
  <2> QED
    BY <2>4, <2>5
<1>3. CASE NothingNew
  <2>1. Ready(p)
    BY <1>2 DEF Ready
  <2> QED
    BY <1>1, <1>3, <2>1, MarksKept DEF Calmly
<1>4. CASE me.op.action = "create" /\ CanApply(me) /\ expense' \in Applied(me)
  <2> DEFINE k == CHOOSE i \in Ids : expense[i].state = "absent"
             new == [state |-> "live", mark |-> me.op, cost |-> me.payload]
  <2>1. k \in Ids /\ expense' = [expense EXCEPT ![k] = new]
    BY <1>4 DEF CanApply, Applied
  <2>2. new.state = "live" /\ new.mark = me.op
    OBVIOUS
  <2> HIDE DEF k, new
  <2>3. CASE Production /\ budget.overruns = 0
    BY <1>1, <1>2, <1>4, <2>1, <2>2, <2>3, CreateKept
  <2>4. CASE ~(Production /\ budget.overruns = 0)
    BY <1>1, <2>4 DEF CreatesFirst, MarkedOnce
  <2> QED
    BY <2>3, <2>4
<1>5. expense' = expense \/ (CanApply(me) /\ expense' \in Applied(me))
  BY DEF Call
<1>6. CASE me.op.action # "create" /\ CanApply(me) /\ expense' \in Applied(me)
  BY <1>1, <1>3, <1>6, ApplyNothingNew
<1> QED
  BY <1>3, <1>4, <1>5, <1>6, SameIsNothingNew

LEMMA ExecuteMarks ==
  ASSUME MarkInv, NEW p \in Procs, Execute(p)
  PROVE  CreatesFirst' /\ MarkedOnce'
<1>1. CASE Call(p)
  BY <1>1, CallMarks
<1>2. CASE ~Call(p)
  <2>1. UNCHANGED <<expense, budget>>
    BY <1>2 DEF Execute, LostInsert, Look, Recover, Queue, Acquire, Succeed, FailCall, Write
  <2>2. Calmly(p)
    BY ExecuteCalm DEF MarkInv
  <2> QED
    BY <1>2, <2>1, <2>2, ExecuteReady, SameIsNothingNew, MarksKept DEF Calmly
<1> QED
  BY <1>1, <1>2

LEMMA WorkMarks ==
  ASSUME MarkInv, NEW w \in Workers, Work(w)
  PROVE  CreatesFirst' /\ MarkedOnce'
<1> DEFINE o == proc[w].op
<1>0. w \in Procs /\ IInv /\ UNCHANGED <<expense, budget>>
  BY DEF MarkInv, HeldInv, Procs, Work, Handle, SettleEvent, ClaimEvent
<1>1. Ready(w)
  <2>1. CASE Handle(w)
    <3>1. CASE \E how \in {"returned", "raised"} : proc' = [proc EXCEPT ![w] = End(w, how)]
      BY <1>0, <3>1, EndReady
    <3>2. CASE proc' = [proc EXCEPT ![w] = Session(o, tx, op[o], tx, op[o].request)]
      <4>1. o \in Ops
        BY <1>0, <2>1, ProcOp DEF Handle, Working
      <4> QED
        BY <1>0, <3>2, <4>1, SessionReady
    <3> QED
      BY <2>1, <3>1, <3>2 DEF Handle
  <2>2. CASE SettleEvent(w)
    BY <1>0, <2>2, IdleReady DEF SettleEvent
  <2>3. ASSUME NEW u \in Ops, ClaimEvent(w, u)
        PROVE  Ready(w)
    <3> DEFINE q == [pc |-> "claimed", op |-> u]
    <3>1. q.pc \notin {"go", "call"} /\ proc' = [proc EXCEPT ![w] = q]
      BY <2>3 DEF ClaimEvent
    <3> HIDE DEF q
    <3> QED
      BY <1>0, <3>1, RestReady
  <2> QED
    BY <2>1, <2>2, <2>3 DEF Work
<1>2. \A v \in Procs : v # w => proc'[v] = proc[v]
  <2>1. \E q : proc' = [proc EXCEPT ![w] = q]
    BY DEF Work, Handle, SettleEvent, ClaimEvent
  <2> QED
    BY <1>0, <2>1, TypeParts
<1> QED
  BY <1>0, <1>1, <1>2, SameIsNothingNew, MarksKept

LEMMA RequestMarks ==
  ASSUME MarkInv, NEW p \in Requests, Request(p)
  PROVE  CreatesFirst' /\ MarkedOnce'
<1>1. /\ p \in Procs /\ p \notin Workers /\ Calmly(p) /\ UNCHANGED expense
      /\ budget'.overruns = 0 => budget.overruns = 0
  BY RequestCalm DEF MarkInv
<1>2. Ready(p)
  BY <1>1 DEF Ready
<1> QED
  BY <1>1, <1>2, SameIsNothingNew, MarksKept DEF Calmly

LEMMA TimeMarks ==
  ASSUME MarkInv, NEW o \in Ops, ReplayDead(o) \/ OpLeaseExpires(o) \/ EventLeaseExpires(o)
  PROVE  CreatesFirst' /\ MarkedOnce'
<1>1. UNCHANGED <<proc, expense>> /\ IInv /\ budget \in Budgets
  BY TypeParts DEF MarkInv, HeldInv, ReplayDead, OpLeaseExpires, EventLeaseExpires
<1>2. budget'.overruns = 0 => budget.overruns = 0
  <2>1. CASE ReplayDead(o)
    BY <1>1, <2>1 DEF ReplayDead, Requested, Budgets
  <2>2. CASE \E held : RunsOut(held)
    BY <1>1, <2>2, OverrunsStay
  <2> QED
    BY <2>1, <2>2 DEF OpLeaseExpires, EventLeaseExpires
<1> QED
  BY <1>1, <1>2, SameIsNothingNew, MarksStill

LEMMA CrashMarks ==
  ASSUME MarkInv, NEW p \in Procs, Crash(p)
  PROVE  CreatesFirst' /\ MarkedOnce'
<1>1. /\ proc' = [proc EXCEPT ![p] = Idle] /\ UNCHANGED expense /\ IInv
      /\ budget'.overruns = budget.overruns
  BY TypeParts DEF Crash, MarkInv, HeldInv, Budgets
<1>2. Calmly(p) /\ Ready(p)
  BY <1>1, IdleGoes, IdleReady
<1> QED
  BY <1>1, <1>2, SameIsNothingNew, MarksKept DEF Calmly

\* Outside production requests do not queue, so that no worker finds anything to claim.
LEMMA UnqueuedKept == ASSUME MarkInv, [Next]_vars PROVE Unqueued'
<1> SUFFICES ASSUME ~Production, NEW o \in Ops PROVE event'[o].state = "absent"
  BY DEF Unqueued
<1>1. /\ \A u \in Ops : event[u].state = "absent"
      /\ event \in [Ops -> EventRow] /\ event[o] \in EventRow
  BY TypeParts DEF MarkInv, HeldInv, Unqueued
<1>2. CASE UNCHANGED event
  BY <1>1, <1>2
<1>3. ASSUME NEW p \in Procs, Execute(p) PROVE UNCHANGED event
  BY <1>3 DEF Execute, LostInsert, Look, Recover, Queue, Defers, Acquire, Call, Succeed, FailCall, Write
<1>4. ASSUME NEW p \in Requests, Request(p) PROVE UNCHANGED event
  BY <1>4, RequestCalm DEF MarkInv
<1>5. ASSUME NEW w \in Workers, Work(w) PROVE UNCHANGED event
  <2>1. ASSUME NEW u \in Ops PROVE ~ClaimEvent(w, u)
    BY <1>1 DEF ClaimEvent, Claimable
  <2>2. CASE Handle(w)
    BY <2>2 DEF Handle
  <2>3. CASE SettleEvent(w)
    <3>1. proc[w].op \in Ops
      BY <2>3, ProcOp DEF SettleEvent, Working, MarkInv, HeldInv, Procs
    <3> QED
      BY <1>1, <2>3, <3>1 DEF SettleEvent
  <2> QED
    BY <1>5, <2>1, <2>2, <2>3 DEF Work
<1>6. ASSUME NEW u \in Ops, ReplayDead(u) PROVE FALSE
  BY <1>1, <1>6 DEF ReplayDead
<1>7. ASSUME NEW u \in Ops, OpLeaseExpires(u) PROVE UNCHANGED event
  BY <1>7 DEF OpLeaseExpires
<1>8. ASSUME NEW u \in Ops, EventLeaseExpires(u) PROVE event'[o].state = "absent"
  <2>1. event'[o] = event[o] \/ event'[o] = [event[o] EXCEPT !.live = FALSE]
    BY <1>1, <1>8 DEF EventLeaseExpires
  <2> QED
    BY <1>1, <2>1 DEF EventRow
<1>9. ASSUME NEW p \in Procs, Crash(p) PROVE event'[o].state = "absent"
  <2>1. event'[o] = event[o] \/ event'[o] = [event[o] EXCEPT !.holder = None]
    BY <1>9 DEF Crash
  <2> QED
    BY <1>1, <2>1 DEF EventRow
<1>10. CASE Next
  BY <1>2, <1>3, <1>4, <1>5, <1>6, <1>7, <1>8, <1>9, <1>10 DEF Next, Expire
<1> QED
  BY <1>2, <1>10 DEF vars

LEMMA StepMarks == ASSUME MarkInv, [Next]_vars PROVE MarkInv'
<1>1. HeldInv' /\ Unqueued'
  BY StepHeld, UnqueuedKept DEF MarkInv
<1>2. ASSUME UNCHANGED vars PROVE CreatesFirst' /\ MarkedOnce'
  BY <1>2, SameIsNothingNew, MarksStill DEF vars
<1>3. ASSUME Next PROVE CreatesFirst' /\ MarkedOnce'
  BY <1>3, ExecuteMarks, RequestMarks, WorkMarks, TimeMarks, CrashMarks DEF Next, Expire
<1>4. CreatesFirst' /\ MarkedOnce'
  BY <1>2, <1>3
<1> QED
  BY <1>1, <1>4 DEF MarkInv

\* As long as no lease runs out under its holder, an operation queued for the worker
\* leaves at most one live expense: whatever was lost, retried or died, the next attempt
\* finds the marker of the one before.  (Of one operation; of two generations of a
\* transaction there can be one each, AtMostOneLiveExpense.)
THEOREM OneExpenseHolds == Spec => []OneExpensePerOperation
<1>1. Init => HeldInv
  BY InitHeld
<1>2. Init => MarkInv
  <2> SUFFICES ASSUME Init PROVE Unqueued /\ CreatesFirst /\ MarkedOnce
    BY <1>1 DEF MarkInv
  <2>1. \A p \in Procs : proc[p].pc = "idle"
    BY DEF Init, Idle
  <2>2. Unqueued
    BY DEF Init, Unqueued
  <2>3. Live = {}
    BY DEF Init, Live
  <2> QED
    BY <2>1, <2>2, <2>3 DEF CreatesFirst, MarkedOnce, Procs
<1>3. MarkInv /\ [Next]_vars => MarkInv'
  BY StepMarks
<1>4. MarkInv => OneExpensePerOperation
  <2> SUFFICES ASSUME MarkInv, budget.overruns = 0, NEW i \in Live, NEW j \in Live,
                      expense[i].mark = expense[j].mark, event[expense[i].mark].state # "absent"
               PROVE  i = j
    BY DEF OneExpensePerOperation
  <2>1. expense[i].mark \in Ops
    BY DEF MarkInv, HeldInv, IInv, Marked, Live
  <2>2. Production
    BY <2>1, JournalConstants DEF MarkInv, Unqueued
  <2> QED
    BY <2>2 DEF MarkInv, MarkedOnce
<1> QED
  BY <1>2, <1>3, <1>4, PTL DEF Spec

-----------------------------------------------------------------------------
(* A posted transaction has its expense: one request thread in production, *)
(* nobody dies, no lease runs out under its holder, and nothing but        *)
(* posting, drafts, marking personal, undoing and replays is asked for.    *)
(* With a second thread, a death, a retry or a removal the property fails: *)
(* two processes then work on one transaction.                             *)

Undisturbed ==
  /\ Production /\ MaxCrashes = 0 /\ MaxOverruns = 0
  /\ \E r : Requests = {r}
  /\ Kinds \subseteq {"post", "draft", "personal", "undo", "replay"}

\* A process that may still change the transaction.
Busy(p) == proc[p].pc \notin {"idle", "returned"}

\* An operation that a worker executes, or will.
Driven(o) == \/ event[o].state \in {"ready", "dead"}
             \/ \E w \in Workers : Busy(w) /\ proc[w].op = o

\* What the transaction looks like meanwhile.
Awaited(o) ==
  /\ o.gen = tx.gen
  /\ \/ o.action = "create" /\ tx.status \in {"posting", "post_ambiguous"} /\ tx.expense = None
     \/ o.action = "delete" /\ tx.status \in {"undoing", "undo_ambiguous"} /\ tx.expense # None

LeasesLive ==
  \A o \in Ops : /\ event[o].live <=> event[o].state = "in_flight"
                 /\ event[o].live => event[o].holder # None

\* The status keeps requests out as long as an operation is driven: only one process
\* at a time works on the transaction.
OneAtWork ==
  \A o \in Ops : Driven(o) => Awaited(o) /\ \A r \in Requests : proc[r].pc = "idle"

\* The journal and the transaction agree about this generation, and there is no later one.
RowAgrees(o) ==
  /\ op[o].state = "none" => op[o].expense = None
  /\ tx.gen < o.gen => op[o].state = "none"
  /\ o.gen = tx.gen /\ o.action = "create" /\ op[o].state = "succeeded" => tx.expense # None
  /\ o.gen = tx.gen /\ o.action = "delete" /\ op[o].state # "none" =>
       /\ tx.status \in {"undoing", "undo_ambiguous", "error"} /\ tx.expense # None
       /\ op[o].state # "succeeded" /\ op[o].expense = tx.expense

RowsAgree ==
  /\ \A o \in Ops : RowAgrees(o)
  /\ tx.expense # None => expense[tx.expense].state # "absent"

\* What a session has loaded is what the rows still say, and what it found at Splitwise,
\* or did there, is still so.
SessionAbreast(p) ==
  LET me == proc[p]
  IN /\ me.op.gen = tx.gen
     /\ \/ me.op.action = "create" /\ tx.expense = None
        \/ me.op.action = "delete" /\ tx.expense # None /\ me.target = tx.expense
     /\ me.pc = "insert" => op[me.op].state = "none"
     /\ me.pc \in {"insert", "look", "go", "done"} =>
          /\ me.tx = tx /\ me.seen.state # "succeeded"
          /\ me.mine.status = tx.status /\ me.mine.expense = tx.expense /\ me.mine.gen = tx.gen
     /\ me.pc \in {"done", "ok"} =>
          IF me.op.action = "create" THEN me.target # None /\ expense[me.target].state = "live"
          ELSE expense[me.target].state = "deleted"
     /\ p \in Requests /\ me.op.action = "delete" => me.pc = "insert"

WriteAbreast(p) ==
  LET me == proc[p]
  IN /\ me.tx = tx /\ tx.expense = None
     /\ me.new.expense = None /\ me.new.gen = tx.gen
     /\ me.new.status \in {"ask_user", "personal", "shared_draft"}

Abreast(p) == /\ proc[p].pc \in SessionPcs => SessionAbreast(p)
              /\ proc[p].pc = "write" => WriteAbreast(p)

AllAbreast == \A p \in Procs : Abreast(p)

Backing == LeasesLive /\ OneAtWork /\ RowsAgree /\ PostedIsBacked /\ AllAbreast
BackedInv == HeldInv /\ Backing

LEMMA HoldsEvent ==
  ASSUME Undisturbed, HeldInv, NEW w \in Workers, proc[w].pc # "idle"
  PROVE  /\ proc[w].op \in Ops /\ event[proc[w].op].state = "in_flight"
         /\ event[proc[w].op].holder = w
<1>1. budget.overruns = 0
  BY TypeParts DEF Undisturbed, HeldInv, Budgets
<1>2. proc[w].op \in Ops
  BY BusyOp DEF HeldInv
<1> QED
  BY <1>1, <1>2 DEF Undisturbed, HeldInv, WorkersHold

LEMMA ProcPcs ==
  ASSUME IInv, NEW p \in Procs
  PROVE  /\ proc[p].pc \in {"idle", "write", "claimed", "returned", "raised"} \cup SessionPcs
         /\ p \in Requests => /\ p \notin Workers
                              /\ proc[p].pc \in {"idle", "write"} \cup SessionPcs
<1>1. proc[p] \in Positions(p) /\ (p \in Requests => p \notin Workers)
  BY TypeParts, JournalConstants
<1> QED
  BY <1>1 DEF Positions, Sessions, SessionPcs, Idle

\* Who is busy is alone.
LEMMA Alone ==
  ASSUME Undisturbed, BackedInv, NEW p \in Procs, Busy(p)
  PROVE  /\ \A q \in Procs : q # p => ~Busy(q)
         /\ \A o \in Ops : event[o].state \notin {"ready", "dead"}
         /\ p \in Workers => /\ proc[p].op \in Ops /\ Awaited(proc[p].op)
                             /\ \A r \in Requests : proc[r].pc = "idle"
<1>0. IInv /\ HeldInv /\ OneAtWork
  BY DEF BackedInv, Backing, HeldInv
<1>1. CASE p \in Requests
  <2>1. proc[p].pc # "idle" /\ p \notin Workers
    BY <1>0, <1>1, ProcPcs DEF Busy
  <2>2. \A o \in Ops : ~Driven(o)
    BY <1>0, <1>1, <2>1 DEF OneAtWork
  <2>3. ASSUME NEW q \in Procs, q # p, Busy(q) PROVE FALSE
    <3>1. q \in Workers
      BY <1>1, <2>3 DEF Undisturbed, Procs
    <3>2. proc[q].op \in Ops
      BY <1>0, <2>3, <3>1, HoldsEvent DEF Busy
    <3> QED
      BY <2>2, <2>3, <3>1, <3>2 DEF Driven
  <2> QED
    BY <2>1, <2>2, <2>3 DEF Driven
<1>2. CASE p \in Workers
  <2>1. /\ proc[p].op \in Ops /\ event[proc[p].op].state = "in_flight"
        /\ event[proc[p].op].holder = p
    BY <1>0, <1>2, HoldsEvent DEF Busy
  <2>2. Driven(proc[p].op)
    BY <1>2 DEF Driven
  <2>3. Awaited(proc[p].op) /\ \A r \in Requests : proc[r].pc = "idle"
    BY <1>0, <2>1, <2>2 DEF OneAtWork
  <2>4. ASSUME NEW o \in Ops, Driven(o) PROVE o = proc[p].op
    <3>1. Awaited(o)
      BY <1>0, <2>4 DEF OneAtWork
    <3>2. o.gen = proc[p].op.gen /\ o.action = proc[p].op.action
      BY <2>3, <3>1 DEF Awaited
    <3> QED
      BY <2>1, <3>2 DEF Ops
  <2>5. \A o \in Ops : event[o].state \notin {"ready", "dead"}
    BY <2>1, <2>4 DEF Driven
  <2>6. ASSUME NEW q \in Procs, q # p, Busy(q) PROVE FALSE
    <3>1. q \in Workers
      BY <2>3, <2>6 DEF Procs, Busy
    <3>2. proc[q].op \in Ops /\ event[proc[q].op].holder = q
      BY <1>0, <2>6, <3>1, HoldsEvent DEF Busy
    <3>3. proc[q].op = proc[p].op
      BY <2>4, <2>6, <3>1, <3>2 DEF Driven
    <3> QED
      BY <2>1, <2>6, <3>2, <3>3
  <2> QED
    BY <2>1, <2>3, <2>5, <2>6
<1> QED
  BY <1>1, <1>2 DEF Procs

\* Nobody works while the transaction is at rest.
LEMMA Unwatched ==
  ASSUME BackedInv, NEW o \in Ops,
         tx.status \notin {"posting", "post_ambiguous", "undoing", "undo_ambiguous"}
  PROVE  ~Driven(o)
  BY DEF BackedInv, Backing, OneAtWork, Awaited

\* A process that is busy takes a step.
LEMMA BusyBacked ==
  ASSUME Undisturbed, BackedInv, NEW p \in Procs, Busy(p), event' = event,
         \A q \in Procs : q # p => proc'[q] = proc[q],
         p \in Workers => \/ proc'[p].pc \in {"idle", "returned"}
                          \/ \E o \in Ops : o = proc[p].op /\ proc'[p].op = o /\ Awaited(o)',
         RowsAgree', PostedIsBacked', Abreast(p)'
  PROVE  Backing'
<1>0. IInv
  BY DEF BackedInv, HeldInv
<1>1. LeasesLive'
  BY DEF BackedInv, Backing, LeasesLive
<1>2. ASSUME NEW o \in Ops, Driven(o)'
      PROVE  Awaited(o)' /\ \A r \in Requests : proc'[r].pc = "idle"
  <2>1. event'[o].state \notin {"ready", "dead"}
    BY Alone
  <2>2. PICK w \in Workers : proc'[w].pc \notin {"idle", "returned"} /\ proc'[w].op = o
    BY <1>2, <2>1 DEF Driven, Busy
  <2>3. w = p
    BY <2>2, Alone DEF Busy, Procs
  <2>4. Awaited(o)'
    BY <2>2, <2>3
  <2>5. ASSUME NEW r \in Requests PROVE proc'[r].pc = "idle"
    <3>1. r \in Procs /\ r # p /\ proc[r].pc = "idle"
      BY <1>0, <2>2, <2>3, Alone, ProcPcs DEF Procs
    <3> QED
      BY <3>1
  <2> QED
    BY <2>4, <2>5
<1>3. OneAtWork'
  BY <1>2 DEF OneAtWork
<1>4. ASSUME NEW q \in Procs PROVE Abreast(q)'
  <2>1. CASE q = p
    BY <2>1
  <2>2. CASE q # p
    <3>1. proc'[q].pc \in {"idle", "returned"}
      BY <2>2, Alone DEF Busy
    <3> QED
      BY <3>1 DEF Abreast, SessionPcs
  <2> QED
    BY <2>1, <2>2
<1>5. AllAbreast'
  BY <1>4 DEF AllAbreast
<1> QED
  BY <1>1, <1>3, <1>5 DEF Backing

\* It returns, or raises.
LEMMA EndBacked ==
  ASSUME Undisturbed, BackedInv, NEW p \in Procs, Busy(p), event' = event,
         NEW how \in {"returned", "raised"}, proc' = [proc EXCEPT ![p] = End(p, how)],
         how = "raised" /\ p \in Workers => \E o \in Ops : o = proc[p].op /\ Awaited(o)',
         RowsAgree', PostedIsBacked'
  PROVE  Backing'
<1>1. proc = [q \in Procs |-> proc[q]]
  BY TypeParts DEF BackedInv, HeldInv
<1>2. proc'[p] = End(p, how) /\ \A q \in Procs : q # p => proc'[q] = proc[q]
  BY <1>1
<1>3. IF p \in Workers THEN proc'[p].pc = how /\ proc'[p].op = proc[p].op
                       ELSE proc'[p].pc = "idle"
  BY <1>2 DEF End, Idle
<1>4. Abreast(p)'
  BY <1>3 DEF Abreast, SessionPcs
<1> QED
  BY <1>2, <1>3, <1>4, BusyBacked

LEMMA SameRows ==
  ASSUME BackedInv, UNCHANGED <<tx, op, expense>>
  PROVE  RowsAgree' /\ PostedIsBacked' /\ \A o \in Ops : Awaited(o) => Awaited(o)'
<1>1. RowsAgree'
  BY DEF BackedInv, Backing, RowsAgree, RowAgrees
<1>2. PostedIsBacked'
  BY DEF BackedInv, Backing, PostedIsBacked
<1>3. \A o \in Ops : Awaited(o) => Awaited(o)'
  BY DEF Awaited
<1> QED
  BY <1>1, <1>2, <1>3

\* What a session that has not acted yet would write.
LEMMA FlushedOver ==
  ASSUME NEW new \in TxRow, NEW loaded \in TxRow
  PROVE  Flushed(new, loaded, loaded) = new
<1>1. Flushed(new, loaded, loaded) =
   [status |-> IF new.status = loaded.status THEN loaded.status ELSE new.status,
    expense |-> IF new.expense = loaded.expense THEN loaded.expense ELSE new.expense,
    gen |-> IF new.gen = loaded.gen THEN loaded.gen ELSE new.gen,
    amount |-> IF new.amount = loaded.amount THEN loaded.amount ELSE new.amount,
    splitwise |-> IF new.splitwise = loaded.splitwise THEN loaded.splitwise ELSE new.splitwise,
    saved |-> IF new.saved = loaded.saved THEN loaded.saved ELSE new.saved]
  BY SMT DEF TxRow, Flushed
<1>2. new = [status |-> new.status, expense |-> new.expense, gen |-> new.gen,
             amount |-> new.amount, splitwise |-> new.splitwise, saved |-> new.saved]
  BY DEF TxRow
<1> QED
  BY <1>1, <1>2

\* A process with a session on an operation.
LEMMA InSession ==
  ASSUME Undisturbed, BackedInv, NEW p \in Procs, proc[p].pc \in SessionPcs
  PROVE  /\ Busy(p) /\ IInv /\ SessionAbreast(p) /\ proc[p] \in Sessions /\ proc[p].op \in Ops
         /\ tx \in TxRow /\ op \in [Ops -> OpRow] /\ expense \in [Ids -> ExpenseRow]
         /\ proc[p].pc \in Executing => p \in Workers
<1>1. Busy(p) /\ IInv /\ SessionAbreast(p)
  BY DEF Busy, SessionPcs, BackedInv, HeldInv, Backing, AllAbreast, Abreast
<1>2. proc[p] \in Sessions /\ proc[p].op \in Ops
  BY <1>1, SessionOf, SessionFields
<1>3. proc[p].pc \in Executing => p \in Workers
  BY DEF Undisturbed, BackedInv, HeldInv, WorkersHold, Procs
<1> QED
  BY <1>1, <1>2, <1>3, TypeParts

LEMMA LookBacked == ASSUME Undisturbed, BackedInv, NEW p \in Procs, Look(p) PROVE Backing'
<1> DEFINE me == proc[p]
           done == (Shown(me) = {}) = Removes(me.op)
           pc == IF done THEN "done" ELSE "go"
           target == IF done /\ me.op.action = "create"
                     THEN CHOOSE i \in Shown(me) : TRUE ELSE me.target
<1>1. me.pc = "look" /\ me.pc \in SessionPcs /\ UNCHANGED <<tx, op, latest, event, expense, budget>>
  BY DEF Look, SessionPcs
<1>2. /\ Busy(p) /\ IInv /\ SessionAbreast(p) /\ me \in Sessions /\ me.op \in Ops
      /\ tx \in TxRow /\ expense \in [Ids -> ExpenseRow]
  BY <1>1, InSession
<1>3. RowsAgree' /\ PostedIsBacked' /\ \A o \in Ops : Awaited(o) => Awaited(o)'
  BY <1>1, SameRows
<1>4. p \in Workers => Awaited(me.op)
  BY <1>2, Alone
<1>5. CASE proc' = [proc EXCEPT ![p] = Raise(p, me.seen.state)]
  <2>1. PICK how \in {"returned", "raised"} : Raise(p, me.seen.state) = End(p, how)
    BY DEF Raise
  <2> HIDE DEF me
  <2>2. proc' = [proc EXCEPT ![p] = End(p, how)]
    BY <1>5, <2>1
  <2>3. p \in Workers => \E o \in Ops : o = proc[p].op /\ Awaited(o)'
    BY <1>2, <1>3, <1>4 DEF me
  <2> QED
    BY <1>1, <1>2, <1>3, <2>2, <2>3, EndBacked
<1>6. CASE proc' = [proc EXCEPT ![p] = [me EXCEPT !.pc = pc, !.target = target]]
  <2> DEFINE q == [me EXCEPT !.pc = pc, !.target = target]
  <2>1. /\ q.pc = pc /\ q.target = target /\ q.op = me.op /\ q.tx = me.tx /\ q.seen = me.seen
        /\ q.mine = me.mine
    BY <1>2 DEF Sessions
  <2>2. proc'[p] = q /\ \A r \in Procs : r # p => proc'[r] = proc[r]
    BY <1>2, <1>6, TypeParts
  <2>3. ASSUME pc = "done", me.op.action = "create"
        PROVE  target # None /\ expense[target].state = "live"
    <3>1. done
      BY <2>3
    <3>2. Shown(me) # {}
      BY <2>3, <3>1 DEF Removes
    <3>3. target \in Shown(me)
      BY <2>3, <3>1, <3>2
    <3> QED
      BY <3>3, JournalConstants DEF Shown
  <2>4. ASSUME pc = "done", me.op.action # "create"
        PROVE  target = me.target /\ expense[target].state = "deleted"
    <3>1. done /\ me.op.action = "delete" /\ tx.expense # None /\ me.target = tx.expense
      BY <1>2, <2>4 DEF SessionAbreast
    <3>2. Shown(me) = {}
      <4>1. Removes(me.op) = TRUE
        BY <3>1 DEF Removes
      <4> QED
        BY <3>1, <4>1
    <3>3. tx.expense \in Ids /\ expense[tx.expense].state # "live"
      BY <1>2, <3>1, <3>2 DEF Shown, Removes, TxRow
    <3>4. expense[tx.expense].state \in {"absent", "live", "deleted"}
      BY <1>2, <3>3 DEF ExpenseRow
    <3>5. expense[tx.expense].state # "absent"
      BY <3>1 DEF BackedInv, Backing, RowsAgree
    <3> QED
      BY <2>4, <3>1, <3>3, <3>4, <3>5
  <2>5. pc \in {"done", "go"}
    OBVIOUS
  <2>6. me.op.action # "create" => target = me.target
    OBVIOUS
  <2> HIDE DEF me, q, pc, target, done
  <2>7. SessionAbreast(p)'
    BY <1>1, <1>2, <2>1, <2>2, <2>3, <2>4, <2>5, <2>6 DEF SessionAbreast, me
  <2>8. Abreast(p)'
    BY <2>1, <2>2, <2>5, <2>7 DEF Abreast
  <2>9. p \in Workers => \E o \in Ops : o = proc[p].op /\ proc'[p].op = o /\ Awaited(o)'
    BY <1>2, <1>3, <1>4, <2>1, <2>2 DEF me
  <2> QED
    BY <1>1, <1>2, <1>3, <2>2, <2>8, <2>9, BusyBacked
<1> QED
  BY <1>5, <1>6 DEF Look

\* A completed operation: what it leaves in its own row does not matter.
LEMMA CompletedBacked ==
  ASSUME Undisturbed, BackedInv, NEW p \in Procs, proc[p].pc \in {"done", "ok"},
         NEW t \in TxRow, t.gen = tx.gen, tx' = CompletedTx(proc[p], t), NEW row,
         op' = [op EXCEPT ![proc[p].op] = row], row.state # "none", expense' = expense
  PROVE  RowsAgree' /\ PostedIsBacked'
<1> DEFINE me == proc[p]
<1>1. me.pc \in SessionPcs
  BY DEF SessionPcs
<1>2. /\ SessionAbreast(p) /\ me.op \in Ops /\ tx \in TxRow /\ op \in [Ops -> OpRow]
      /\ \A o \in Ops : RowAgrees(o)
  BY <1>1, InSession DEF BackedInv, Backing, RowsAgree
<1>3. \A o \in Ops : op'[o] = IF o = me.op THEN row ELSE op[o]
  BY <1>2
<1>4. tx.gen \in Nat /\ \A o \in Ops : o.gen \in Int
  BY <1>2, JournalConstants DEF TxRow, Ops
<1>5. CASE me.op.action = "create"
  <2>1. /\ tx'.status = "posted" /\ tx'.expense = me.target /\ tx'.gen = tx.gen
        /\ tx.expense = None /\ me.op.gen = tx.gen
    BY <1>2, <1>5 DEF CompletedTx, TxRow, SessionAbreast
  <2>2. me.target # None /\ expense[me.target].state = "live"
    BY <1>2, <1>5 DEF SessionAbreast
  <2>3. PostedIsBacked'
    BY <2>1, <2>2 DEF PostedIsBacked
  <2>4. ASSUME NEW o \in Ops PROVE RowAgrees(o)'
    <3>1. CASE o = me.op
      BY <1>3, <1>4, <1>5, <2>1, <2>2, <3>1 DEF RowAgrees
    <3>2. CASE o # me.op
      BY <1>2, <1>3, <1>5, <2>1, <2>2, <3>2 DEF RowAgrees
    <3> QED
      BY <3>1, <3>2
  <2> QED
    BY <2>1, <2>2, <2>3, <2>4 DEF RowsAgree
<1>6. CASE me.op.action = "delete"
  <2>1. /\ tx'.status = "ask_user" /\ tx'.expense = None /\ tx'.gen = tx.gen + 1
        /\ me.op.gen = tx.gen
    BY <1>2, <1>6 DEF CompletedTx, TxRow, SessionAbreast
  <2>2. PostedIsBacked'
    BY <2>1 DEF PostedIsBacked
  <2>3. ASSUME NEW o \in Ops PROVE RowAgrees(o)'
    <3>1. CASE o = me.op
      BY <1>3, <1>4, <2>1, <3>1 DEF RowAgrees
    <3>2. CASE o # me.op
      <4>1. op'[o] = op[o] /\ RowAgrees(o)
        BY <1>2, <1>3, <3>2
      <4>2. tx'.gen <= o.gen => op[o].state = "none"
        BY <1>4, <2>1, <4>1 DEF RowAgrees
      <4> QED
        BY <1>4, <2>1, <4>1, <4>2 DEF RowAgrees
    <3> QED
      BY <3>1, <3>2
  <2> QED
    BY <2>1, <2>2, <2>3 DEF RowsAgree
<1> QED
  BY <1>2, <1>5, <1>6 DEF SessionAbreast

LEMMA RecoverBacked == ASSUME Undisturbed, BackedInv, NEW p \in Procs, Recover(p) PROVE Backing'
<1> DEFINE me == proc[p]
           row == Flushed(CompletedOp(me, me.seen), me.seen, op[me.op])
<1>1. /\ me.pc = "done" /\ me.pc \in SessionPcs
      /\ UNCHANGED <<latest, event, expense, budget>>
      /\ proc' = [proc EXCEPT ![p] = End(p, "returned")]
  BY DEF Recover, SessionPcs
<1>2. /\ Busy(p) /\ SessionAbreast(p) /\ me \in Sessions /\ me.op \in Ops /\ IInv
      /\ op \in [Ops -> OpRow]
  BY <1>1, InSession
<1>3. me.seen.state # "succeeded" /\ me.tx = tx /\ me.mine.gen = tx.gen
  BY <1>1, <1>2 DEF SessionAbreast
<1>4. /\ tx' = Flushed(CompletedTx(me, me.mine), me.tx, tx)
      /\ op' = [op EXCEPT ![me.op] = row]
  BY <1>3 DEF Recover
<1>5. me.mine \in TxRow /\ me.tx \in TxRow /\ me.seen \in OpRow /\ op[me.op] \in OpRow
  BY <1>2, SessionFields
<1>6. CompletedTx(me, me.mine) \in TxRow /\ CompletedOp(me, me.seen) \in OpRow
      /\ CompletedOp(me, me.seen).state = "succeeded"
  BY <1>2, <1>5, CompletedTyped
<1>7. tx' = CompletedTx(me, me.mine)
  BY <1>3, <1>4, <1>5, <1>6, FlushedOver
<1>8. row.state # "none"
  <2>1. op[me.op].state # "none"
    BY <1>1, <1>2, SessionRow
  <2> HIDE DEF me
  <2>2. row.state \in {"succeeded", op[me.op].state}
    BY <1>5, <1>6, FlushedOp
  <2> QED
    BY <2>1, <2>2
<1> HIDE DEF row
<1>9. RowsAgree' /\ PostedIsBacked'
  BY <1>1, <1>3, <1>4, <1>5, <1>7, <1>8, CompletedBacked
<1> QED
  BY <1>1, <1>2, <1>9, EndBacked

LEMMA SucceedBacked == ASSUME Undisturbed, BackedInv, NEW p \in Procs, Succeed(p) PROVE Backing'
<1> DEFINE me == proc[p]
           row == CompletedOp(me, op[me.op])
<1>1. /\ me.pc = "ok" /\ me.pc \in SessionPcs
      /\ UNCHANGED <<latest, event, expense, budget>>
      /\ proc' = [proc EXCEPT ![p] = End(p, "returned")]
      /\ tx' = CompletedTx(me, tx) /\ op' = [op EXCEPT ![me.op] = row]
  BY DEF Succeed, SessionPcs
<1>2. /\ Busy(p) /\ me \in Sessions /\ me.op \in Ops /\ tx \in TxRow /\ op \in [Ops -> OpRow]
  BY <1>1, InSession
<1>3. row.state # "none"
  BY <1>2, CompletedTyped
<1> HIDE DEF row
<1>4. RowsAgree' /\ PostedIsBacked'
  BY <1>1, <1>2, <1>3, CompletedBacked
<1> QED
  BY <1>1, <1>2, <1>4, EndBacked

\* The row of a session's operation changes, and of the transaction at most the status.
LEMMA RowChanges ==
  ASSUME Undisturbed, BackedInv, NEW p \in Procs, proc[p].pc \in SessionPcs, NEW row,
         op' = [op EXCEPT ![proc[p].op] = row], row.state \notin {"none", "succeeded"},
         tx'.gen = tx.gen, tx'.expense = tx.expense,
         proc[p].op.action = "delete" =>
           row.expense = tx.expense /\ tx'.status \in {"undoing", "undo_ambiguous", "error"},
         tx.expense # None => expense'[tx.expense].state # "absent"
  PROVE  RowsAgree'
<1> DEFINE me == proc[p]
<1>1. SessionAbreast(p) /\ me.op \in Ops /\ op \in [Ops -> OpRow] /\ \A o \in Ops : RowAgrees(o)
  BY InSession DEF BackedInv, Backing, RowsAgree
<1>2. \A o \in Ops : op'[o] = IF o = me.op THEN row ELSE op[o]
  BY <1>1
<1>3. ASSUME NEW o \in Ops PROVE RowAgrees(o)'
  <2>1. CASE o = me.op
    <3>1. op'[o] = row /\ o.gen = tx.gen
      BY <1>1, <1>2, <2>1 DEF SessionAbreast
    <3>2. tx.gen \in Int
      BY <1>1, InSession DEF TxRow
    <3>3. o.action = "delete" => tx.expense # None
      BY <1>1, <2>1 DEF SessionAbreast
    <3> QED
      BY <2>1, <3>1, <3>2, <3>3 DEF RowAgrees
  <2>2. CASE o # me.op
    <3>1. op'[o] = op[o] /\ RowAgrees(o)
      BY <1>1, <1>2, <2>2
    <3>2. ~(o.action = "delete" /\ o.gen = tx.gen /\ op[o].state # "none")
      <4>1. CASE me.op.action = "delete"
        BY <1>1, <2>2, <4>1 DEF SessionAbreast, Ops
      <4>2. CASE me.op.action = "create"
        BY <1>1, <3>1, <4>2 DEF SessionAbreast, RowAgrees
      <4> QED
        BY <1>1, <4>1, <4>2 DEF SessionAbreast
    <3> QED
      BY <3>1, <3>2 DEF RowAgrees
  <2> QED
    BY <2>1, <2>2
<1> QED
  BY <1>3 DEF RowsAgree

\* With one request thread no insert is lost.
LEMMA LostInsertBacked == ASSUME Undisturbed, BackedInv, NEW p \in Procs, LostInsert(p) PROVE FALSE
<1>1. proc[p].pc = "insert" /\ proc[p].pc \in SessionPcs /\ op[proc[p].op].state # "none"
  BY DEF LostInsert, SessionPcs
<1> QED
  BY <1>1, InSession DEF SessionAbreast

LEMMA WriteBacked == ASSUME Undisturbed, BackedInv, NEW p \in Procs, Write(p) PROVE Backing'
<1> DEFINE me == proc[p]
<1>1. /\ me.pc = "write" /\ tx' = Flushed(me.new, me.tx, tx) /\ proc' = [proc EXCEPT ![p] = Idle]
      /\ UNCHANGED <<op, latest, event, expense, budget>> /\ Busy(p)
  BY DEF Write, Busy
<1>2. IInv /\ WriteAbreast(p) /\ RowsAgree
  BY <1>1 DEF BackedInv, HeldInv, Backing, AllAbreast, Abreast
<1>3. me.new \in TxRow /\ tx \in TxRow
  <2>1. me \in Positions(p)
    BY <1>2, TypeParts
  <2> QED
    BY <1>1, <1>2, <2>1, TypeParts DEF Positions, Sessions, Idle
<1>4. tx' = me.new
  BY <1>1, <1>2, <1>3, FlushedOver DEF WriteAbreast
<1>5. PostedIsBacked'
  BY <1>2, <1>4 DEF WriteAbreast, PostedIsBacked
<1>6. RowsAgree'
  BY <1>1, <1>2, <1>4 DEF WriteAbreast, RowsAgree, RowAgrees
<1>7. proc'[p] = Idle /\ \A q \in Procs : q # p => proc'[q] = proc[q]
  BY <1>1, <1>2, TypeParts
<1>8. Abreast(p)'
  BY <1>7 DEF Abreast, SessionPcs, Idle
<1> QED
  BY <1>1, <1>5, <1>6, <1>7, <1>8, BusyBacked DEF Idle

LEMMA QueuedAwaited ==
  ASSUME Undisturbed, BackedInv, NEW p \in Procs, proc[p].pc \in SessionPcs,
         tx'.status = QueuedStatus(proc[p].op), tx'.gen = tx.gen, tx'.expense = tx.expense
  PROVE  /\ \A o \in Ops : o = proc[p].op => Awaited(o)'
         /\ PostedIsBacked'
         /\ proc[p].op.action = "delete" => tx'.status = "undoing"
<1>1. SessionAbreast(p)
  BY InSession
<1>2. tx'.status = IF proc[p].op.action = "create" THEN "posting" ELSE "undoing"
  BY <1>1 DEF QueuedStatus, SessionAbreast
<1>3. \A o \in Ops : o = proc[p].op => Awaited(o)'
  BY <1>1, <1>2 DEF Awaited, SessionAbreast
<1>4. PostedIsBacked'
  BY <1>2 DEF PostedIsBacked
<1> QED
  BY <1>2, <1>3, <1>4

LEMMA QueueBacked == ASSUME Undisturbed, BackedInv, NEW p \in Procs, Queue(p) PROVE Backing'
<1> DEFINE me == proc[p]
           new == [me.seen EXCEPT !.state = "pending", !.lease = "none", !.expense = me.target]
           row == IF me.pc = "insert" THEN new ELSE Flushed(new, me.seen, op[me.op])
           txnew == [me.mine EXCEPT !.status = QueuedStatus(me.op)]
<1>1. /\ p \in Requests /\ me.pc \in {"insert", "go"} /\ me.pc \in SessionPcs
      /\ op' = [op EXCEPT ![me.op] = row]
      /\ tx' = Flushed(txnew, me.tx, tx)
      /\ event' = [event EXCEPT ![me.op] = Enqueued(event[me.op])]
      /\ proc' = [proc EXCEPT ![p] = Idle] /\ expense' = expense
  BY DEF Queue, Defers, SessionPcs
<1>2. /\ Busy(p) /\ IInv /\ SessionAbreast(p) /\ me \in Sessions /\ me.op \in Ops
      /\ tx \in TxRow /\ op \in [Ops -> OpRow]
  BY <1>1, InSession
<1>3. /\ me.tx = tx /\ me.mine.expense = tx.expense /\ me.mine.gen = tx.gen
      /\ me.op.gen = tx.gen
  BY <1>1, <1>2 DEF SessionAbreast
<1>4. /\ me.mine \in TxRow /\ me.seen \in OpRow /\ me.target \in Ids \cup {None}
      /\ op[me.op] \in OpRow /\ QueuedStatus(me.op) \in Statuses
  BY <1>2, SessionFields, StatusTyped
<1>5. /\ tx'.status = QueuedStatus(me.op) /\ tx'.gen = tx.gen /\ tx'.expense = tx.expense
  <2>1. /\ txnew \in TxRow /\ txnew.status = QueuedStatus(me.op)
        /\ txnew.gen = tx.gen /\ txnew.expense = tx.expense
    BY <1>3, <1>4 DEF TxRow
  <2> HIDE DEF txnew
  <2>2. tx' = txnew
    BY <1>1, <1>2, <1>3, <2>1, FlushedOver
  <2> QED
    BY <2>1, <2>2
<1>6. /\ \A o \in Ops : o = me.op => Awaited(o)'
      /\ PostedIsBacked'
      /\ me.op.action = "delete" => tx'.status = "undoing"
  <2> HIDE DEF txnew
  <2> QED
    BY <1>1, <1>5, QueuedAwaited
<1>7. row.state \notin {"none", "succeeded"}
  <2>1. new \in OpRow /\ new.state = "pending"
    BY <1>4 DEF OpRow, OpStates
  <2>2. CASE me.pc = "insert"
    BY <2>1, <2>2
  <2>3. CASE me.pc = "go"
    <3>1. me.op.action = "create" /\ tx.expense = None
      BY <1>1, <1>2, <2>3 DEF SessionAbreast
    <3>2. op[me.op].state # "none"
      BY <2>3, <1>1, <1>2, SessionRow
    <3>3. op[me.op].state # "succeeded"
      <4>1. RowAgrees(me.op)
        BY <1>2 DEF BackedInv, Backing, RowsAgree
      <4> QED
        BY <1>3, <3>1, <4>1 DEF RowAgrees
    <3>4. row = Flushed(new, me.seen, op[me.op])
      BY <2>3
    <3> HIDE DEF me, new, row
    <3>5. row.state \in {new.state, op[me.op].state}
      BY <1>4, <2>1, <3>4, FlushedOp
    <3> QED
      BY <2>1, <3>2, <3>3, <3>5
  <2> QED
    BY <1>1, <2>2, <2>3
<1>8. me.op.action = "delete" => row.expense = tx.expense
  <2> SUFFICES ASSUME me.op.action = "delete" PROVE row.expense = tx.expense
    OBVIOUS
  <2>1. me.pc = "insert" /\ me.target = tx.expense
    BY <1>1, <1>2 DEF SessionAbreast
  <2> QED
    BY <1>4, <2>1 DEF OpRow
<1> HIDE DEF new, row, txnew
<1>9. RowsAgree'
  <2>1. tx.expense # None => expense'[tx.expense].state # "absent"
    BY <1>1 DEF BackedInv, Backing, RowsAgree
  <2> QED
    BY <1>1, <1>5, <1>6, <1>7, <1>8, <2>1, RowChanges
<1>10. /\ event \in [Ops -> EventRow] /\ proc = [q \in Procs |-> proc[q]] /\ p \notin Workers
  BY <1>1, <1>2, TypeParts, ProcPcs
<1>11. \A o \in Ops : event'[o] = IF o = me.op THEN Enqueued(event[o]) ELSE event[o]
  BY <1>1, <1>10
<1>12. \A q \in Procs : proc'[q] = IF q = p THEN Idle ELSE proc[q]
  BY <1>1, <1>10
<1>13. LeasesLive'
  <2>1. ASSUME NEW o \in Ops
        PROVE  /\ event'[o].live <=> event'[o].state = "in_flight"
               /\ event'[o].live => event'[o].holder # None
    <3>1. event[o] \in EventRow /\ event[o].state # "dead"
      BY <1>2, <1>10, Alone
    <3>2. /\ event[o].live <=> event[o].state = "in_flight"
          /\ event[o].live => event[o].holder # None
      BY DEF BackedInv, Backing, LeasesLive
    <3>3. CASE o # me.op \/ event[o].state # "absent"
      <4>1. event[o].state # "absent" => Enqueued(event[o]) = event[o]
        BY <3>1 DEF Enqueued
      <4>2. event'[o] = event[o]
        BY <1>11, <3>3, <4>1
      <4> QED
        BY <3>2, <4>2
    <3>4. CASE o = me.op /\ event[o].state = "absent"
      <4>1. event'[o] = [event[o] EXCEPT !.state = "ready"]
        BY <1>11, <3>4 DEF Enqueued
      <4>2. event'[o].state = "ready" /\ event'[o].live = event[o].live
        BY <3>1, <4>1 DEF EventRow
      <4> QED
        BY <3>2, <3>4, <4>2
    <3> QED
      BY <3>3, <3>4
  <2> QED
    BY <2>1 DEF LeasesLive
<1>14. OneAtWork'
  <2>1. ASSUME NEW o \in Ops, Driven(o)' PROVE Awaited(o)' /\ \A r \in Requests : proc'[r].pc = "idle"
    <3>1. \A w \in Workers : proc'[w].pc \in {"idle", "returned"}
      BY <1>2, <1>10, <1>12, Alone DEF Busy, Procs
    <3>2. event'[o].state \in {"ready", "dead"}
      BY <2>1, <3>1 DEF Driven, Busy
    <3>3. o = me.op
      BY <1>2, <1>11, <3>2, Alone
    <3>4. \A r \in Requests : r = p
      BY <1>1 DEF Undisturbed
    <3>5. proc'[p].pc = "idle"
      BY <1>12 DEF Idle
    <3> QED
      BY <1>6, <3>3, <3>4, <3>5
  <2> QED
    BY <2>1 DEF OneAtWork
<1>15. AllAbreast'
  <2>1. ASSUME NEW q \in Procs PROVE Abreast(q)'
    <3>1. proc'[q].pc \in {"idle", "returned"}
      BY <1>2, <1>12, Alone DEF Busy, Idle
    <3> QED
      BY <3>1 DEF Abreast, SessionPcs
  <2> QED
    BY <2>1 DEF AllAbreast
<1> QED
  BY <1>6, <1>9, <1>13, <1>14, <1>15 DEF Backing

\* The status stays, or becomes one that the operation goes with.
LEMMA StillAwaited ==
  ASSUME NEW o \in Ops, Awaited(o), tx'.gen = tx.gen, tx'.expense = tx.expense,
         \/ tx'.status = tx.status
         \/ o.action = "create" /\ tx'.status \in {"posting", "post_ambiguous"}
         \/ o.action = "delete" /\ tx'.status \in {"undoing", "undo_ambiguous"}
  PROVE  Awaited(o)' /\ PostedIsBacked'
<1>1. Awaited(o)'
  BY DEF Awaited
<1>2. tx'.status # "posted"
  BY DEF Awaited
<1> QED
  BY <1>1, <1>2 DEF PostedIsBacked

\* A worker goes on to the provider, or comes back from it.
LEMMA CallAbreast ==
  ASSUME Undisturbed, BackedInv, NEW p \in Workers, proc[p].pc \in SessionPcs,
         NEW pc \in {"call", "ok", "rejected", "ambiguous"}, NEW target,
         \A q \in Procs : q # p => proc'[q] = proc[q],
         proc'[p] = [proc[p] EXCEPT !.pc = pc, !.target = target], event' = event,
         \A o \in Ops : o = proc[p].op => Awaited(o)',
         tx'.gen = tx.gen, tx'.expense = tx.expense,
         proc[p].op.action = "create" /\ pc = "ok" =>
           target # None /\ expense'[target].state = "live",
         proc[p].op.action = "delete" =>
           target = tx.expense /\ (pc = "ok" => expense'[target].state = "deleted"),
         RowsAgree', PostedIsBacked'
  PROVE  Backing'
<1>0. p \in Procs
  BY DEF Procs
<1>1. /\ Busy(p) /\ IInv /\ SessionAbreast(p) /\ proc[p] \in Sessions /\ proc[p].op \in Ops
      /\ p \notin Requests
  BY <1>0, InSession, JournalConstants
<1>2. proc'[p].pc = pc /\ proc'[p].op = proc[p].op /\ proc'[p].target = target
  BY <1>1 DEF Sessions
<1>3. SessionAbreast(p)'
  BY <1>1, <1>2 DEF SessionAbreast
<1>4. Abreast(p)'
  BY <1>2, <1>3 DEF Abreast
<1>5. p \in Workers => \E o \in Ops : o = proc[p].op /\ proc'[p].op = o /\ Awaited(o)'
  BY <1>1, <1>2
<1> QED
  BY <1>0, <1>1, <1>4, <1>5, BusyBacked

\* A row that is worked on is not settled.
LEMMA RowUnsettled ==
  ASSUME Undisturbed, BackedInv, NEW p \in Procs, proc[p].pc \in SessionPcs, proc[p].pc # "insert"
  PROVE  /\ op[proc[p].op] \in OpRow /\ op[proc[p].op].state \notin {"none", "succeeded"}
         /\ proc[p].op.action = "delete" => op[proc[p].op].expense = tx.expense
<1>1. SessionAbreast(p) /\ IInv /\ proc[p].op \in Ops
  BY InSession
<1>2. op[proc[p].op] \in OpRow /\ op[proc[p].op].state # "none"
  BY <1>1, SessionRow
<1>3. RowAgrees(proc[p].op)
  BY <1>1 DEF BackedInv, Backing, RowsAgree
<1> QED
  BY <1>1, <1>2, <1>3 DEF RowAgrees, SessionAbreast

\* The expense of the transaction is not one that was never handed out.
LEMMA HandedOut ==
  ASSUME BackedInv, expense' = expense
  PROVE  tx.expense # None => expense'[tx.expense].state # "absent"
  BY DEF BackedInv, Backing, RowsAgree

LEMMA AcquireBacked == ASSUME Undisturbed, BackedInv, NEW p \in Procs, Acquire(p) PROVE Backing'
<1> DEFINE me == proc[p]
           row == [Leased(op[me.op]) EXCEPT !.expense =
                     IF me.op.action = "create" THEN op[me.op].expense ELSE me.target]
<1>1. /\ me.pc = "go" /\ me.pc \in SessionPcs /\ ~Defers(p)
      /\ UNCHANGED <<latest, event, expense, budget>>
  BY DEF Acquire, SessionPcs
<1>2. /\ Busy(p) /\ IInv /\ SessionAbreast(p) /\ me \in Sessions /\ me.op \in Ops
      /\ tx \in TxRow /\ op \in [Ops -> OpRow]
  BY <1>1, InSession
<1>3. p \in Workers
  BY <1>1 DEF Undisturbed, Defers, Procs
<1>4. Awaited(me.op)
  BY <1>2, <1>3, Alone
<1>5. CASE Free(op[me.op])
  <2>1. /\ op' = [op EXCEPT ![me.op] = row] /\ tx' = Flushed(me.mine, me.tx, tx)
        /\ proc' = [proc EXCEPT ![p].pc = "call"]
    BY <1>5 DEF Acquire, Leased
  <2>2. /\ me.mine \in TxRow /\ me.tx = tx /\ me.mine.status = tx.status
        /\ me.mine.expense = tx.expense /\ me.mine.gen = tx.gen
        /\ me.target \in Ids \cup {None} /\ op[me.op] \in OpRow
    BY <1>1, <1>2, SessionFields DEF SessionAbreast
  <2>3. tx' = me.mine
    BY <1>2, <2>1, <2>2, FlushedOver
  <2>4. \A o \in Ops : o = me.op => Awaited(o)' /\ PostedIsBacked'
    BY <1>4, <2>2, <2>3, StillAwaited
  <2>5. PostedIsBacked'
    BY <1>2, <2>4
  <2>6. row.state = "in_flight" /\ (me.op.action = "delete" => row.expense = tx.expense)
    BY <1>2, <2>2 DEF Leased, OpRow, SessionAbreast
  <2>7. tx.expense # None => expense'[tx.expense].state # "absent"
    BY <1>1, HandedOut
  <2>8. me.op.action = "delete" => tx'.status \in {"undoing", "undo_ambiguous", "error"}
    BY <1>4, <2>2, <2>3 DEF Awaited
  <2>9. RowsAgree'
    <3> HIDE DEF row
    <3> QED
      BY <1>1, <2>1, <2>2, <2>3, <2>6, <2>7, <2>8, RowChanges
  <2>10. /\ \A q \in Procs : q # p => proc'[q] = proc[q]
         /\ proc'[p] = [me EXCEPT !.pc = "call", !.target = me.target]
    BY <1>2, <2>1, TypeParts DEF Sessions
  <2>11. me.op.action = "delete" => me.target = tx.expense
    BY <1>2 DEF SessionAbreast
  <2> QED
    BY <1>1, <1>3, <2>2, <2>3, <2>4, <2>5, <2>9, <2>10, <2>11, CallAbreast
<1>6. CASE ~Free(op[me.op])
  <2>1. UNCHANGED <<tx, op>> /\ proc' = [proc EXCEPT ![p] = Raise(p, op[me.op].state)]
    BY <1>6 DEF Acquire
  <2>2. PICK how \in {"returned", "raised"} : Raise(p, op[me.op].state) = End(p, how)
    BY DEF Raise
  <2>3. RowsAgree' /\ PostedIsBacked' /\ \A o \in Ops : Awaited(o) => Awaited(o)'
    BY <1>1, <2>1, SameRows
  <2>4. \E o \in Ops : o = proc[p].op /\ Awaited(o)'
    BY <1>2, <1>4, <2>3
  <2>5. proc' = [proc EXCEPT ![p] = End(p, how)]
    BY <2>1, <2>2
  <2> QED
    BY <1>1, <1>2, <2>3, <2>4, <2>5, EndBacked
<1> QED
  BY <1>5, <1>6

LEMMA FailCallBacked == ASSUME Undisturbed, BackedInv, NEW p \in Procs, FailCall(p) PROVE Backing'
<1> DEFINE me == proc[p]
           row == FailedOp(op[me.op], me.pc)
<1>1. /\ me.pc \in {"rejected", "ambiguous"} /\ me.pc \in SessionPcs /\ me.pc \in Executing
      /\ UNCHANGED <<latest, event, expense, budget>>
      /\ op' = [op EXCEPT ![me.op] = row]
      /\ tx' = [tx EXCEPT !.status = FailedStatus(me.op, me.pc)]
  BY DEF FailCall, SessionPcs, Executing
<1>2. /\ Busy(p) /\ IInv /\ SessionAbreast(p) /\ me.op \in Ops
      /\ tx \in TxRow /\ op \in [Ops -> OpRow] /\ p \in Workers
  BY <1>1, InSession
<1>3. Awaited(me.op)
  BY <1>2, Alone
<1>4. tx'.gen = tx.gen /\ tx'.expense = tx.expense /\ tx'.status = FailedStatus(me.op, me.pc)
  BY <1>1, <1>2 DEF TxRow
<1>5. FailedStatus(me.op, me.pc) =
        IF me.pc = "rejected" THEN "error"
        ELSE IF me.op.action = "create" THEN "post_ambiguous" ELSE "undo_ambiguous"
  BY <1>1, <1>2 DEF FailedStatus, SessionAbreast, Removes
<1>6. op[me.op] \in OpRow /\ (me.op.action = "delete" => op[me.op].expense = tx.expense)
  BY <1>1, RowUnsettled
<1>7. row.state \notin {"none", "succeeded"} /\ (me.op.action = "delete" => row.expense = tx.expense)
  BY <1>6 DEF FailedOp, OpRow
<1>8. tx.expense # None => expense'[tx.expense].state # "absent"
  BY <1>1, HandedOut
<1>9. me.op.action = "delete" => tx'.status \in {"undoing", "undo_ambiguous", "error"}
  BY <1>4, <1>5
<1>10. RowsAgree'
  <2> HIDE DEF row
  <2> QED
    BY <1>1, <1>4, <1>7, <1>8, <1>9, RowChanges
<1>11. PostedIsBacked'
  BY <1>4, <1>5 DEF PostedIsBacked
<1>12. CASE me.pc = "rejected"
  <2>1. proc' = [proc EXCEPT ![p] = End(p, "returned")]
    BY <1>12 DEF FailCall
  <2> QED
    BY <1>1, <1>2, <1>10, <1>11, <2>1, EndBacked
<1>13. CASE me.pc = "ambiguous"
  <2>1. me.op.action \in {"create", "delete"}
    BY <1>2 DEF SessionAbreast
  <2>2. proc' = [proc EXCEPT ![p] = End(p, "raised")]
    BY <1>13, <2>1 DEF FailCall
  <2>3. \A o \in Ops : o = me.op => Awaited(o)' /\ PostedIsBacked'
    BY <1>3, <1>4, <1>5, <1>13, <2>1, StillAwaited
  <2>4. \E o \in Ops : o = proc[p].op /\ Awaited(o)'
    BY <1>2, <2>3
  <2> QED
    BY <1>1, <1>2, <1>10, <1>11, <2>2, <2>4, EndBacked
<1> QED
  BY <1>1, <1>12, <1>13

LEMMA CallBacked == ASSUME Undisturbed, BackedInv, NEW p \in Procs, Call(p) PROVE Backing'
<1> DEFINE me == proc[p]
           row == IF me.op.action = "create" THEN [op[me.op] EXCEPT !.request = me.payload]
                  ELSE op[me.op]
           free == CHOOSE i \in Ids : expense[i].state = "absent"
<1>1. /\ me.pc = "call" /\ me.pc \in SessionPcs /\ me.pc \in Executing
      /\ UNCHANGED <<latest, event, budget>>
      /\ tx' = [tx EXCEPT !.status = QueuedStatus(me.op)]
  BY DEF Call, SessionPcs, Executing
<1>2. /\ Busy(p) /\ IInv /\ SessionAbreast(p) /\ me \in Sessions /\ me.op \in Ops
      /\ tx \in TxRow /\ op \in [Ops -> OpRow] /\ p \in Workers
      /\ expense \in [Ids -> ExpenseRow]
  BY <1>1, InSession
<1>3. tx'.gen = tx.gen /\ tx'.expense = tx.expense /\ tx'.status = QueuedStatus(me.op)
  BY <1>1, <1>2 DEF TxRow
<1>4. /\ \A o \in Ops : o = me.op => Awaited(o)'
      /\ PostedIsBacked'
      /\ me.op.action = "delete" => tx'.status = "undoing"
  BY <1>1, <1>3, QueuedAwaited
<1>5. op' = [op EXCEPT ![me.op] = row]
  BY <1>2 DEF Call
<1>6. row.state \notin {"none", "succeeded"} /\ (me.op.action = "delete" => row.expense = tx.expense)
  <2>1. /\ op[me.op] \in OpRow /\ op[me.op].state \notin {"none", "succeeded"}
        /\ me.op.action = "delete" => op[me.op].expense = tx.expense
    BY <1>1, RowUnsettled
  <2> QED
    BY <2>1 DEF OpRow
<1>7. /\ me.op.action = "create" => tx.expense = None
      /\ me.op.action = "delete" => tx.expense # None /\ me.target = tx.expense
      /\ me.op.action \in {"create", "delete"}
  BY <1>2 DEF SessionAbreast
<1>9. ASSUME tx.expense # None => expense'[tx.expense].state # "absent" PROVE RowsAgree'
  <2> HIDE DEF row
  <2> QED
    BY <1>1, <1>3, <1>4, <1>5, <1>6, <1>9, RowChanges
<1>10. ASSUME NEW result \in {"call", "ok", "rejected", "ambiguous"}, NEW target,
              proc' = [proc EXCEPT ![p] = [me EXCEPT !.pc = result, !.target = target]],
              me.op.action = "create" /\ result = "ok" =>
                target # None /\ expense'[target].state = "live",
              me.op.action = "delete" =>
                target = tx.expense /\ (result = "ok" => expense'[target].state = "deleted"),
              RowsAgree'
       PROVE  Backing'
  <2>1. /\ \A q \in Procs : q # p => proc'[q] = proc[q]
        /\ proc'[p] = [me EXCEPT !.pc = result, !.target = target]
    BY <1>2, <1>10, TypeParts
  <2>2. event' = event /\ p \in Workers /\ proc[p].pc \in SessionPcs
    BY <1>1, <1>2
  <2> HIDE DEF row, free
  <2> QED
    BY <1>3, <1>4, <1>10, <2>1, <2>2, CallAbreast
<1>11. CASE expense' = expense /\ \E result \in {"rejected", "ambiguous"} :
                                   proc' = [proc EXCEPT ![p].pc = result]
  <2>1. PICK result \in {"rejected", "ambiguous"} : proc' = [proc EXCEPT ![p].pc = result]
    BY <1>11
  <2>2. RowsAgree'
    BY <1>9, <1>11, HandedOut
  <2>3. [proc EXCEPT ![p].pc = result] =
          [proc EXCEPT ![p] = [me EXCEPT !.pc = result, !.target = me.target]]
    BY <1>2 DEF Sessions
  <2> QED
    BY <1>7, <1>10, <2>1, <2>2, <2>3
<1>12. CASE /\ CanApply(me) /\ expense' \in Applied(me)
            /\ \E result \in {"ok", "ambiguous", "rejected"} :
                 proc' = [proc EXCEPT ![p] = [me EXCEPT !.pc = result,
                   !.target = IF me.op.action = "create" THEN free ELSE me.target]]
  <2>1. PICK result \in {"ok", "ambiguous", "rejected"},
             target \in {IF me.op.action = "create" THEN free ELSE me.target} :
               proc' = [proc EXCEPT ![p] = [me EXCEPT !.pc = result, !.target = target]]
    BY <1>12
  <2>2. ASSUME me.op.action = "create"
        PROVE  target # None /\ expense'[target].state = "live"
    <3>1. free \in Ids
      BY <1>12, <2>2 DEF CanApply
    <3>2. expense' = [expense EXCEPT ![free] = [state |-> "live", mark |-> me.op, cost |-> me.payload]]
      BY <1>12, <2>2 DEF Applied
    <3>3. expense'[free].state = "live"
      BY <1>2, <3>1, <3>2
    <3> QED
      BY <2>2, <3>1, <3>3, JournalConstants
  <2>3. ASSUME me.op.action = "delete"
        PROVE  target = tx.expense /\ expense'[target].state = "deleted"
    <3>1. target = tx.expense /\ me.target = tx.expense /\ tx.expense \in Ids
      BY <1>2, <1>7, <2>3 DEF TxRow
    <3>2. expense' = [expense EXCEPT ![me.target].state = "deleted"]
      BY <1>12, <2>3 DEF Applied
    <3>3. expense[tx.expense] \in ExpenseRow
      BY <1>2, <3>1
    <3> QED
      BY <1>2, <3>1, <3>2, <3>3 DEF ExpenseRow
  <2>4. RowsAgree'
    BY <1>7, <1>9, <2>3
  <2> HIDE DEF free
  <2> QED
    BY <1>10, <2>1, <2>2, <2>3, <2>4
<1> QED
  BY <1>11, <1>12 DEF Call

\* What a process has in its session stays so when nothing it knows of changes.
LEMMA SameAbreast ==
  ASSUME NEW p \in Procs, Abreast(p), proc'[p] = proc[p], UNCHANGED <<tx, op, expense>>
  PROVE  Abreast(p)'
<1>1. SessionAbreast(p) => SessionAbreast(p)'
  BY DEF SessionAbreast
<1>2. WriteAbreast(p) => WriteAbreast(p)'
  BY DEF WriteAbreast
<1> QED
  BY <1>1, <1>2 DEF Abreast

\* A request loads the rows; nothing is driven that it could disturb.
LEMMA LoadBacked ==
  ASSUME Undisturbed, BackedInv, NEW p \in Requests, NEW q, proc' = [proc EXCEPT ![p] = q],
         UNCHANGED <<tx, op, event, expense>>,
         tx.status \notin {"posting", "post_ambiguous", "undoing", "undo_ambiguous"}, Abreast(p)'
  PROVE  Backing'
<1>1. RowsAgree' /\ PostedIsBacked'
  BY SameRows
<1>2. LeasesLive'
  BY DEF BackedInv, Backing, LeasesLive
<1>3. /\ p \in Procs /\ p \notin Workers /\ \A r \in Procs : r # p => proc'[r] = proc[r]
      /\ AllAbreast
  <2>1. IInv
    BY DEF BackedInv, HeldInv
  <2>2. p \in Procs /\ p \notin Workers /\ proc = [r \in Procs |-> proc[r]]
    BY <2>1, TypeParts, ProcPcs DEF Procs
  <2> QED
    BY <2>2 DEF BackedInv, Backing
<1>4. \A o \in Ops : ~Driven(o)'
  <2>1. ASSUME NEW o \in Ops, Driven(o)' PROVE Driven(o)
    <3>1. \A w \in Workers : proc'[w] = proc[w]
      BY <1>3 DEF Procs
    <3> QED
      BY <2>1, <3>1 DEF Driven, Busy
  <2> QED
    BY <2>1, Unwatched
<1>5. OneAtWork'
  BY <1>4 DEF OneAtWork
<1>6. AllAbreast'
  <2>1. ASSUME NEW r \in Procs PROVE Abreast(r)'
    <3>1. CASE r = p
      BY <3>1
    <3>2. CASE r # p
      BY <1>3, <3>2, SameAbreast DEF AllAbreast
    <3> QED
      BY <3>1, <3>2
  <2> QED
    BY <2>1 DEF AllAbreast
<1> QED
  BY <1>1, <1>2, <1>5, <1>6 DEF Backing

LEMMA StartBacked ==
  ASSUME Undisturbed, BackedInv, NEW p \in Requests, NEW o \in Ops, NEW mine, NEW payload,
         Start(p, o, mine, payload), o.gen = tx.gen,
         tx.status \notin {"posting", "post_ambiguous", "undoing", "undo_ambiguous"},
         \/ o.action = "create" /\ tx.expense = None
         \/ o.action = "delete" /\ tx.expense # None /\ op[o].state = "none",
         mine.status = tx.status, mine.expense = tx.expense, mine.gen = tx.gen
  PROVE  Backing'
<1>1. Defers(p) /\ IInv /\ p \in Procs /\ RowAgrees(o) /\ op \in [Ops -> OpRow] /\ op[o] \in OpRow
  <2>1. IInv /\ op \in [Ops -> OpRow]
    BY TypeParts DEF BackedInv, HeldInv
  <2> QED
    BY <2>1 DEF Undisturbed, Defers, Procs, BackedInv, Backing, RowsAgree
<1>2. proc = [r \in Procs |-> proc[r]]
  BY <1>1, TypeParts
<1>3. CASE op[o].state # "none"
  <2> DEFINE q == Session(o, tx, op[o], mine, payload)
  <2>1. proc' = [proc EXCEPT ![p] = q] /\ UNCHANGED <<tx, op, event, expense>>
    BY <1>3 DEF Start
  <2>2. o.action = "create" /\ op[o].state # "succeeded" /\ tx.expense = None
    BY <1>1, <1>3 DEF RowAgrees
  <2>3. q.pc \in {"look", "go"}
    BY <2>2 DEF Session, Entry, Removes
  <2>4. q.op = o /\ q.tx = tx /\ q.seen = op[o] /\ q.mine = mine
    BY DEF Session
  <2> HIDE DEF q
  <2>5. proc'[p] = q
    BY <1>1, <1>2, <2>1
  <2>6. SessionAbreast(p)'
    BY <2>1, <2>2, <2>3, <2>4, <2>5 DEF SessionAbreast
  <2>7. Abreast(p)'
    BY <2>3, <2>5, <2>6 DEF Abreast
  <2> QED
    BY <2>1, <2>7, LoadBacked
<1>4. CASE op[o].state = "none"
  <2> DEFINE row == ClaimedRow(o, payload)
             q == [Session(o, tx, row, mine, payload) EXCEPT !.pc = "insert"]
  <2>1. proc' = [proc EXCEPT ![p] = q] /\ UNCHANGED <<tx, op, event, expense>>
    BY <1>1, <1>4 DEF Start
  <2>2. row = [op[o] EXCEPT !.state = "pending", !.request = payload]
    BY <1>4 DEF ClaimedRow
  <2>3. row.state = "pending" /\ row.expense = None
    <3>1. op[o].expense = None
      BY <1>1, <1>4 DEF RowAgrees
    <3> QED
      BY <1>1, <2>2, <3>1 DEF OpRow
  <2> HIDE DEF row
  <2>4. /\ q.pc = "insert" /\ q.op = o /\ q.tx = tx /\ q.seen = row /\ q.mine = mine
        /\ q.target = Target(o, tx, row)
    BY DEF Session
  <2>5. o.action = "delete" => q.target = tx.expense
    BY <2>3, <2>4 DEF Target
  <2> HIDE DEF q
  <2>6. proc'[p] = q
    BY <1>1, <1>2, <2>1
  <2>7. SessionAbreast(p)'
    BY <1>4, <2>1, <2>3, <2>4, <2>5, <2>6 DEF SessionAbreast
  <2>8. Abreast(p)'
    BY <2>4, <2>6, <2>7 DEF Abreast
  <2> QED
    BY <2>1, <2>8, LoadBacked
<1> QED
  BY <1>3, <1>4

LEMMA ChangeBacked ==
  ASSUME Undisturbed, BackedInv, NEW p \in Requests, NEW new, Change(p, new), tx.expense = None,
         tx.status \notin {"posting", "post_ambiguous", "undoing", "undo_ambiguous"},
         new.expense = tx.expense, new.gen = tx.gen,
         new.status \in {"ask_user", "personal", "shared_draft"}
  PROVE  Backing'
<1> DEFINE q == [pc |-> "write", tx |-> tx, new |-> new]
<1>1. proc' = [proc EXCEPT ![p] = q] /\ UNCHANGED <<tx, op, event, expense>>
  BY DEF Change
<1>2. proc = [r \in Procs |-> proc[r]] /\ p \in Procs
  BY TypeParts DEF BackedInv, HeldInv, Procs
<1>3. proc'[p] = q /\ q.pc = "write" /\ q.tx = tx /\ q.new = new
  BY <1>1, <1>2
<1> HIDE DEF q
<1>4. WriteAbreast(p)'
  BY <1>1, <1>3 DEF WriteAbreast
<1>5. Abreast(p)'
  BY <1>3, <1>4 DEF Abreast, SessionPcs
<1> QED
  BY <1>1, <1>5, LoadBacked

LEMMA RequestBacked ==
  ASSUME Undisturbed, BackedInv, NEW p \in Requests, Request(p)
  PROVE  Backing'
<1>1. tx \in TxRow
  BY TypeParts DEF BackedInv, HeldInv
<1>2. \A kind : Requested(kind) => kind \in {"post", "draft", "personal", "undo", "replay"}
  BY DEF Requested, Undisturbed
<1>3. CASE Post(p)
  <2> DEFINE o == [action |-> "create", gen |-> tx.gen]
             mine == [tx EXCEPT !.saved = tx.amount]
  <2>1. Start(p, o, mine, tx.amount) /\ CanPost
    BY <1>3 DEF Post
  <2>2. /\ o \in Ops /\ o.gen = tx.gen /\ o.action = "create"
        /\ mine.status = tx.status /\ mine.expense = tx.expense /\ mine.gen = tx.gen
    BY <1>1, <2>1 DEF Start, TxRow
  <2>3. /\ tx.status \notin {"posting", "post_ambiguous", "undoing", "undo_ambiguous"}
        /\ tx.expense = None
    BY <2>1 DEF CanPost
  <2> HIDE DEF o, mine
  <2> QED
    BY <2>1, <2>2, <2>3, StartBacked
<1>4. CASE SaveDraft(p)
  <2> DEFINE new == [tx EXCEPT !.status = "shared_draft", !.saved = tx.amount]
  <2>1. Change(p, new) /\ CanPost
    BY <1>4 DEF SaveDraft
  <2>2. new.status = "shared_draft" /\ new.expense = tx.expense /\ new.gen = tx.gen
    BY <1>1 DEF TxRow
  <2> HIDE DEF new
  <2> QED
    BY <2>1, <2>2, ChangeBacked DEF CanPost
<1>5. CASE MarkPersonal(p)
  <2> DEFINE new == [tx EXCEPT !.status = "personal"]
  <2>1. Change(p, new) /\ CanMarkPersonal
    BY <1>5 DEF MarkPersonal, SetStatus
  <2>2. new.status = "personal" /\ new.expense = tx.expense /\ new.gen = tx.gen
    BY <1>1 DEF TxRow
  <2> HIDE DEF new
  <2> QED
    BY <2>1, <2>2, ChangeBacked DEF CanMarkPersonal
<1>6. CASE Undo(p)
  <2>1. tx.status \in {"personal", "posted", "shared_draft", "reconciliation_required"}
    BY <1>6 DEF Undo
  <2>2. CASE tx.expense = None
    <3> DEFINE new == [tx EXCEPT !.status = "ask_user"]
    <3>1. Change(p, new)
      BY <1>6, <2>2 DEF Undo, SetStatus
    <3>2. new.status = "ask_user" /\ new.expense = tx.expense /\ new.gen = tx.gen
      BY <1>1 DEF TxRow
    <3> HIDE DEF new
    <3> QED
      BY <2>1, <2>2, <3>1, <3>2, ChangeBacked
  <2>3. CASE tx.expense # None
    <3> DEFINE o == [action |-> "delete", gen |-> tx.gen]
    <3>1. Start(p, o, tx, None)
      BY <1>6, <2>3 DEF Undo
    <3>2. o \in Ops /\ o.gen = tx.gen /\ o.action = "delete"
      BY <3>1 DEF Start
    <3> HIDE DEF o
    <3>3. op[o].state = "none"
      BY <2>1, <3>2 DEF BackedInv, Backing, RowsAgree, RowAgrees
    <3> QED
      BY <2>1, <2>3, <3>1, <3>2, <3>3, StartBacked
  <2> QED
    BY <2>2, <2>3
<1>7. ~MarkSharedDraft(p) /\ ~Remove(p) /\ ~Retry(p) /\ \A a \in Amounts : ~Amend(p, a)
  BY <1>2 DEF MarkSharedDraft, Remove, Retry, Amend
<1> QED
  BY <1>3, <1>4, <1>5, <1>6, <1>7 DEF Request

\* An event changes hands: a worker takes it up, lets it go, or it is replayed.
LEMMA EventBacked ==
  ASSUME Undisturbed, BackedInv, NEW o \in Ops, NEW e, event' = [event EXCEPT ![o] = e],
         e.live <=> e.state = "in_flight", e.live => e.holder # None,
         e.state \in {"ready", "dead"} => Driven(o), UNCHANGED <<tx, op, expense>>,
         \A p \in Procs : \/ proc'[p] = proc[p]
                          \/ p \in Workers /\ proc'[p].pc = "idle"
                          \/ p \in Workers /\ proc'[p].pc = "claimed" /\ proc'[p].op = o /\ Driven(o)
  PROVE  Backing'
<1>1. RowsAgree' /\ PostedIsBacked' /\ \A u \in Ops : Awaited(u) => Awaited(u)'
  BY SameRows
<1>2. event \in [Ops -> EventRow] /\ IInv
  BY TypeParts DEF BackedInv, HeldInv
<1>3. \A u \in Ops : event'[u] = IF u = o THEN e ELSE event[u]
  BY <1>2
<1>4. LeasesLive'
  BY <1>3 DEF BackedInv, Backing, LeasesLive
<1>5. ASSUME NEW u \in Ops, Driven(u)' PROVE Driven(u)
  <2>1. CASE event'[u].state \in {"ready", "dead"}
    BY <1>3, <2>1 DEF Driven
  <2>2. CASE \E w \in Workers : proc'[w].pc \notin {"idle", "returned"} /\ proc'[w].op = u
    <3>1. PICK w \in Workers : proc'[w].pc \notin {"idle", "returned"} /\ proc'[w].op = u
      BY <2>2
    <3> QED
      BY <3>1 DEF Driven, Busy, Procs
  <2> QED
    BY <1>5, <2>1, <2>2 DEF Driven, Busy
<1>6. OneAtWork'
  <2>1. \A r \in Requests : r \in Procs /\ r \notin Workers
    BY JournalConstants DEF Procs
  <2> QED
    BY <1>1, <1>5, <2>1 DEF BackedInv, Backing, OneAtWork
<1>7. ASSUME NEW p \in Procs PROVE Abreast(p)'
  <2>1. CASE proc'[p] = proc[p]
    BY <2>1, SameAbreast DEF BackedInv, Backing, AllAbreast
  <2>2. CASE proc'[p].pc \in {"idle", "claimed"}
    BY <2>2 DEF Abreast, SessionPcs
  <2> QED
    BY <2>1, <2>2
<1>8. AllAbreast'
  BY <1>7 DEF AllAbreast
<1> QED
  BY <1>1, <1>4, <1>6, <1>8 DEF Backing

LEMMA ClaimEventBacked ==
  ASSUME Undisturbed, BackedInv, NEW w \in Workers, NEW o \in Ops, ClaimEvent(w, o)
  PROVE  Backing'
<1> DEFINE tries == IF event[o].tries < MaxTries THEN event[o].tries + 1 ELSE event[o].tries
           e == [state |-> "in_flight", holder |-> w, live |-> TRUE, tries |-> tries]
           q == [pc |-> "claimed", op |-> o]
<1>1. /\ event' = [event EXCEPT ![o] = e] /\ proc' = [proc EXCEPT ![w] = q]
      /\ UNCHANGED <<tx, op, expense>> /\ Claimable(event[o])
  BY DEF ClaimEvent
<1>2. Driven(o)
  BY <1>1 DEF BackedInv, Backing, LeasesLive, Claimable, Driven
<1>3. /\ (e.live <=> e.state = "in_flight") /\ e.holder # None /\ e.state \notin {"ready", "dead"}
      /\ q.pc = "claimed" /\ q.op = o
  BY JournalConstants
<1>4. proc = [p \in Procs |-> proc[p]]
  BY TypeParts DEF BackedInv, HeldInv
<1> HIDE DEF e, q
<1>5. \A p \in Procs : proc'[p] = IF p = w THEN q ELSE proc[p]
  BY <1>1, <1>4
<1> QED
  BY <1>1, <1>2, <1>3, <1>5, EventBacked

LEMMA SettleEventBacked ==
  ASSUME Undisturbed, BackedInv, NEW w \in Workers, SettleEvent(w)
  PROVE  Backing'
<1> DEFINE o == proc[w].op
           state == IF proc[w].pc = "returned" THEN "succeeded"
                    ELSE IF event[o].tries >= MaxTries THEN "dead" ELSE "ready"
           e == [event[o] EXCEPT !.state = state, !.holder = None, !.live = FALSE]
<1>1. /\ proc[w].pc \in {"returned", "raised"} /\ proc' = [proc EXCEPT ![w] = Idle]
      /\ UNCHANGED <<tx, op, expense>>
  BY DEF SettleEvent
<1>2. o \in Ops /\ event[o].state = "in_flight" /\ event[o].holder = w
  BY <1>1, HoldsEvent DEF BackedInv
<1>3. event' = [event EXCEPT ![o] = e]
  BY <1>2 DEF SettleEvent
<1>4. event \in [Ops -> EventRow] /\ proc = [p \in Procs |-> proc[p]]
  BY TypeParts DEF BackedInv, HeldInv
<1>5. e.state = state /\ ~e.live
  BY <1>2, <1>4 DEF EventRow
<1>6. state \in {"ready", "dead"} => Driven(o)
  BY <1>1 DEF Driven, Busy
<1>7. state # "in_flight"
  OBVIOUS
<1>8. \A p \in Procs : proc'[p] = proc[p] \/ (p \in Workers /\ proc'[p].pc = "idle")
  <2>1. \A p \in Procs : proc'[p] = IF p = w THEN Idle ELSE proc[p]
    BY <1>1, <1>4
  <2>2. Idle.pc = "idle"
    BY DEF Idle
  <2> QED
    BY <2>1, <2>2
<1>9. ASSUME NEW u \in Ops, NEW row, event' = [event EXCEPT ![u] = row], ~row.live,
             row.state # "in_flight", row.state \in {"ready", "dead"} => Driven(u)
      PROVE  Backing'
  BY <1>1, <1>8, <1>9, EventBacked
<1> HIDE DEF o, state, e
<1>10. e.state # "in_flight" /\ (e.state \in {"ready", "dead"} => Driven(o))
  BY <1>5, <1>6, <1>7
<1> QED
  BY <1>2, <1>3, <1>5, <1>9, <1>10

LEMMA HandleBacked ==
  ASSUME Undisturbed, BackedInv, NEW w \in Workers, Handle(w)
  PROVE  Backing'
<1> DEFINE o == proc[w].op
           q == Session(o, tx, op[o], tx, op[o].request)
<1>1. /\ proc[w].pc = "claimed" /\ Busy(w) /\ w \in Procs /\ w \notin Requests
      /\ UNCHANGED <<tx, op, event, expense>>
  BY JournalConstants DEF Handle, Busy, Procs
<1>2. o \in Ops /\ Awaited(o) /\ IInv /\ op[o].state # "none"
  <2>1. IInv /\ proc[w].pc \in Working
    BY <1>1 DEF BackedInv, HeldInv, Working
  <2> QED
    BY <1>1, <2>1, Alone DEF IInv, WorkExists
<1>3. RowsAgree' /\ PostedIsBacked' /\ \A u \in Ops : Awaited(u) => Awaited(u)'
  BY <1>1, SameRows
<1>4. CASE op[o].state = "succeeded"
  <2>1. proc' = [proc EXCEPT ![w] = End(w, "returned")]
    BY <1>4 DEF Handle
  <2> QED
    BY <1>1, <1>3, <2>1, EndBacked
<1>5. CASE op[o].state # "succeeded"
  <2>1. ~Refused(o, tx, tx.amount, op[o].request)
    BY <1>2 DEF Awaited, Refused
  <2>2. proc' = [proc EXCEPT ![w] = q]
    BY <1>5, <2>1 DEF Handle
  <2>3. RowAgrees(o)
    BY <1>2 DEF BackedInv, Backing, RowsAgree
  <2>4. o.action = "delete" => tx.expense # None /\ Target(o, tx, op[o]) = tx.expense
    BY <1>2, <2>3 DEF Awaited, RowAgrees, Target
  <2>5. /\ q.op = o /\ q.tx = tx /\ q.seen = op[o] /\ q.mine = tx /\ q.target = Target(o, tx, op[o])
        /\ q.pc = Entry(o, tx, op[o])
    BY DEF Session
  <2>6. o.action \in {"create", "delete"}
    BY <1>2 DEF Awaited
  <2>7. q.pc \in {"look", "go"}
    BY <1>5, <2>4, <2>5, <2>6 DEF Entry, Removes
  <2>8. proc'[w] = q /\ \A p \in Procs : p # w => proc'[p] = proc[p]
    BY <1>1, <1>2, <2>2, TypeParts
  <2> HIDE DEF o, q
  <2>9. SessionAbreast(w)'
    BY <1>1, <1>2, <1>5, <2>4, <2>5, <2>7, <2>8 DEF SessionAbreast, Awaited
  <2>10. Abreast(w)'
    BY <2>7, <2>8, <2>9 DEF Abreast
  <2>11. \E u \in Ops : u = proc[w].op /\ proc'[w].op = u /\ Awaited(u)'
    BY <1>2, <1>3, <2>5, <2>8 DEF o
  <2> QED
    BY <1>1, <1>3, <2>8, <2>10, <2>11, BusyBacked
<1> QED
  BY <1>4, <1>5

LEMMA ReplayDeadBacked ==
  ASSUME Undisturbed, BackedInv, NEW o \in Ops, ReplayDead(o)
  PROVE  Backing'
<1> DEFINE e == [event[o] EXCEPT !.state = "ready", !.tries = 0]
<1>1. /\ event[o].state = "dead" /\ UNCHANGED <<tx, op, expense, proc>>
      /\ event' = [event EXCEPT ![o] = e]
  BY DEF ReplayDead
<1>2. event[o] \in EventRow /\ ~event[o].live
  <2>1. event \in [Ops -> EventRow]
    BY TypeParts DEF BackedInv, HeldInv
  <2> QED
    BY <1>1, <2>1 DEF BackedInv, Backing, LeasesLive
<1>3. e.state = "ready" /\ ~e.live
  BY <1>2 DEF EventRow
<1>4. Driven(o)
  BY <1>1 DEF Driven
<1> HIDE DEF e
<1> QED
  BY <1>1, <1>3, <1>4, EventBacked

LEMMA ExpireBacked ==
  ASSUME Undisturbed, BackedInv, NEW o \in Ops, OpLeaseExpires(o) \/ EventLeaseExpires(o)
  PROVE  Backing'
<1>0. budget \in Budgets /\ op \in [Ops -> OpRow]
  BY TypeParts DEF BackedInv, HeldInv
<1>1. ~EventLeaseExpires(o)
  <2> SUFFICES ASSUME EventLeaseExpires(o) PROVE FALSE
    OBVIOUS
  <2>1. event[o].holder # None
    BY DEF EventLeaseExpires, BackedInv, Backing, LeasesLive
  <2> QED
    BY <1>0, <2>1 DEF EventLeaseExpires, RunsOut, Undisturbed, Budgets
<1>2. /\ op' = [op EXCEPT ![o].lease = "expired"] /\ UNCHANGED <<tx, event, expense, proc>>
  BY <1>1 DEF OpLeaseExpires
<1>3. \A u \in Ops : op'[u].state = op[u].state /\ op'[u].expense = op[u].expense
  BY <1>0, <1>2 DEF OpRow
<1>4. RowsAgree'
  BY <1>2, <1>3 DEF BackedInv, Backing, RowsAgree, RowAgrees
<1>5. LeasesLive' /\ PostedIsBacked' /\ OneAtWork'
  BY <1>2 DEF BackedInv, Backing, LeasesLive, PostedIsBacked, OneAtWork, Driven, Busy, Awaited
<1>6. ASSUME NEW p \in Procs PROVE Abreast(p)'
  <2>1. Abreast(p) /\ proc'[p] = proc[p]
    BY <1>2 DEF BackedInv, Backing, AllAbreast
  <2>2. proc[p].pc \in SessionPcs => proc[p].op \in Ops
    BY InSession
  <2>3. proc[p].pc \in SessionPcs => SessionAbreast(p)'
    BY <1>2, <1>3, <2>1, <2>2 DEF Abreast, SessionAbreast
  <2>4. proc[p].pc = "write" => WriteAbreast(p)'
    BY <1>2, <2>1 DEF Abreast, WriteAbreast
  <2> QED
    BY <2>1, <2>3, <2>4 DEF Abreast
<1> QED
  BY <1>4, <1>5, <1>6 DEF Backing, AllAbreast

LEMMA NoCrash == ASSUME Undisturbed, BackedInv, NEW p \in Procs, Crash(p) PROVE FALSE
<1>1. budget \in Budgets
  BY TypeParts DEF BackedInv, HeldInv
<1> QED
  BY <1>1 DEF Crash, Undisturbed, Budgets

LEMMA StepBacked == ASSUME Undisturbed, BackedInv, [Next]_vars PROVE BackedInv'
<1>1. HeldInv'
  BY StepHeld DEF BackedInv
<1>2. ASSUME UNCHANGED vars PROVE Backing'
  <2>1. UNCHANGED <<tx, op, event, expense, proc>>
    BY <1>2 DEF vars
  <2>2. RowsAgree' /\ PostedIsBacked' /\ \A o \in Ops : Awaited(o) => Awaited(o)'
    BY <2>1, SameRows
  <2>3. LeasesLive' /\ OneAtWork'
    BY <2>1 DEF BackedInv, Backing, LeasesLive, OneAtWork, Driven, Busy, Awaited
  <2>4. AllAbreast'
    <3>1. ASSUME NEW p \in Procs PROVE Abreast(p)'
      BY <2>1, SameAbreast DEF BackedInv, Backing, AllAbreast
    <3> QED
      BY <3>1 DEF AllAbreast
  <2> QED
    BY <2>2, <2>3, <2>4 DEF Backing
<1>3. ASSUME NEW p \in Procs, Execute(p) PROVE Backing'
  BY <1>3, LostInsertBacked, LookBacked, RecoverBacked, QueueBacked, AcquireBacked, CallBacked,
     SucceedBacked, FailCallBacked, WriteBacked DEF Execute
<1>4. ASSUME NEW w \in Workers, Work(w) PROVE Backing'
  BY <1>4, HandleBacked, SettleEventBacked, ClaimEventBacked DEF Work
<1>5. ASSUME Next PROVE Backing'
  BY <1>3, <1>4, <1>5, RequestBacked, NoCrash, ReplayDeadBacked, ExpireBacked DEF Next, Expire
<1>6. Backing'
  BY <1>2, <1>5
<1> QED
  BY <1>1, <1>6 DEF BackedInv

LEMMA InitBacked == Init => BackedInv
<1> SUFFICES ASSUME Init PROVE Backing
  BY InitHeld DEF BackedInv
<1>1. \A p \in Procs : proc[p].pc = "idle"
  BY DEF Init, Idle
<1>2. \A o \in Ops : event[o].state = "absent" /\ ~event[o].live /\ op[o].state = "none"
                     /\ op[o].expense = None
  BY DEF Init
<1>3. tx.expense = None /\ tx.status = "ask_user"
  BY DEF Init
<1>4. LeasesLive /\ PostedIsBacked
  BY <1>2, <1>3 DEF LeasesLive, PostedIsBacked
<1>5. RowsAgree
  BY <1>2, <1>3 DEF RowsAgree, RowAgrees
<1>6. OneAtWork
  BY <1>1, <1>2 DEF OneAtWork, Driven, Busy, Procs
<1>7. AllAbreast
  BY <1>1 DEF AllAbreast, Abreast, SessionPcs
<1> QED
  BY <1>4, <1>5, <1>6, <1>7 DEF Backing

\* The status keeps requests out while a worker has something to do, what is loaded
\* stays true, and so on: the inductive invariant behind the two theorems that follow.
THEOREM BackedAlways == ASSUME Undisturbed PROVE Spec => []BackedInv
<1>1. Init => BackedInv
  BY InitBacked
<1>2. BackedInv /\ [Next]_vars => BackedInv'
  BY StepBacked
<1> QED
  BY <1>1, <1>2, PTL DEF Spec

\* With one request thread in production, and neither deaths nor overruns, retries nor
\* removals, a transaction shown as posted has an expense that Splitwise still holds,
\* however often it is posted and undone and whatever a call's answer says of it.
THEOREM PostedStaysBacked == ASSUME Undisturbed PROVE Spec => []PostedIsBacked
<1>1. BackedInv => PostedIsBacked
  BY DEF BackedInv, Backing
<1> QED
  BY <1>1, BackedAlways, PTL

\* What a step may do to the expense of the transaction.
LEMMA StepForgets == ASSUME Undisturbed, BackedInv, [Next]_vars PROVE ForgetsOnlyDeleted
<1> SUFFICES ASSUME tx.expense # None, tx'.expense # tx.expense
             PROVE  expense[tx.expense].state = "deleted"
  BY DEF ForgetsOnlyDeleted
<1>1. tx \in TxRow
  BY TypeParts DEF BackedInv, HeldInv
<1>2. ~UNCHANGED tx
  OBVIOUS
<1>3. PICK p \in Procs : Execute(p)
  <2>1. Next
    BY <1>2 DEF vars
  <2>2. \A p \in Requests : Request(p) => UNCHANGED tx
    <3>1. ASSUME NEW p \in Requests, Request(p) PROVE UNCHANGED tx
      <4>1. ASSUME NEW o, NEW mine, NEW payload, Start(p, o, mine, payload) PROVE UNCHANGED tx
        BY <4>1 DEF Start, Undisturbed, Defers
      <4> QED
        BY <3>1, <4>1 DEF Request, Post, SaveDraft, MarkSharedDraft, MarkPersonal, Undo, Remove,
                          Amend, Retry, SetStatus, Change
    <3> QED
      BY <3>1
  <2>3. \A w \in Workers : Work(w) => UNCHANGED tx
    BY DEF Work, Handle, SettleEvent, ClaimEvent
  <2>4. \A p \in Procs : Crash(p) => UNCHANGED tx
    BY DEF Crash
  <2>5. \A o \in Ops : ReplayDead(o) \/ OpLeaseExpires(o) \/ EventLeaseExpires(o) => UNCHANGED tx
    BY DEF ReplayDead, OpLeaseExpires, EventLeaseExpires
  <2> QED
    BY <1>2, <2>1, <2>2, <2>3, <2>4, <2>5 DEF Next, Expire
<1> DEFINE me == proc[p]
<1>4. CASE me.pc \in SessionPcs
  <2>1. SessionAbreast(p) /\ me \in Sessions
    BY <1>4, InSession
  <2>2. me.op.action = "delete" /\ me.target = tx.expense
    BY <2>1 DEF SessionAbreast
  <2>3. CASE me.pc \in {"done", "ok"}
    BY <2>1, <2>2, <2>3 DEF SessionAbreast
  <2>4. CASE me.pc \notin {"done", "ok"}
    <3>1. CASE UNCHANGED tx
      BY <1>2, <3>1
    <3>2. ASSUME NEW status, tx' = [tx EXCEPT !.status = status] PROVE FALSE
      BY <1>1, <3>2 DEF TxRow
    <3>3. ASSUME me.pc \in {"insert", "go"}, NEW new \in TxRow, new.expense = me.mine.expense,
                 tx' = Flushed(new, me.tx, tx)
          PROVE  FALSE
      <4>1. me.tx = tx /\ me.mine.expense = tx.expense
        BY <2>1, <3>3 DEF SessionAbreast
      <4>2. tx' = new
        BY <1>1, <3>3, <4>1, FlushedOver
      <4> QED
        BY <3>3, <4>1, <4>2
    <3>4. me.mine \in TxRow /\ [me.mine EXCEPT !.status = QueuedStatus(me.op)] \in TxRow
          /\ [me.mine EXCEPT !.status = QueuedStatus(me.op)].expense = me.mine.expense
      <4>1. me.mine \in TxRow /\ QueuedStatus(me.op) \in Statuses
        BY <2>1, SessionFields, StatusTyped
      <4> QED
        BY <4>1 DEF TxRow
    <3>5. ~Queue(p)
      BY <3>3, <3>4 DEF Queue
    <3>6. ~Acquire(p)
      BY <1>2, <3>3, <3>4 DEF Acquire
    <3>7. ~Call(p) /\ ~FailCall(p)
      BY <3>2 DEF Call, FailCall
    <3>8. ~Look(p) /\ ~LostInsert(p)
      BY <1>2 DEF Look, LostInsert
    <3>9. ~Recover(p) /\ ~Succeed(p) /\ ~Write(p)
      BY <1>4, <2>4 DEF Recover, Succeed, Write, SessionPcs
    <3> QED
      BY <1>3, <3>5, <3>6, <3>7, <3>8, <3>9 DEF Execute
  <2> QED
    BY <2>3, <2>4
<1>5. CASE me.pc \notin SessionPcs
  <2>1. Write(p)
    BY <1>3, <1>5 DEF Execute, LostInsert, Look, Recover, Queue, Acquire, Call, Succeed, FailCall,
                      SessionPcs
  <2>2. WriteAbreast(p)
    BY <2>1 DEF Write, BackedInv, Backing, AllAbreast, Abreast
  <2> QED
    BY <2>2 DEF WriteAbreast
<1> QED
  BY <1>4, <1>5

\* Under the same conditions the expense of a transaction is let go only once Splitwise
\* has deleted it.
THEOREM ForgottenHolds == ASSUME Undisturbed PROVE Spec => ForgottenOnlyWhenDeleted
<1>1. BackedInv /\ [Next]_vars => [ForgetsOnlyDeleted]_vars
  BY StepForgets
<1> QED
  BY <1>1, BackedAlways, PTL DEF Spec, ForgottenOnlyWhenDeleted

=============================================================================
