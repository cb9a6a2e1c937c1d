----------------------------- MODULE PlaidSync -----------------------------
(***************************************************************************)
(* The synchronisation of one Plaid item (TransactionService.sync_item),   *)
(* from the webhook that asks for it to the Telegram message that asks the *)
(* user about a new transaction: app/api/plaid_routes.py, the sync and     *)
(* notification part of app/services/transaction_service.py and the two    *)
(* handlers of app/jobs/outbox.py.  In production the webhook and the      *)
(* message go through the outbox, which repeats a handler until it is done *)
(* (AtLeastOnce); in development a background task syncs and sends itself. *)
(*                                                                         *)
(* No lock keeps two syncs of an item apart.  A step ends with a commit    *)
(* (several commits of one upsert are one step); rows are read in a step   *)
(* before, and the ORM writes the columns that differ from what was read.  *)
(* Splitwise is reduced to its outcome, SplitwiseJournal has the rest.     *)
(***************************************************************************)
EXTENDS Integers, Sequences

CONSTANTS
  Txs,         \* Plaid transactions
  Alike,       \* sets of transactions with the same institution, name, date and amount
  Workers,     \* outbox workers, or background tasks
  Callers,     \* requests to POST /plaid/sync
  Modes,       \* of {"production", "development"}
  MaxFeed,     \* bound: updates that Plaid has; the last may be the pair of a replacement
  PageSize,    \* updates on a page
  MaxTrouble,  \* bound: requests, decisions of the user, exceptions, deaths, failed
               \* messages and expired leases
  None

ASSUME PlaidConstants ==
  /\ Alike \subseteq SUBSET Txs /\ None \notin Txs \cup Nat
  /\ Workers \cap Callers = {}
  /\ Modes \subseteq {"production", "development"}
  /\ MaxFeed \in Nat /\ PageSize \in Nat \ {0} /\ MaxTrouble \in Nat

VARIABLES
  mode,
  feed,     \* Plaid: the updates of the item; a cursor is a position among them
  rows,     \* the ExpenseTransaction rows; version is the update last applied
  cursor,   \* PlaidItem.cursor
  events,   \* the PlaidWebhookEvent rows, each with the length of the feed when it was sent
  review,   \* the outbox: the telegram.review_transaction event of each transaction
  told,     \* messages sent about each transaction
  proc,     \* what each process is doing
  read,     \* history: the highest cursor that was ever saved
  steady,   \* history: no two syncs have overlapped
  lapses,   \* history: deliveries of a message that died, or began beside another
  trouble   \* how much of MaxTrouble has happened

vars == <<mode, feed, rows, cursor, events, review, told, proc, read, steady, lapses, trouble>>

Procs == Workers \cup Callers
Entries == 1..(MaxFeed + 1)
Idle == [pc |-> "idle"]
Absent == [status |-> "none", pending |-> FALSE, version |-> 0, expense |-> FALSE,
           sent |-> FALSE, queued |-> FALSE]

Put(t, pending, replaces) ==
  [kind |-> "put", tx |-> t, pending |-> pending, replaces |-> replaces]
Drop(t) == [kind |-> "drop", tx |-> t, pending |-> FALSE, replaces |-> None]

Syncing(p) == proc[p].pc \notin {"idle", "mark"}

-----------------------------------------------------------------------------
\* An item that was just linked has a transaction.
Init ==
  /\ mode \in Modes
  /\ \E t \in Txs, pending \in BOOLEAN : feed = <<Put(t, pending, None)>>
  /\ events = <<>> /\ cursor = 0
  /\ rows = [t \in Txs |-> Absent]
  /\ review = [t \in Txs |-> "none"]
  /\ told = [t \in Txs |-> 0]
  /\ proc = [p \in Procs |-> Idle]
  /\ read = 0 /\ steady = TRUE /\ lapses = 0 /\ trouble = 0

-----------------------------------------------------------------------------
(* Plaid.                                                                  *)

Updates(t) == {i \in 1..Len(feed) : feed[i].tx = t}
LatestBefore(t, n) == {i \in Updates(t) : i <= n /\ \A j \in Updates(t) : j <= n => j <= i}
Current(t) == \E i \in LatestBefore(t, Len(feed)) : feed[i].kind = "put"
IsPending(t) == \E i \in LatestBefore(t, Len(feed)) : feed[i].kind = "put" /\ feed[i].pending

\* A transaction appears, settles or changes, or is removed; a settled one may
\* replace a pending one.
Update ==
  /\ \E t \in Txs :
       \/ \E pending \in BOOLEAN :
            /\ Updates(t) = {}
            /\ feed' = Append(feed, Put(t, pending, None))
       \/ \E p \in Txs \ {t} :
            /\ Updates(t) = {} /\ IsPending(p)
            /\ feed' = Append(Append(feed, Put(t, FALSE, p)), Drop(p))
       \/ \E i \in LatestBefore(t, Len(feed)) :
            /\ feed[i].kind = "put"
            /\ feed' = Append(feed, Put(t, FALSE, feed[i].replaces))
       \/ /\ Current(t)
          /\ feed' = Append(feed, Drop(t))
  /\ Len(feed) < MaxFeed
  /\ UNCHANGED <<mode, rows, cursor, events, review, told, proc, read, steady, lapses, trouble>>

\* The SYNC_UPDATES_AVAILABLE webhook and its handler: the event, and in
\* production its outbox event, are committed together.  A copy of a webhook
\* has its fingerprint and changes nothing.
Webhook ==
  /\ \A e \in DOMAIN events : events[e].upto < Len(feed)
  /\ events' = Append(events, [state |-> "queued", upto |-> Len(feed)])
  /\ UNCHANGED <<mode, feed, rows, cursor, review, told, proc, read, steady, lapses, trouble>>

-----------------------------------------------------------------------------
(* The user, and the operations that SplitwiseJournal examines.            *)

MarkPersonal(t) ==
  /\ rows[t].status = "ask"
  /\ trouble < MaxTrouble /\ trouble' = trouble + 1
  /\ rows' = [rows EXCEPT ![t].status = "personal"]
  /\ UNCHANGED <<mode, feed, cursor, events, review, told, proc, read, steady, lapses>>

Post(t) ==
  /\ rows[t].status = "ask" /\ ~rows[t].pending
  /\ trouble < MaxTrouble /\ trouble' = trouble + 1
  /\ rows' = [rows EXCEPT ![t].status = "posted", ![t].expense = TRUE]
  /\ UNCHANGED <<mode, feed, cursor, events, review, told, proc, read, steady, lapses>>

\* _complete_splitwise_update, and _complete_splitwise_delete after a removal.
Reconcile(t) ==
  /\ \/ /\ rows[t].status = "reconcile"
        /\ rows' = [rows EXCEPT ![t].status = "posted"]
     \/ /\ rows[t].status = "undoing"
        /\ rows' = [rows EXCEPT ![t].status = "removed", ![t].expense = FALSE]
  /\ UNCHANGED <<mode, feed, cursor, events, review, told, proc, read, steady, lapses, trouble>>

-----------------------------------------------------------------------------
(* sync_item.                                                              *)

\* A sync begins: for a webhook event, or on request (e is None).  The outbox
\* gives an event that is not processed to a worker, and to a second one if
\* the lease of the first has expired.
Begin(p, e) ==
  /\ proc[p] = Idle
  /\ \/ /\ p \in Callers /\ e = None
        /\ trouble < MaxTrouble /\ trouble' = trouble + 1
        /\ UNCHANGED events
     \/ /\ p \in Workers /\ e \in DOMAIN events
        /\ IF mode = "production" THEN events[e].state # "processed"
           ELSE events[e].state = "queued"
        /\ IF \E q \in Procs : Syncing(q) /\ proc[q].event = e
           THEN trouble < MaxTrouble /\ trouble' = trouble + 1
           ELSE UNCHANGED trouble
        /\ events' = [events EXCEPT ![e].state = "syncing"]
  /\ proc' = [proc EXCEPT ![p] =
       [pc |-> "fetch", event |-> e, start |-> cursor, at |-> cursor, more |-> TRUE,
        batch |-> {}, next |-> 0, row |-> Absent, again |-> FALSE, about |-> None, tried |-> {},
        over |-> FALSE, ready |-> {}]]
  /\ steady' = (steady /\ \A q \in Procs : ~Syncing(q))
  /\ UNCHANGED <<mode, feed, rows, cursor, review, told, read, lapses>>

\* The position of a session after its next page.
PageEnd(at) == IF at + PageSize < Len(feed) THEN at + PageSize ELSE Len(feed)

\* transactions_sync: a page of what follows the cursor.
Fetched(me) ==
  LET page == (me.at + 1)..PageEnd(me.at)
  IN [me EXCEPT !.pc = IF page = {} THEN "fetch" ELSE "load",
                !.at = PageEnd(me.at), !.more = PageEnd(me.at) < Len(feed), !.batch = page]

\* Mutant: the cursor is saved with every page.
FetchSaving(p) ==
  /\ proc[p].pc = "fetch" /\ proc[p].more
  /\ cursor' = PageEnd(proc[p].at)
  /\ proc' = [proc EXCEPT ![p] = Fetched(@)]
  /\ UNCHANGED <<mode, feed, rows, events, review, told, read, steady, lapses, trouble>>

Fetch(p) ==
  /\ proc[p].pc = "fetch" /\ proc[p].more
  /\ proc' = [proc EXCEPT ![p] = Fetched(@)]
  /\ UNCHANGED <<mode, feed, rows, cursor, events, review, told, read, steady, lapses, trouble>>

\* The removals of a page are applied after its other updates.
ComesFirst(i, batch) ==
  \A j \in batch : IF feed[i].kind = feed[j].kind THEN i <= j ELSE feed[i].kind = "put"

\* The row of the next update is selected.
Load(p) ==
  LET me == proc[p]
  IN /\ me.pc = "load"
     /\ \E i \in me.batch :
          /\ ComesFirst(i, me.batch)
          /\ proc' = [proc EXCEPT ![p] = [me EXCEPT !.pc = "write", !.next = i, !.again = FALSE,
                                                    !.row = rows[feed[i].tx]]]
     /\ UNCHANGED <<mode, feed, rows, cursor, events, review, told, read, steady, lapses, trouble>>

\* Mutant: a message that was sent does not count.
NotifiableSent(row) == row.status = "ask" /\ ~row.pending /\ ~row.queued /\ ~row.expense

\* should_notify_for_review, on a row as a session sees it.
Notifiable(row) ==
  row.status = "ask" /\ ~row.pending /\ ~row.sent /\ ~row.queued /\ ~row.expense

\* Mutant: an old row is classified again.
UpsertedAfresh(row, i, again) ==
  [Absent EXCEPT !.status = "ask", !.pending = feed[i].pending, !.version = i]

\* _upsert_transaction_with_result_once, of update i: a new row is classified and asked
\* about, an old one keeps its status, unless its expense has to follow the amount.
\* The retry after a conflict leaves the expense alone.
Upserted(row, i, again) ==
  IF row.status = "none"
  THEN [Absent EXCEPT !.status = "ask", !.pending = feed[i].pending, !.version = i]
  ELSE [row EXCEPT !.pending = feed[i].pending, !.version = i,
                   !.status = IF row.expense /\ ~again /\ row.version # i
                              THEN "reconcile" ELSE @]

\* mark_removed, and what becomes of the pending row in _link_pending_replacement.
Removed(row) ==
  IF row.status = "none" THEN row
  ELSE [row EXCEPT !.status = IF row.expense THEN "undoing" ELSE "removed"]

\* What the ORM makes of the row now in the table: the columns that were changed.
Written(now, from, to) == [c \in DOMAIN now |-> IF to[c] # from[c] THEN to[c] ELSE now[c]]

\* The rows when update i of a session that read row is committed; deleting an
\* expense goes by the operation that the journal has for it.
Applied(row, i, again) ==
  LET t == feed[i].tx
  IN IF feed[i].kind = "drop"
     THEN [rows EXCEPT ![t] = IF row.expense THEN Removed(@) ELSE Written(@, row, Removed(row))]
     ELSE [u \in Txs |-> IF u = t THEN Written(rows[t], row, Upserted(row, i, again))
                         ELSE IF u = feed[i].replaces THEN Removed(rows[u]) ELSE rows[u]]

\* Whether the insert of a session fails: another one has inserted the row.
Taken(me) ==
  feed[me.next].kind = "put" /\ me.row.status = "none" /\ rows[feed[me.next].tx].status # "none"

\* The update is committed; the user is asked about a row that is new or settled.
Write(p) ==
  LET me == proc[p]  t == feed[me.next].tx
      eligible == /\ feed[me.next].kind = "put"
                  /\ Notifiable(Upserted(me.row, me.next, me.again))
                  /\ me.row.status = "none" \/ me.row.pending
  IN /\ me.pc = "write" /\ ~Taken(me)
     /\ rows' = Applied(me.row, me.next, me.again)
     /\ proc' = [proc EXCEPT ![p] =
          [me EXCEPT !.batch = @ \ {me.next}, !.next = 0, !.row = Absent, !.again = FALSE,
                     !.pc = IF eligible THEN "notify"
                            ELSE IF me.batch = {me.next} THEN "fetch" ELSE "load",
                     !.about = IF eligible THEN t ELSE None,
                     !.tried = IF eligible THEN @ \cup {t} ELSE @]]
     /\ UNCHANGED <<mode, feed, cursor, events, review, told, read, steady, lapses, trouble>>

\* Then rollback, and _retry_duplicate_transaction_upsert.
Conflict(p) ==
  LET me == proc[p]
  IN /\ me.pc = "write" /\ Taken(me)
     /\ proc' = [proc EXCEPT ![p] = [me EXCEPT !.row = rows[feed[me.next].tx], !.again = TRUE]]
     /\ UNCHANGED <<mode, feed, rows, cursor, events, review, told, read, steady, lapses, trouble>>

\* Mutant: nothing is selected again.
SaveCursorOnly(p) ==
  LET me == proc[p]
  IN /\ me.pc = "fetch" /\ ~me.more
     /\ cursor' = IF me.at # me.start THEN me.at ELSE cursor
     /\ read' = IF me.at > read THEN me.at ELSE read
     /\ proc' = [proc EXCEPT ![p] = [me EXCEPT !.pc = "ready", !.tried = {}, !.over = TRUE]]
     /\ UNCHANGED <<mode, feed, rows, events, review, told, steady, lapses, trouble>>

\* After the last page the cursor is saved, and the transactions that still have to
\* be notified are selected.
SaveCursor(p) ==
  LET me == proc[p]
  IN /\ me.pc = "fetch" /\ ~me.more
     /\ cursor' = IF me.at # me.start THEN me.at ELSE cursor
     /\ read' = IF me.at > read THEN me.at ELSE read
     /\ proc' = [proc EXCEPT ![p] =
          [me EXCEPT !.pc = "ready", !.tried = {}, !.over = TRUE,
                     !.ready = {t \in Txs : Notifiable(rows[t])} \ me.tried]]
     /\ UNCHANGED <<mode, feed, rows, events, review, told, steady, lapses, trouble>>

NextReady(p) ==
  LET me == proc[p]
  IN /\ me.pc = "ready"
     /\ \E t \in me.ready :
          proc' = [proc EXCEPT ![p] = [me EXCEPT !.pc = "notify", !.about = t, !.ready = @ \ {t}]]
     /\ UNCHANGED <<mode, feed, rows, cursor, events, review, told, read, steady, lapses, trouble>>

\* _sync_item_by_db_id marks its event; the worker then completes the outbox event.
Finish(p) ==
  LET me == proc[p]
  IN /\ me.pc = "ready" /\ me.ready = {}
     /\ events' = IF me.event = None THEN events
                  ELSE [events EXCEPT ![me.event].state = "processed"]
     /\ proc' = [proc EXCEPT ![p] = Idle]
     /\ UNCHANGED <<mode, feed, rows, cursor, review, told, read, steady, lapses, trouble>>

-----------------------------------------------------------------------------
(* _attempt_review_notification.                                           *)

\* _already_notified_duplicate.
Duplicate(t) ==
  \E u \in Txs \ {t} : /\ {t, u} \in Alike
                       /\ rows[u].sent \/ rows[u].queued
                       /\ rows[u].pending = rows[t].pending

\* Back to the page, or to the rest of the ready transactions.
Resumed(me) ==
  [me EXCEPT !.about = None,
             !.pc = IF me.over THEN "ready"
                    ELSE IF me.batch = {} THEN "fetch" ELSE "load"]

\* The row is refreshed and checked: the message is not wanted any more, counts as
\* sent because a look-alike has it, or is queued (production) or claimed (by an
\* UPDATE that finds sent_at empty).
Notify(p) ==
  LET me == proc[p]  t == me.about  wanted == Notifiable(rows[t])
  IN /\ me.pc = "notify"
     /\ \/ /\ wanted /\ ~Duplicate(t) /\ mode = "production"
           /\ proc' = [proc EXCEPT ![p] = [me EXCEPT !.pc = "enqueue"]]
           /\ UNCHANGED rows
        \/ /\ wanted /\ ~Duplicate(t) /\ mode = "development"
           /\ rows' = [rows EXCEPT ![t].sent = TRUE]
           /\ proc' = [proc EXCEPT ![p] = [me EXCEPT !.pc = "send"]]
        \/ /\ wanted /\ Duplicate(t)
           /\ rows' = [rows EXCEPT ![t].sent = TRUE]
           /\ proc' = [proc EXCEPT ![p] = Resumed(me)]
        \/ /\ ~wanted
           /\ proc' = [proc EXCEPT ![p] = Resumed(me)]
           /\ UNCHANGED rows
     /\ UNCHANGED <<mode, feed, cursor, events, review, told, read, steady, lapses, trouble>>

\* _enqueue_review_notification: at most one outbox event for a transaction.
Enqueue(p) ==
  LET me == proc[p]  t == me.about
  IN /\ me.pc = "enqueue"
     /\ review' = [review EXCEPT ![t] = IF @ = "none" THEN "due" ELSE @]
     /\ rows' = [rows EXCEPT ![t].queued = TRUE]
     /\ proc' = [proc EXCEPT ![p] = Resumed(me)]
     /\ UNCHANGED <<mode, feed, cursor, events, told, read, steady, lapses, trouble>>

\* The claimed message is sent, or fails and the claim is released.
Send(p) ==
  LET me == proc[p]  t == me.about
  IN /\ me.pc = "send"
     /\ \/ /\ told' = [told EXCEPT ![t] = @ + 1]
           /\ UNCHANGED <<rows, trouble>>
        \/ /\ trouble < MaxTrouble /\ trouble' = trouble + 1
           /\ rows' = [rows EXCEPT ![t].sent = FALSE]
           /\ UNCHANGED told
     /\ proc' = [proc EXCEPT ![p] = Resumed(me)]
     /\ UNCHANGED <<mode, feed, cursor, events, review, read, steady, lapses>>

\* _handle_telegram_review: the message is sent, and then recorded.
Deliver(p, t) ==
  /\ p \in Workers /\ proc[p] = Idle
  /\ review[t] = "due"
  /\ IF \E q \in Procs : proc[q].pc = "mark" /\ proc[q].about = t
     THEN trouble < MaxTrouble /\ trouble' = trouble + 1 /\ lapses' = lapses + 1
     ELSE UNCHANGED <<trouble, lapses>>
  /\ IF rows[t].sent
     THEN review' = [review EXCEPT ![t] = "done"] /\ UNCHANGED <<told, proc>>
     ELSE /\ told' = [told EXCEPT ![t] = @ + 1]
          /\ proc' = [proc EXCEPT ![p] = [pc |-> "mark", about |-> t]]
          /\ UNCHANGED review
  /\ UNCHANGED <<mode, feed, rows, cursor, events, read, steady>>

Mark(p) ==
  LET t == proc[p].about
  IN /\ proc[p].pc = "mark"
     /\ rows' = [rows EXCEPT ![t].sent = TRUE, ![t].queued = FALSE]
     /\ review' = [review EXCEPT ![t] = "done"]
     /\ proc' = [proc EXCEPT ![p] = Idle]
     /\ UNCHANGED <<mode, feed, cursor, events, told, read, steady, lapses, trouble>>

-----------------------------------------------------------------------------
(* What goes wrong.                                                        *)

\* Mutant: an event is processed although its sync failed.
FailProcessed(p) ==
  /\ Syncing(p) /\ proc[p].pc # "send"
  /\ trouble < MaxTrouble /\ trouble' = trouble + 1
  /\ events' = IF proc[p].event = None THEN events
               ELSE [events EXCEPT ![proc[p].event].state = "processed"]
  /\ proc' = [proc EXCEPT ![p] = Idle]
  /\ UNCHANGED <<mode, feed, rows, cursor, review, told, read, steady, lapses>>

\* An exception: _sync_item_by_db_id marks the event as failed, and the worker
\* gives its outbox event back.
Fail(p) ==
  /\ Syncing(p) /\ proc[p].pc # "send"
  /\ trouble < MaxTrouble /\ trouble' = trouble + 1
  /\ events' = IF proc[p].event = None THEN events
               ELSE [events EXCEPT ![proc[p].event].state = "failed"]
  /\ proc' = [proc EXCEPT ![p] = Idle]
  /\ UNCHANGED <<mode, feed, rows, cursor, review, told, read, steady, lapses>>

\* The process dies; the lease of its outbox event expires.
Die(p) ==
  /\ proc[p] # Idle
  /\ trouble < MaxTrouble /\ trouble' = trouble + 1
  /\ lapses' = IF proc[p].pc = "mark" THEN lapses + 1 ELSE lapses
  /\ proc' = [proc EXCEPT ![p] = Idle]
  /\ UNCHANGED <<mode, feed, rows, cursor, events, review, told, read, steady>>

Step(p) ==
  \/ Fetch(p) \/ Load(p) \/ Write(p) \/ Conflict(p) \/ SaveCursor(p) \/ NextReady(p)
  \/ Finish(p) \/ Notify(p) \/ Enqueue(p) \/ Send(p) \/ Mark(p)

Next ==
  \/ Update \/ Webhook
  \/ \E t \in Txs : MarkPersonal(t) \/ Post(t) \/ Reconcile(t)
  \/ \E p \in Procs : Step(p) \/ Fail(p) \/ Die(p)
  \/ \E p \in Procs, e \in Entries \cup {None} : Begin(p, e)
  \/ \E p \in Workers, t \in Txs : Deliver(p, t)

Spec == Init /\ [][Next]_vars

\* Plaid announces what it has, processes go on, and the outbox gives out what is due.
FairSpec ==
  /\ Spec
  /\ WF_vars(Webhook)
  /\ \A p \in Procs : WF_vars(Step(p))
  /\ \A e \in Entries : WF_vars(\E p \in Workers : Begin(p, e))
  /\ \A t \in Txs : WF_vars(\E p \in Workers : Deliver(p, t))

-----------------------------------------------------------------------------
PlaidUpdate ==
  [kind : {"put", "drop"}, tx : Txs, pending : BOOLEAN, replaces : Txs \cup {None}]

Row == [status : {"none", "ask", "personal", "posted", "reconcile", "undoing", "removed"},
        pending : BOOLEAN, version : Nat, expense : BOOLEAN, sent : BOOLEAN, queued : BOOLEAN]

EventRow == [state : {"queued", "syncing", "processed", "failed"}, upto : Nat]

SyncSession ==
  [pc : {"fetch", "load", "write", "ready", "notify", "enqueue", "send"}, event : Nat \cup {None},
   start : Nat, at : Nat, more : BOOLEAN, batch : SUBSET Nat, next : Nat, row : Row,
   again : BOOLEAN, about : Txs \cup {None}, tried : SUBSET Txs, over : BOOLEAN,
   ready : SUBSET Txs]

Delivery == [pc : {"mark"}, about : Txs]

\* Every variable has its type, and no position is past the end of the feed.
TypeOK ==
  /\ mode \in Modes /\ steady \in BOOLEAN
  /\ feed \in Seq(PlaidUpdate) /\ Len(feed) <= MaxFeed + 1
  /\ cursor \in 0..Len(feed) /\ read \in 0..Len(feed)
  /\ rows \in [Txs -> Row]
  /\ events \in Seq(EventRow) /\ \A e \in DOMAIN events : events[e].upto <= Len(feed)
  /\ review \in [Txs -> {"none", "due", "done"}]
  /\ told \in [Txs -> Nat]
  /\ proc \in [Procs -> {Idle} \cup SyncSession \cup Delivery]
  /\ lapses \in 0..trouble /\ trouble \in 0..MaxTrouble

\* The row of a transaction shows what Plaid had at the cursor, or something newer.
KeepsUp(t) ==
  \A i \in LatestBefore(t, cursor) :
    IF feed[i].kind = "put" THEN rows[t].version >= i
    ELSE rows[t].status \in {"none", "removed", "undoing"}

\* The cursor never runs ahead of the rows: no update that a saved cursor has passed
\* is missing, although syncs fail, die and start again from the old cursor
\* (sync_item saves it after the last page), as long as syncs do not overlap.
RowsKeepUp == steady => \A t \in Txs : KeepsUp(t)

\* A pending transaction and the one that replaced it are never both open: linking
\* and the removal are one commit, and a replayed page does not bring the pending
\* one back (_link_pending_replacement).
ReplacedIsGone ==
  steady => \A i \in DOMAIN feed :
    LET t == feed[i].tx  prior == feed[i].replaces
    IN prior # None /\ rows[t].status # "none"
         => rows[prior].status \in {"none", "removed", "undoing"}

\* A webhook event counts as processed only when a saved cursor has passed every
\* update it announced, whichever sync saved it (_sync_item_by_db_id).
ProcessedIsRead ==
  \A e \in DOMAIN events : events[e].state = "processed" => read >= events[e].upto

\* The user is asked once about a transaction, whatever syncs overlap, fail or are
\* repeated; only a delivery that died, or outlived its lease, is repeated
\* (_claim_review_notification, enqueue_outbox_event, _handle_telegram_review).
ToldOnce == \A t \in Txs : told[t] <= 1 + lapses

\* In development nothing is retried.
Retried == mode = "production" \/ trouble = 0

\* Every update is read in the end, whatever fails.
UpdatesAreRead == \A i \in Entries : Len(feed) >= i /\ Retried ~> read >= i \/ ~Retried

Heard(t) == \E u \in Txs : told[u] > 0 /\ (u = t \/ {t, u} \in Alike)

\* A settled transaction that waits for the user is announced in the end, itself or
\* a look-alike, whatever fails, unless it is settled otherwise before.
SettledIsTold ==
  \A t \in Txs :
    rows[t].status = "ask" /\ ~rows[t].pending /\ Retried
      ~> Heard(t) \/ rows[t].status # "ask" \/ rows[t].pending \/ ~Retried
=============================================================================
