----------------------------- MODULE GmailSync -----------------------------
(***************************************************************************)
(* The scheduled Gmail jobs: app/jobs/gmail_receipts.py and                *)
(* app/jobs/promotions.py under the lease of                               *)
(* app/services/job_lease_service.py, the two sync services they run and   *)
(* the checkpoint each leaves for its next run.  The sync endpoints of the *)
(* API run the same services and take no lease.                            *)
(*                                                                         *)
(* A job acquires its lease without committing, so until the first commit  *)
(* of the service PostgreSQL's row lock protects it and a rollback takes   *)
(* the acquisition back.  Mail that is no receipt or no longer promotional *)
(* when it is fetched is left out, and the checkpoint row exists already.  *)
(***************************************************************************)
EXTENDS Integers, FiniteSets

CONSTANTS
  Jobs,         \* scheduled processes
  Callers,      \* requests to a sync endpoint
  Kinds,        \* of {"promotions", "receipts"}: the services examined
  MaxMail,      \* bound: messages that arrive
  Limit,        \* messages listed at a time
  MaxTrouble,   \* bound: relabellings of messages, requests, exceptions, deaths, histories
                \* that Gmail has dropped and leases that run out under a working job
  None

ASSUME SyncConstants ==
  /\ Jobs \cap Callers = {} /\ None \notin Jobs \cup Callers \cup Nat
  /\ Kinds \subseteq {"promotions", "receipts"}
  /\ MaxMail \in Nat /\ Limit \in Nat \ {0} /\ MaxTrouble \in Nat

VARIABLES
  kind,        \* the service under examination
  mail,        \* Gmail: where the arrival of each message stands in the history (0: not
               \* yet), and the historyId it shows now
  clock,       \* Gmail: the last historyId given out
  lease,       \* the ScheduledJobLease row; open while its writer has not committed
  checkpoint,  \* the GmailSyncCheckpoint row: history_id (0 for none), complete, and the
               \* two page tokens
  done,        \* messages whose PromotionMessage or PurchaseReceipt is complete
  partial,     \* messages whose PromotionMessage was committed unprocessed
  proc,        \* what each process is doing
  late,        \* jobs that work on although their lease ran out or was rolled back
  steady,      \* history: no two runs have overlapped and no promotion was relabelled
  trouble      \* how much of MaxTrouble has happened

vars == <<kind, mail, clock, lease, checkpoint, done, partial, proc, late, steady, trouble>>

Procs == Jobs \cup Callers
Mail == 1..MaxMail
Idle == [pc |-> "idle"]
Columns == {"history", "complete", "page", "next"}

Arrived == {m \in Mail : mail[m].added > 0}
Newer(a, b) == IF b > a THEN b ELSE a

-----------------------------------------------------------------------------
Init ==
  /\ kind \in Kinds
  /\ mail = [m \in Mail |-> [added |-> 0, shown |-> 0]]
  /\ clock = 0
  /\ lease = [holder |-> None, live |-> FALSE, open |-> FALSE]
  /\ checkpoint = [history |-> 0, complete |-> FALSE, page |-> None, next |-> None]
  /\ done = {} /\ partial = {} /\ late = {} /\ steady = TRUE
  /\ proc = [p \in Procs |-> Idle]
  /\ trouble = 0

-----------------------------------------------------------------------------
(* Gmail.                                                                  *)

Arrive(m) ==
  /\ mail[m].added = 0
  /\ \A n \in Mail : n < m => mail[n].added > 0
  /\ clock' = clock + 1
  /\ mail' = [mail EXCEPT ![m] = [added |-> clock + 1, shown |-> clock + 1]]
  /\ UNCHANGED <<kind, steady, lease, checkpoint, done, partial, proc, late, trouble>>

\* A label of the message changes: it is read, starred or archived.
Touch(m) ==
  /\ mail[m].added > 0
  /\ trouble < MaxTrouble
  /\ clock' = clock + 1
  /\ mail' = [mail EXCEPT ![m].shown = clock + 1]
  /\ trouble' = trouble + 1
  /\ steady' = (steady /\ kind = "receipts")
  /\ UNCHANGED <<kind, lease, checkpoint, done, partial, proc, late>>

\* messages.list: the messages below a page token, newest first.
Below(token) == {m \in Arrived : token # None => m < token}
Newest(all) == {m \in all : Cardinality({n \in all : n > m}) < Limit}
\* history.list: the arrivals after a position, oldest first.
After(position) == {m \in Arrived : mail[m].added > position}
Oldest(all) == {m \in all : Cardinality({n \in all : n < m}) < Limit}

-----------------------------------------------------------------------------
(* app/services/job_lease_service.py.                                      *)

\* acquire_job_lease: a job that finds the lease live skips its run.  Behind an
\* uncommitted acquisition it waits for the row.
Acquire(p) ==
  /\ ~lease.open /\ ~lease.live
  /\ lease' = [holder |-> p, live |-> TRUE, open |-> TRUE]

\* Mutant: the release does not compare the token.
ReleasedAny(p) == [lease EXCEPT !.live = FALSE, !.open = FALSE]

\* What a commit of p, a rollback of p and release_job_lease leave of the row.
Committed(p) == IF lease.holder = p THEN [lease EXCEPT !.open = FALSE] ELSE lease
RolledBack(p) ==
  IF lease.holder = p /\ lease.open THEN [holder |-> None, live |-> FALSE, open |-> FALSE]
  ELSE lease
Released(p) ==
  IF lease.holder = p THEN [lease EXCEPT !.live = FALSE, !.open = FALSE] ELSE lease

\* A job that goes on after a rollback took its uncommitted acquisition.
Unprotected(p) == IF lease.holder = p /\ lease.open THEN late \cup {p} ELSE late

\* lease_expires_at passes: after a death, or while the holder still works.
Expire ==
  /\ lease.live
  /\ IF proc[lease.holder] # Idle /\ lease.holder \notin late
     THEN /\ trouble < MaxTrouble
          /\ trouble' = trouble + 1
          /\ late' = late \cup {lease.holder}
     ELSE UNCHANGED <<trouble, late>>
  /\ lease' = [lease EXCEPT !.live = FALSE]
  /\ UNCHANGED <<kind, steady, mail, clock, checkpoint, done, partial, proc>>

-----------------------------------------------------------------------------
(* GmailPromotionIngestionService.sync and GmailReceiptService.sync.       *)

\* A run begins with its checkpoint loaded: a job with the lease, a request without.
Begin(p) ==
  /\ proc[p] = Idle
  /\ \/ p \in Jobs /\ Acquire(p) /\ UNCHANGED trouble
     \/ /\ p \in Callers /\ trouble < MaxTrouble
        /\ trouble' = trouble + 1
        /\ UNCHANGED lease
  /\ proc' = [proc EXCEPT ![p] = [pc |-> "list", base |-> checkpoint]]
  /\ steady' = (steady /\ \A q \in Procs : proc[q] = Idle)
  /\ UNCHANGED <<kind, mail, clock, checkpoint, done, partial, late>>

\* The run with a page of messages ids still to handle: whether it backfills,
\* the token of the page that follows and the newest historyId seen.
Listed(p, backfill, ids, next, newest) ==
  proc' = [proc EXCEPT ![p] = [pc |-> "fetch", base |-> proc[p].base, backfill |-> backfill,
                               ids |-> ids, next |-> next, newest |-> newest,
                               message |-> None, row |-> None, shown |-> 0]]

\* _backfill_ids, and the page that the receipts read.
Backfills(p, token) ==
  LET all == Below(token)  page == Newest(all)
  IN \/ page = all /\ Listed(p, TRUE, page, None, 0)
     \/ /\ page # all
        /\ \E last \in page : (\A m \in page : last <= m) /\ Listed(p, TRUE, page, last, 0)

\* _incremental_ids: the arrivals after the token or else the checkpoint.
Increment(p, base) ==
  LET all == After(IF base.next # None THEN base.next ELSE base.history)  page == Oldest(all)
  IN \/ page = all /\ Listed(p, FALSE, page, None, clock)
     \/ /\ page # all
        /\ \E last \in page : /\ \A m \in page : m <= last
                              /\ Listed(p, FALSE, page, mail[last].added, clock)

Incremental(base) == kind = "promotions" /\ base.complete /\ base.history > 0

\* A history or a page that Gmail no longer keeps is answered with 404, and the
\* promotions are backfilled anew.
List(p) ==
  /\ proc[p].pc = "list"
  /\ LET base == proc[p].base
     IN \/ /\ Incremental(base)
           /\ Increment(p, base)
           /\ UNCHANGED trouble
        \/ /\ kind = "promotions"
           /\ trouble < MaxTrouble
           /\ trouble' = trouble + 1
           /\ Backfills(p, None)
        \/ /\ ~Incremental(base)
           /\ Backfills(p, IF kind = "promotions" \/ ~base.complete THEN base.page ELSE None)
           /\ UNCHANGED trouble
  /\ UNCHANGED <<kind, steady, mail, clock, lease, checkpoint, done, partial, late>>

\* Mutant: a message whose row exists counts as processed, complete or not.
StoredAny(m) == IF m \in done \cup partial THEN "done" ELSE "absent"

\* The row of a message that the run finds.
Stored(m) == IF m \in done THEN "done" ELSE IF m \in partial THEN "partial" ELSE "absent"

\* The next message: the receipts skip one that is stored, the others are
\* fetched, with the historyId they show now.
Fetch(p) ==
  LET me == proc[p]
  IN /\ me.pc = "fetch"
     /\ \E m \in me.ids :
          /\ \A n \in me.ids : IF me.backfill THEN n <= m ELSE m <= n
          /\ proc' = [proc EXCEPT ![p] =
               IF kind = "receipts" /\ Stored(m) = "done" THEN [me EXCEPT !.ids = @ \ {m}]
               ELSE [me EXCEPT !.pc = "store", !.message = m, !.row = Stored(m),
                               !.shown = mail[m].shown]]
     /\ UNCHANGED <<kind, steady, mail, clock, lease, checkpoint, done, partial, late, trouble>>

\* The run after a message; a commit or a rollback expires what it had loaded.
NextMessage(p, base) ==
  LET me == proc[p]
  IN proc' = [proc EXCEPT ![p] = [me EXCEPT !.pc = "fetch", !.ids = @ \ {me.message},
                                  !.base = base, !.newest = Newer(@, me.shown)]]

\* process_message and ingest_text: a message is stored in one commit.
Store(p) ==
  LET me == proc[p]  m == me.message
  IN /\ me.pc = "store" /\ me.row # "done"
     /\ \/ m \notin done \cup partial
        \/ me.row = "partial"
     /\ done' = done \cup {m}
     /\ partial' = partial \ {m}
     /\ lease' = Committed(p)
     /\ NextMessage(p, None)
     /\ UNCHANGED <<kind, steady, mail, clock, checkpoint, late, trouble>>

\* The message is complete already: nothing is written.
Skip(p) ==
  LET me == proc[p]  m == me.message
  IN /\ me.pc = "store"
     /\ \/ me.row = "done"
        \/ kind = "receipts" /\ m \in done   \* _persist_serialized looks again
     /\ NextMessage(p, me.base)
     /\ UNCHANGED <<kind, steady, mail, clock, lease, checkpoint, done, partial, late, trouble>>

\* _failed_receipt meets the receipt of another run: it rolls back and goes on.
Overtaken(p) ==
  LET me == proc[p]
  IN /\ me.pc = "store" /\ kind = "receipts" /\ me.row # "done" /\ me.message \in done
     /\ lease' = RolledBack(p)
     /\ late' = Unprotected(p)
     /\ NextMessage(p, None)
     /\ UNCHANGED <<kind, steady, mail, clock, checkpoint, done, partial, trouble>>

\* Two runs insert the same PromotionMessage: the later flush fails, and the
\* session can no longer release the lease.
Clash(p) ==
  LET me == proc[p]
  IN /\ me.pc = "store" /\ kind = "promotions" /\ me.row = "absent"
     /\ me.message \in done \cup partial
     /\ lease' = RolledBack(p)
     /\ proc' = [proc EXCEPT ![p] = Idle]
     /\ late' = late \ {p}
     /\ UNCHANGED <<kind, steady, mail, clock, checkpoint, done, partial, trouble>>

\* Mutant: once complete, the list is not walked to its end again.
ReceiptOutcomeOnce(me, base) ==
  [base EXCEPT !.page = me.next, !.complete = base.complete \/ me.next = None]

\* What a run makes of the checkpoint: the receipts go through their list page by
\* page, and after the last page begin again with the newest.
ReceiptOutcome(me, base) == [base EXCEPT !.page = me.next, !.complete = me.next = None]

\* A backfill of the promotions, and an incremental run: the history advances
\* with the last page only.
BackfillOutcome(me, base) ==
  [history |-> Newer(base.history, me.newest), page |-> me.next,
   complete |-> me.next = None, next |-> None]

IncrementOutcome(me, base) ==
  [base EXCEPT !.next = me.next,
               !.history = IF me.next = None THEN Newer(@, me.newest) ELSE @]

Outcome(me, base) ==
  IF kind = "receipts" THEN ReceiptOutcome(me, base)
  ELSE IF me.backfill THEN BackfillOutcome(me, base) ELSE IncrementOutcome(me, base)

\* The end of the run: of the checkpoint it has loaded the ORM writes the columns
\* that changed.  A job then releases its lease.
Finish(p) ==
  LET me == proc[p]
      base == IF me.base = None THEN checkpoint ELSE me.base
      out == Outcome(me, base)
  IN /\ me.pc = "fetch" /\ me.ids = {}
     /\ checkpoint' = [c \in Columns |-> IF out[c] # base[c] THEN out[c] ELSE checkpoint[c]]
     /\ lease' = Committed(p)
     /\ proc' = [proc EXCEPT ![p] = IF p \in Jobs THEN [pc |-> "release"] ELSE Idle]
     /\ UNCHANGED <<kind, steady, mail, clock, done, partial, late, trouble>>

Release(p) ==
  /\ proc[p].pc = "release"
  /\ lease' = Released(p)
  /\ proc' = [proc EXCEPT ![p] = Idle]
  /\ late' = late \ {p}
  /\ UNCHANGED <<kind, steady, mail, clock, checkpoint, done, partial, trouble>>

\* An exception, of Gmail or of the parser.  A job's finally clause releases the
\* lease and so commits the message that was flushed; a request rolls back.
Fail(p) ==
  LET me == proc[p]
      flushed == IF p \in Jobs /\ me.pc = "store" /\ kind = "promotions"
                 THEN {me.message} \ (done \cup partial) ELSE {}
  IN /\ me.pc \in {"list", "fetch", "store"}
     /\ trouble < MaxTrouble
     /\ trouble' = trouble + 1
     /\ partial' = partial \cup flushed
     /\ lease' = Released(p)
     /\ proc' = [proc EXCEPT ![p] = Idle]
     /\ late' = late \ {p}
     /\ UNCHANGED <<kind, steady, mail, clock, checkpoint, done>>

\* The process dies: what it had not committed is gone, its lease stays.
Die(p) ==
  /\ proc[p] # Idle
  /\ trouble < MaxTrouble
  /\ trouble' = trouble + 1
  /\ lease' = RolledBack(p)
  /\ proc' = [proc EXCEPT ![p] = Idle]
  /\ late' = late \ {p}
  /\ UNCHANGED <<kind, steady, mail, clock, checkpoint, done, partial>>

Run(p) ==
  \/ List(p) \/ Fetch(p) \/ Store(p) \/ Skip(p) \/ Overtaken(p) \/ Clash(p)
  \/ Finish(p) \/ Release(p)

Next ==
  \/ \E m \in Mail : Arrive(m) \/ Touch(m)
  \/ Expire
  \/ \E p \in Procs : Begin(p) \/ Run(p) \/ Fail(p) \/ Die(p)

Spec == Init /\ [][Next]_vars

\* Processes go on, leases run out, and the scheduler starts a job again and
\* again: one of these starts comes while the lease is free.
FairSpec ==
  /\ Spec
  /\ WF_vars(Expire)
  /\ \A p \in Procs : WF_vars(Run(p))
  /\ \A p \in Jobs : SF_vars(Begin(p))

-----------------------------------------------------------------------------
Checkpoint == [history : Nat, complete : BOOLEAN, page : Nat \cup {None},
               next : Nat \cup {None}]

\* A run with a page of messages, one of them fetched or none.
Paging ==
  {s \in [pc : {"fetch", "store"}, base : Checkpoint \cup {None}, backfill : BOOLEAN,
          ids : SUBSET Mail, next : Nat \cup {None}, newest : Nat,
          message : Mail \cup {None}, row : {None, "absent", "partial", "done"},
          shown : Nat] : s.pc = "store" => s.message \in Mail}

\* Where a process is: in a run that has its checkpoint, or that has a page of messages,
\* with the checkpoint as long as it has not expired.
Session ==
  {Idle} \cup [pc : {"release"}] \cup [pc : {"list"}, base : Checkpoint] \cup Paging

\* Every variable has its type.
TypeOK ==
  /\ kind \in Kinds /\ steady \in BOOLEAN /\ trouble \in 0..MaxTrouble /\ clock \in Nat
  /\ mail \in [Mail -> [added : Nat, shown : Nat]]
  /\ lease \in [holder : Jobs \cup {None}, live : BOOLEAN, open : BOOLEAN]
  /\ checkpoint \in Checkpoint
  /\ done \subseteq Mail /\ partial \subseteq Mail /\ late \subseteq Jobs
  /\ proc \in [Procs -> Session]

\* Working runs of a job.
Working(p) == proc[p] # Idle

\* Two scheduled runs of one job work at a time only if one of them outlived its
\* lease or lost it to a rollback: the release of a late run, a death or an
\* exception never frees the lease of another (acquire_job_lease, release_job_lease).
OneRun ==
  \A p, q \in Jobs : Working(p) /\ Working(q) /\ p # q => p \in late \/ q \in late

\* Where the next incremental run starts to read.
Position == IF checkpoint.next # None THEN checkpoint.next ELSE checkpoint.history
\* The messages that a later run will still be shown.
Ahead(m) ==
  IF Incremental(checkpoint) THEN mail[m].added > Position
  ELSE mail[m].added > checkpoint.history \/ m \in Below(checkpoint.page)

\* The messages not processed yet lie ahead of the checkpoint.
KeptAhead == kind = "promotions" => \A m \in Arrived \ done : Ahead(m)

\* No promotion is lost: whatever runs fail or die, a message that is not processed
\* lies ahead of the checkpoint (GmailPromotionIngestionService.sync), unless runs
\* overlapped or a message was relabelled.
NothingIsSkipped == steady => KeptAhead

\* docs/LAUNCH_READINESS_REMEDIATION_PLAN.md:35 promises that no Gmail message is
\* lost: the same without the condition, one run at a time.
NoMailLost == KeptAhead

\* Every message that arrives is read in the end, although runs fail, die and
\* overlap and the receipts read one page of their list at a time; promotions as
\* long as runs do not overlap and no message is relabelled.
MailIsRead ==
  \A m \in Mail : mail[m].added > 0 ~> m \in done \/ (kind = "promotions" /\ ~steady)
=============================================================================
