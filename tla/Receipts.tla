----------------------------- MODULE Receipts -----------------------------
(***************************************************************************)
(* Receipts and what is learned from them:                                 *)
(* app/services/receipt_ingestion_service.py, the purchase history of      *)
(* app/services/acquisition_service.py, and the parts of                   *)
(* autonomous_classification_service.py and                                *)
(* classification_finalizer_service.py that record purchases.              *)
(*                                                                         *)
(* One artifact arrives in several deliveries; its receipt has one line.   *)
(* Other artifacts meet it only in the history of an item, which may hold  *)
(* a purchase of another day.  A session reads a receipt once and writes   *)
(* the columns it has changed; the sessions of app/db.py do not flush      *)
(* before a query.  The history of an item is read and written under a     *)
(* lock on the item.                                                       *)
(***************************************************************************)
EXTENDS Integers, FiniteSets, FiniteSetsExt, Sequences, SequencesExt

CONSTANTS
  Deliveries,   \* (source, source_external_id) pairs under which the artifact arrives
  Workers,      \* processes that ingest deliveries
  Users,        \* requests that act on receipts and purchases
  Items,        \* household items
  Day,          \* of the purchase that the receipt is for
  History,      \* days of another purchase, 0 for none
  MaxRequests,  \* bound: requests of users
  MaxTrouble,   \* bound: parsers and classifications that fail, workers that die
  None

ASSUME ReceiptConstants ==
  /\ Workers \cap Users = {} /\ None \notin Items
  /\ Day \in Nat \ {0} /\ History \subseteq Nat /\ MaxRequests \in Nat /\ MaxTrouble \in Nat

VARIABLES
  bought,     \* HouseholdItemAcquisition: the day of another purchase of an item
  receipt,    \* the PurchaseReceipt of a delivery and its PurchaseReceiptItem
  stored,     \* the receipts in the order of their ids
  purchases,  \* the HouseholdItemAcquisition rows of a line, oldest first
  last,       \* HouseholdItem.last_acquired_at, 0 for none
  proc,       \* what each process is doing
  spoilt,     \* history: receipts written from a stale copy, or whose line was finalised
              \* although its purchase is of another item
  requests,   \* how much of MaxRequests has happened
  trouble     \* how much of MaxTrouble has happened

vars == <<bought, receipt, stored, purchases, last, proc, spoilt,
          requests, trouble>>

Procs == Workers \cup Users
Idle == [pc |-> "idle"]
Decisions == Items \cup {None}
Absent == [status |-> "absent", match |-> "none", item |-> None, state |-> "none",
           learns |-> None, retry |-> FALSE]

Init ==
  /\ bought \in [Items -> History]
  /\ receipt = [d \in Deliveries |-> Absent]
  /\ stored = <<>>
  /\ purchases = [d \in Deliveries |-> <<>>]
  /\ last = bought
  /\ proc = [p \in Procs |-> Idle]
  /\ spoilt = {}
  /\ requests = 0 /\ trouble = 0

-----------------------------------------------------------------------------
(* AcquisitionService.  b holds what a transaction on a line sees: the      *)
(* line, its purchases and the last days of the items.  An operation   *)
(* gives the set of its outcomes, empty when it raises.                    *)

Actives(rows) == {k \in DOMAIN rows : rows[k].active}

\* _sync_item_last_acquired, with the rows of a line: the latest purchase that is not void.
Latest(i, rows) ==
  Max({0, bought[i]} \cup {Day : k \in {k \in Actives(rows) : rows[k].item = i}})

Reconfirmed(rows, known, user) ==
  [k \in DOMAIN rows |-> [rows[k] EXCEPT !.user = @ \/ (k \in known /\ user)]]

\* record: a purchase of the line that is not void is confirmed, never doubled.
Record(b, i, user) ==
  LET known == Actives(b.rows)
  IN IF \E k \in known : b.rows[k].item # i THEN {}
     ELSE {[b EXCEPT
             !.rows = IF known = {} THEN Append(@, [item |-> i, active |-> TRUE, user |-> user])
                      ELSE Reconfirmed(@, known, user),
             !.last[i] = IF @ <= Day THEN Day ELSE @]}

Voided(rows, k) == [rows EXCEPT ![k].active = FALSE]

\* undo: voided_at is not flushed when the last day is looked up.
Undo(b, k) ==
  IF k \notin Actives(b.rows) THEN {}
  ELSE LET i == b.rows[k].item
       IN {[b EXCEPT !.rows = Voided(@, k), !.last[i] = Latest(i, b.rows)]}

\* correct: the purchase of another item replaces this one; here the void is flushed.
Correct(b, k, i) ==
  IF k \notin Actives(b.rows) THEN {}
  ELSE LET rows == Append(Voided(b.rows, k), [item |-> i, active |-> TRUE, user |-> TRUE])
       IN {[b EXCEPT !.rows = rows,
                     !.last = [j \in Items |-> IF j \in {i, b.rows[k].item}
                                               THEN Latest(j, rows) ELSE @[j]]]}

-----------------------------------------------------------------------------
(* AutonomousClassificationService, on one line.  A final decision names    *)
(* the item it learns, or None: a line whose figures or confidence do not   *)
(* allow a purchase.                                                        *)

\* _receipt_learning_is_complete.
Complete(b) ==
  LET i == b.line.learns
  IN i # None => /\ b.line.match = "matched" /\ b.line.item = i
                 /\ \E k \in Actives(b.rows) : b.rows[k].item = i

\* _apply_receipt_learning: the item is recorded as bought and the line matched to it.
Learn(b) ==
  LET i == b.line.learns
  IN IF i = None THEN {b}
     ELSE {[c EXCEPT !.line.match = "matched", !.line.item = i] : c \in Record(b, i, FALSE)}

Final(b, i) == [b EXCEPT !.line.state = "final", !.line.learns = i]

\* classify_receipt: a final decision is only completed, any other is taken again.
Classify(b) ==
  IF b.line.match = "none" \/ (b.line.state = "final" /\ Complete(b)) THEN {b}
  ELSE IF b.line.state = "final" THEN Learn(b)
  ELSE {[b EXCEPT !.line.state = "provisional"]} \cup
       UNION {Learn(Final(b, i)) : i \in Decisions}

\* _classify_receipt_nonblocking after its savepoint was rolled back.
Deferred(b) == IF b.line.state = "provisional" THEN b ELSE [b EXCEPT !.line.retry = TRUE]

-----------------------------------------------------------------------------
(* Ingestion.                                                              *)

Put(d, b) ==
  /\ receipt' = [receipt EXCEPT ![d] = b.line]
  /\ purchases' = [purchases EXCEPT ![d] = b.rows]
  /\ last' = b.last

Failures == {"transient", "permanent"}
Parsed == {d \in Deliveries : receipt[d].match # "none"}

\* _existing: the receipt of the delivery, else a receipt of the artifact that did
\* not fail, else the first that failed, unless a new attempt may mend it.
Existing(d) ==
  \/ receipt[d].status # "absent"
  \/ \E e \in ToSet(stored) : receipt[e].status \notin Failures
  \/ stored # <<>> /\ receipt[Head(stored)].status = "permanent"

\* ingest_attachment or ingest_text begins; without a receipt it asks the parser.
Ingest(w, d) ==
  /\ proc[w] = Idle /\ ~Existing(d)
  /\ proc' = [proc EXCEPT ![w] = [pc |-> "parse", d |-> d]]
  /\ UNCHANGED <<bought, receipt, stored, purchases, last, spoilt, requests, trouble>>

\* The parser fails and _failed_receipt stores that, unless the delivery has a row.
ParseFails(w) ==
  /\ proc[w].pc = "parse" /\ trouble < MaxTrouble
  /\ trouble' = trouble + 1
  /\ LET d == proc[w].d
     IN IF receipt[d].status # "absent" THEN UNCHANGED <<receipt, stored>>
        ELSE /\ \E f \in Failures : receipt' = [receipt EXCEPT ![d].status = f]
             /\ stored' = Append(stored, d)
  /\ proc' = [proc EXCEPT ![w] = Idle]
  /\ UNCHANGED <<bought, purchases, last, spoilt, requests>>

\* Mutant: the artifact is not looked up again under its lock.
ClaimAtOnce(w) ==
  /\ proc[w].pc = "parse"
  /\ \A v \in Workers : proc[v].pc # "persist"
  /\ proc' = [proc EXCEPT ![w].pc = "persist"]
  /\ UNCHANGED <<bought, receipt, stored, purchases, last, spoilt, requests, trouble>>

\* The parser answers, and _persist_serialized takes the lock that one worker at a time
\* has on the artifact and looks for a receipt again.
Claim(w) ==
  /\ proc[w].pc = "parse"
  /\ \A v \in Workers : proc[v].pc # "persist"
  /\ proc' = [proc EXCEPT ![w] = IF Existing(@.d) THEN Idle ELSE [@ EXCEPT !.pc = "persist"]]
  /\ UNCHANGED <<bought, receipt, stored, purchases, last, spoilt, requests, trouble>>

\* What the aliases make of the line.
FirstMatches ==
  [match : {"matched", "possible"}, item : Items] \cup
  [match : {"unmatched", "irrelevant"}, item : {None}]

\* _persist: the receipt is inserted and classified.  A line matched with enough
\* confidence may be confirmed at once.
Persist(w) ==
  /\ proc[w].pc = "persist"
  /\ LET d == proc[w].d
     IN IF receipt[d].status # "absent"
        THEN /\ proc' = [proc EXCEPT ![w] = Idle]
             /\ UNCHANGED <<receipt, stored, purchases, last, trouble>>
        ELSE \E m \in FirstMatches :
             LET b == [line |-> [Absent EXCEPT !.status = "needs_review", !.match = m.match,
                                               !.item = m.item],
                       rows |-> <<>>, last |-> last]
             IN /\ \/ \E c \in Classify(b) : Put(d, c) /\ UNCHANGED trouble
                   \/ /\ trouble < MaxTrouble /\ trouble' = trouble + 1
                      /\ Put(d, Deferred(b))
                /\ stored' = Append(stored, d)
                /\ \E auto \in {FALSE, receipt'[d].match = "matched"} :
                     proc' = [proc EXCEPT ![w] = IF auto THEN [pc |-> "confirm", d |-> d]
                                                 ELSE Idle]
  /\ UNCHANGED <<bought, spoilt, requests>>

\* A worker dies, or its next statement fails and it rolls back.
Die(p) ==
  /\ p \in Workers /\ proc[p] # Idle /\ trouble < MaxTrouble
  /\ trouble' = trouble + 1
  /\ proc' = [proc EXCEPT ![p] = Idle]
  /\ UNCHANGED <<bought, receipt, stored, purchases, last, spoilt, requests>>

-----------------------------------------------------------------------------
(* Requests: load, and commit what follows from what was loaded.           *)

Decided == {"matched", "rejected", "irrelevant"}

\* The purchase a request has loaded: ignore looks for one that is not void and not
\* confirmed by the user; PurchaseReceiptItem.acquisition is any one of the rows.
Loaded(kind, rows) ==
  CASE kind = "ignore" ->
         LET own == {k \in Actives(rows) : ~rows[k].user} IN IF own = {} THEN {0} ELSE own
    [] kind \in {"match", "unmatch", "reject", "decide"} ->
         IF rows = <<>> THEN {0} ELSE DOMAIN rows
    [] kind = "undo" -> Actives(rows)
    [] OTHER -> {0}

\* What the service demands of the receipt it has loaded.
Allowed(kind, r) ==
  CASE kind \in {"confirm", "auto"} ->
         r.status \notin {"absent", "ignored"} /\ r.match \in Decided \cup {"none"}
    [] kind = "ignore" -> r.status # "absent"
    [] kind = "restore" -> r.status = "ignored"
    [] kind = "decide" -> r.status = "needs_review" /\ r.match # "none"
    [] OTHER -> r.match # "none"

Load(p, kind, d, i) ==
  /\ Allowed(kind, receipt[d])
  /\ \E k \in Loaded(kind, purchases[d]) :
       proc' = [proc EXCEPT ![p] = [pc |-> "loaded", kind |-> kind, d |-> d, item |-> i,
                                    line |-> receipt[d], rows |-> purchases[d], row |-> k]]
  /\ UNCHANGED <<bought, receipt, stored, purchases, last, spoilt, trouble>>

\* The items a request can name; None rejects in a decision.
Named(kind) ==
  CASE kind = "match" -> Items [] kind = "decide" -> Decisions [] OTHER -> {None}

Request(u) ==
  /\ proc[u] = Idle /\ requests < MaxRequests
  /\ requests' = requests + 1
  /\ \E kind \in {"confirm", "ignore", "restore", "match", "unmatch", "reject", "decide", "undo"},
        d \in Deliveries : \E i \in Named(kind) : Load(u, kind, d, i)

\* confirm(user_confirmed=False) of the ingestion.
LoadAuto(w) ==
  /\ proc[w].pc = "confirm"
  /\ IF Allowed("auto", receipt[proc[w].d]) THEN Load(w, "auto", proc[w].d, None)
     ELSE /\ proc' = [proc EXCEPT ![w] = Idle]
          /\ UNCHANGED <<bought, receipt, stored, purchases, last, spoilt, trouble>>
  /\ UNCHANGED requests

\* confirm: a matched line is recorded as bought, by an automatic confirmation only if
\* its figures are verified, as they are when it was learned from.
Confirm(b, user) ==
  LET c == [b EXCEPT !.line.status = "confirmed"]
  IN (IF b.line.match = "matched" /\ b.line.item # None
      THEN Record(c, b.line.item, user) ELSE {c}) \cup
     (IF user \/ b.line.learns # None THEN {} ELSE {c})

\* Mutant: the purchase stays.
UnmatchedOnly(b, q, match) == {[b EXCEPT !.line.match = match, !.line.item = None]}

\* update_line_match without an item: the purchase loaded is undone if it was active.
Unmatched(b, q, match) ==
  LET c == [b EXCEPT !.line.match = match, !.line.item = None]
  IN IF q.row \in Actives(q.rows) THEN Undo(c, q.row) ELSE {c}

\* update_line_match with an item: the purchase loaded is corrected if it was active,
\* and one is recorded on a receipt that was confirmed.
Matched(b, q) ==
  LET c == [b EXCEPT !.line.match = "matched", !.line.item = q.item]
  IN IF q.row \in Actives(q.rows)
     THEN IF q.rows[q.row].item = q.item THEN {c} ELSE Correct(c, q.row, q.item)
     ELSE IF q.line.status = "confirmed" THEN Record(c, q.item, TRUE) ELSE {c}

\* revert_ignored_receipt_learning.
Ignore(b, q) ==
  LET c == [b EXCEPT !.line.status = "ignored"]
  IN IF q.row = 0 THEN {c}
     ELSE Undo([c EXCEPT !.line.match = "rejected", !.line.item = None], q.row)

\* restore classifies the line as it is now, under a lock; what fails is deferred.
Restore(b, d) ==
  LET c == [b EXCEPT !.line = [receipt[d] EXCEPT !.status = "needs_review"]]
  IN IF Classify(c) = {} THEN {Deferred(c)} ELSE Classify(c)

\* apply_decisions with confirm.
Decide(b, q) ==
  UNION {Confirm(c, TRUE) :
           c \in IF q.item = None THEN Unmatched(b, q, "rejected") ELSE Matched(b, q)}

\* What a request makes of the line it loaded and of the purchases as they are.
Outcomes(q) ==
  LET b == [line |-> q.line, rows |-> purchases[q.d], last |-> last]
  IN CASE q.kind = "confirm" -> Confirm(b, TRUE)
       [] q.kind = "auto" -> Confirm(b, FALSE)
       [] q.kind = "ignore" -> Ignore(b, q)
       [] q.kind = "restore" -> Restore(b, q.d)
       [] q.kind = "match" -> Matched(b, q)
       [] q.kind = "unmatch" -> Unmatched(b, q, "unmatched")
       [] q.kind = "reject" -> Unmatched(b, q, "rejected")
       [] q.kind = "decide" -> Decide(b, q)
       [] q.kind = "undo" -> Undo(b, q.row)

\* The UPDATE of a session: the columns that differ from those loaded.
Written(q, new) ==
  [f \in DOMAIN new |-> IF new[f] = q.line[f] THEN receipt[q.d][f] ELSE new[f]]

Stale(q) == q.line # receipt[q.d] \/ q.rows # purchases[q.d]

Commit(p) ==
  /\ proc[p].pc = "loaded"
  /\ LET q == proc[p]
     IN IF Outcomes(q) = {} THEN UNCHANGED <<receipt, purchases, last, spoilt>>
        ELSE /\ \E c \in Outcomes(q) : Put(q.d, [c EXCEPT !.line = Written(q, @)])
             /\ spoilt' = IF Stale(q) THEN spoilt \cup {q.d} ELSE spoilt
  /\ proc' = [proc EXCEPT ![p] = Idle]
  /\ UNCHANGED <<bought, stored, requests, trouble>>

-----------------------------------------------------------------------------
(* ClassificationFinalizerService, one line under its lock.                *)

\* Mutant: a receipt ignored since it was found due is finalised.
LiveAny(d) == receipt[d].match # "none"

\* _lock_current_target.
Live(d) == receipt[d].match # "none" /\ receipt[d].status \notin {"ignored"} \cup Failures
Now(d) == [line |-> receipt[d], rows |-> purchases[d], last |-> last]

\* A deferred line is classified again.
Repair(d) ==
  /\ Live(d) /\ receipt[d].retry
  /\ \E c \in Classify(Now(d)) : Put(d, [c EXCEPT !.line.retry = FALSE])
  /\ UNCHANGED <<bought, stored, proc, spoilt, requests, trouble>>

\* finalize_decision, when the grace period of a provisional decision is over: the line
\* follows the decision even though its purchase cannot.
Finalize(d) ==
  /\ Live(d) /\ ~receipt[d].retry /\ receipt[d].state = "provisional"
  /\ \E i \in Decisions :
       LET f == Final(Now(d), i)
       IN IF Learn(f) # {} THEN (\E c \in Learn(f) : Put(d, c)) /\ UNCHANGED spoilt
          ELSE Put(d, [f EXCEPT !.line.item = i]) /\ spoilt' = spoilt \cup {d}
  /\ UNCHANGED <<bought, stored, proc, requests, trouble>>

-----------------------------------------------------------------------------
Ingestion(w) ==
  \/ \E d \in Deliveries : Ingest(w, d)
  \/ ParseFails(w) \/ Claim(w) \/ Persist(w) \/ LoadAuto(w)

Next ==
  \/ \E w \in Workers : Ingestion(w)
  \/ \E u \in Users : Request(u)
  \/ \E p \in Procs : Commit(p) \/ Die(p)
  \/ \E d \in Deliveries : Repair(d) \/ Finalize(d)

Spec == Init /\ [][Next]_vars

-----------------------------------------------------------------------------
Lines == [status : {"absent", "needs_review", "confirmed", "ignored"} \cup Failures,
          match : {"none", "possible", "unmatched"} \cup Decided,
          item : Decisions, state : {"none", "provisional", "final"},
          learns : Decisions, retry : BOOLEAN]
Rows == Seq([item : Items, active : BOOLEAN, user : BOOLEAN])

\* Types: a delivery is stored once, a line exists only on a receipt that was read,
\* and a line has at most one purchase that is not void.
TypeOK ==
  /\ receipt \in [Deliveries -> Lines]
  /\ purchases \in [Deliveries -> Rows]
  /\ \A d \in Deliveries : Cardinality(Actives(purchases[d])) <= 1
  /\ last \in [Items -> {0, Day} \cup History]
  /\ IsInjective(stored)
  /\ ToSet(stored) = {d \in Deliveries : receipt[d].status # "absent"}
  /\ spoilt \subseteq ToSet(stored)
  /\ \A p \in Procs : proc[p].pc \in {"idle", "parse", "persist", "confirm", "loaded"}

\* However many deliveries carry an artifact and however their workers overlap or die,
\* at most one of them becomes a receipt with lines: _persist_serialized looks for an
\* existing receipt again under the lock of the fingerprint, since the parser was asked
\* without it.
OneParsed == Cardinality(Parsed) <= 1

\* "Receipt ignored. Nothing was learned from it.": an ignored receipt has no purchase
\* that the user did not confirm, whatever was recorded by the classification, by an
\* automatic confirmation or by the finalizer before, unless another process wrote the
\* receipt between the reads and the commit of a request.
IgnoredIsUnlearned ==
  \A d \in Deliveries \ spoilt :
    receipt[d].status = "ignored" =>
      \A k \in Actives(purchases[d]) : purchases[d][k].user

\* A purchase that is not void is one of the item its line is matched to, and no item
\* was last acquired before a purchase of it.  The match holds for a line with a single purchase:
\* later ones are missed by PurchaseReceiptItem.acquisition.
PurchasesAreBacked ==
  /\ \A i \in Items : last[i] >= bought[i]
  /\ \A d \in Deliveries : \A k \in Actives(purchases[d]) :
       LET i == purchases[d][k].item
       IN /\ last[i] >= Day
          /\ d \notin spoilt /\ Len(purchases[d]) = 1 =>
               receipt[d].match = "matched" /\ receipt[d].item = i

\* docs/REPLENISHMENT_LEARNING.md: last_acquired_at is the newest confirmed, non-void
\* acquisition, and undo recomputes it.
LastIsLatest ==
  \A i \in Items : last[i] = Max({0} \cup {Latest(i, purchases[d]) : d \in Deliveries})
=============================================================================
