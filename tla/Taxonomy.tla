------------------------------ MODULE Taxonomy ------------------------------
(***************************************************************************)
(* The classification taxonomy of a workspace:                             *)
(* app/services/classification_taxonomy_service.py, with the transactions  *)
(* it classifies (app/services/autonomous_classification_service.py).      *)
(*                                                                         *)
(* Decisions and owner corrections file a transaction under a concept and  *)
(* a subcategory; owners rename and merge both.  Every request is one      *)
(* database transaction (READ COMMITTED).  Rows it must not lose are       *)
(* locked, and the settings row serialises the second half of each; but    *)
(* an ORM session shows a row as it was when first read, and a SELECT FOR  *)
(* UPDATE of a row already held does not read it again.                    *)
(*                                                                         *)
(* All transactions are of one merchant and all concepts of one parent,    *)
(* activity and eligibility: the subcategory is the dimension that may     *)
(* differ.  Every decision is of high confidence.                          *)
(***************************************************************************)
EXTENDS Integers, FiniteSets

CONSTANTS
  Names,        \* canonical concept names
  Subs,         \* names of subcategories
  Txs,          \* transactions of the merchant
  Procs,        \* requests and jobs at work at one time
  MaxRequests,  \* bound: requests begun
  None

ASSUME RequestBound == MaxRequests \in Nat
\* Names are strings of bounded length.
ASSUME RowsAreFinite == IsFiniteSet(Names) /\ IsFiniteSet(Subs)

\* A concept's row: the one a name creates, or the one a correction creates for a
\* name in a subcategory of its own ("name--hash of the dimensions").
Concepts == Names \cup (Names \X Subs)

ASSUME NoneIsApart == None \notin Procs \cup Concepts

VARIABLES
  concept,   \* classification_concepts
  sub,       \* classification_subcategories
  alias,     \* the concept the merchant's active alias points to
  tx,        \* the classification columns of each transaction
  ledger,    \* the latest classification_decisions row of each transaction
  lock,      \* who holds the row lock of each transaction
  session,   \* the request each process works on, and the rows its session holds
  outdated,  \* history: a request was committed that held a copy of a row changed since
  requests   \* how many requests have begun

vars == <<concept, sub, alias, tx, ledger, lock, session, outdated, requests>>

Absent == [made |-> FALSE, sub |-> None, into |-> None]
ConceptRow == [made : BOOLEAN, sub : Subs \cup {None}, into : Concepts \cup {None}]
SubRow == [made : BOOLEAN, into : Subs \cup {None}]
TxRow == [concept : Concepts \cup {None}, sub : Subs \cup {None},
          said : ((Names \cup {None}) \X Subs) \cup {None},
          by : {"none", "auto", "user"}, version : Nat]
Entry == [concept : Concepts \cup {None}, sub : Subs \cup {None}, version : Nat]
Idle == [at |-> "idle"]

\* What a process is at: a decision past its row lock, or a merge past its first reads.
Session ==
  {Idle}
  \cup [at : {"locked"}, by : {"auto", "user"}, tx : Txs, name : Names \cup {None},
        sub : Subs, known : Concepts \cup {None}, row : ConceptRow]
  \cup [at : {"previewed", "held"}, kind : {"concepts"}, source : Concepts,
        target : Concepts, from : ConceptRow, onto : ConceptRow]
  \cup [at : {"previewed", "held"}, kind : {"subcategories"}, source : Subs,
        target : Subs, from : SubRow, onto : SubRow]

Unfiled == [concept |-> None, sub |-> None, said |-> None, by |-> "none", version |-> 1]
Found(c) == [concept |-> c, sub |-> concept[c].sub, said |-> <<c, concept[c].sub>>,
             by |-> "auto", version |-> 1]

\* A workspace that has some taxonomy, and transactions classified without a user.
Init ==
  /\ sub \in [Subs -> [made : BOOLEAN, into : {None}]]
  /\ concept \in [Concepts -> {Absent} \cup [made : {TRUE}, sub : Subs, into : {None}]]
  /\ \A c \in Concepts : concept[c].made => c \in Names /\ sub[concept[c].sub].made
  /\ tx \in [Txs -> {Unfiled} \cup {Found(c) : c \in {d \in Names : concept[d].made}}]
  /\ alias \in {c \in Names : concept[c].made} \cup {None}
  /\ ledger = [t \in Txs |-> IF tx[t] = Unfiled THEN None
                             ELSE [concept |-> tx[t].concept, sub |-> tx[t].sub, version |-> 1]]
  /\ lock = [t \in Txs |-> None]
  /\ session = [p \in Procs |-> Idle]
  /\ outdated = FALSE
  /\ requests = 0

-----------------------------------------------------------------------------
(* What a session sees, and the rows the helpers find *)

\* The concepts as decision q's session shows them: the one that its alias led to, as it
\* was then.
Seen(q) == IF q.known = None THEN concept ELSE [concept EXCEPT ![q.known] = q.row]

\* One merge on from row r, and the rows met on the way.
Ahead(rows, r) == IF rows[r].into = None THEN r ELSE rows[r].into
Chain(rows, r) ==
  LET path[k \in 0..Cardinality(DOMAIN rows)] ==
        IF k = 0 THEN r ELSE Ahead(rows, path[k - 1])
  IN path

\* The chain of merges from row r ends at row e; a chain that does not end is an error.
Resolved(rows, r, e) ==
  rows[e].into = None /\ Chain(rows, r)[Cardinality(DOMAIN rows)] = e

Filed(c) == {t \in Txs : tx[t].concept = c}
FiledUnder(s) == {t \in Txs : tx[t].sub = s}

Begin(p) == session[p] = Idle /\ requests < MaxRequests /\ requests' = requests + 1
Take(p, ts) == lock' = [t \in Txs |-> IF t \in ts THEN p ELSE lock[t]]
Free(p, ts) == \A t \in ts : lock[t] \in {None, p}
Release(p) == lock' = [t \in Txs |-> IF lock[t] = p THEN None ELSE lock[t]]
Leave(p) == session' = [session EXCEPT ![p] = Idle] /\ Release(p)

\* The version a transaction has after another entry of its ledger.
NextVersion(t) == IF tx[t].by = "none" THEN tx[t].version ELSE tx[t].version + 1

\* Mutant: the entry is built before the columns are set.
RecordBefore(ts) ==
  ledger' = [t \in Txs |-> IF t \in ts
                           THEN [concept |-> tx[t].concept, sub |-> tx'[t].sub,
                                 version |-> tx'[t].version]
                           ELSE ledger[t]]

\* One more entry for each of the transactions.
Record(ts) ==
  ledger' = [t \in Txs |-> IF t \in ts
                           THEN [concept |-> tx'[t].concept, sub |-> tx'[t].sub,
                                 version |-> tx'[t].version]
                           ELSE ledger[t]]

\* "classification projection and ledger are inconsistent" is not raised.
Consistent(ts) ==
  \A t \in ts : ledger[t] # None /\ ledger[t].version = tx[t].version

-----------------------------------------------------------------------------
(* Decisions and corrections *)

\* "already_applied": the columns show this decision, and the alias agrees.
AlreadyApplied(by, t, name, s) ==
  /\ tx[t].by = by /\ tx[t].said = <<name, s>>
  /\ by = "user" => IF tx[t].concept = None THEN alias = None
                    ELSE alias # None /\ Resolved(concept, alias, tx[t].concept)

\* Mutant: any later decision replaces what is there.
NeverOutranked(by, t) == FALSE

\* _PROVENANCE_RANK: nothing ranks above a user.
Outranked(by, t) == by = "auto" /\ tx[t].by = "user"

\* classify_transaction and finalize_decision (by = "auto"), correct_transaction (by =
\* "user"), up to the row lock and the early returns of apply_decision.  A correction
\* resolves the merchant's alias and keeps the concept it found.
Lock(p, by, t, name, s) ==
  /\ Begin(p)
  /\ lock[t] = None
  /\ ~Outranked(by, t)
  /\ ~AlreadyApplied(by, t, name, s)
  /\ \E known \in Concepts \cup {None} :
       /\ IF by = "auto" \/ alias = None THEN known = None
          ELSE known # None /\ Resolved(concept, alias, known)
       /\ session' = [session EXCEPT ![p] =
            [at |-> "locked", by |-> by, tx |-> t, name |-> name, sub |-> s,
             known |-> known, row |-> IF known = None THEN Absent ELSE concept[known]]]
  /\ Take(p, {t})
  /\ UNCHANGED <<concept, sub, alias, tx, ledger, outdated>>

\* _concept_has_other_current_support
OtherSupport(c, t) == Filed(c) \ {t} # {}

\* A concept found must be of subcategory g; one that is not there is created in it.
Adopt(view, c, g) ==
  IF view[c].made
  THEN view[c].sub = g /\ UNCHANGED concept
  ELSE concept' = [concept EXCEPT ![c] = [made |-> TRUE, sub |-> g, into |-> None]]

\* ensure_concept: decision q, of subcategory g, is filed under c.  A correction that
\* disagrees with a concept repairs it, or has one of its own when others are filed
\* there.  No c will do where the code raises a collision.
EnsureConcept(q, g, c) ==
  LET view == Seen(q)
      Differs(r) == q.by = "user" /\ view[r].made /\ view[r].sub # g
  IN IF q.name = None THEN c = None /\ UNCHANGED concept
     ELSE \E r \in Concepts :
            /\ Resolved(view, q.name, r)
            /\ \/ ~Differs(r) /\ c = r /\ Adopt(view, r, g)
               \/ /\ Differs(r) /\ ~OtherSupport(r, q.tx)
                  /\ c = r /\ concept' = [concept EXCEPT ![r].sub = g]
               \/ /\ Differs(r) /\ OtherSupport(r, q.tx) /\ c # None
                  /\ Resolved(view, <<q.name, g>>, c) /\ Adopt(view, c, g)

\* void_alias and learn_alias; a decision without a user touches no alias of a merchant.
AliasAfter(q, c) ==
  IF q.by = "auto" THEN alias
  ELSE IF c # None THEN c
  ELSE IF alias # None /\ q.known # None /\ Resolved(Seen(q), alias, q.known) THEN None
       ELSE alias

\* The rest of apply_decision, once the request holds the settings row.
Settle(p) ==
  LET q == session[p] IN
  /\ q.at = "locked"
  /\ \E g \in Subs, c \in Concepts \cup {None} :
       /\ Resolved(sub, q.sub, g)
       /\ EnsureConcept(q, g, c)
       /\ sub' = [sub EXCEPT ![g].made = TRUE]
       /\ alias' = AliasAfter(q, c)
       /\ tx' = [tx EXCEPT ![q.tx] =
            [concept |-> c, sub |-> g, said |-> <<q.name, q.sub>>, by |-> q.by,
             version |-> NextVersion(q.tx)]]
  /\ Record({q.tx})
  /\ outdated' = (outdated \/ Seen(q) # concept)
  /\ Leave(p)
  /\ UNCHANGED requests

-----------------------------------------------------------------------------
(* The owner's changes to the taxonomy *)

\* merge_concepts and merge_subcategories read both rows and keep them.
Preview(p, kind, source, target) ==
  /\ Begin(p)
  /\ source # target
  /\ LET rows == IF kind = "concepts" THEN concept ELSE sub
     IN /\ rows[source].made /\ rows[target].made
        /\ session' = [session EXCEPT ![p] =
             [at |-> "previewed", kind |-> kind, source |-> source, target |-> target,
              from |-> rows[source], onto |-> rows[target]]]
  /\ UNCHANGED <<concept, sub, alias, tx, ledger, lock, outdated>>

Projections(q) == IF q.kind = "concepts" THEN Filed(q.source) ELSE FiledUnder(q.source)

\* The transactions filed under the source are locked before the settings row is.
Hold(p) ==
  LET q == session[p] IN
  /\ q.at = "previewed"
  /\ Free(p, Projections(q))
  /\ Take(p, Projections(q))
  /\ session' = [session EXCEPT ![p].at = "held"]
  /\ UNCHANGED <<concept, sub, alias, tx, ledger, outdated, requests>>

\* Mutant: only the source is checked.
SourceUnmerged(q) == q.from.into = None

\* What both merges check, on the rows as the session holds them.
Unmerged(q) == q.from.into = None /\ q.onto.into = None

Stale(q, rows) == q.from # rows[q.source] \/ q.onto # rows[q.target]

\* _append_concept_projection_corrections, _append_subcategory_projection_corrections
Refile(ts, c, s) ==
  /\ Consistent(ts)
  /\ tx' = [t \in Txs |->
       IF t \in ts THEN [concept |-> IF c = None THEN tx[t].concept ELSE c, sub |-> s,
                         said |-> None, by |-> "user", version |-> tx[t].version + 1]
       ELSE tx[t]]
  /\ Record(ts)

MergeConcepts(p) ==
  LET q == session[p] IN
  /\ q.at = "held" /\ q.kind = "concepts"
  /\ Free(p, Filed(q.source))
  /\ Unmerged(q)
  /\ q.from.sub = q.onto.sub
  /\ Refile(Filed(q.source), q.target, q.onto.sub)
  /\ alias' = IF alias = q.source THEN q.target ELSE alias
  /\ concept' = [concept EXCEPT ![q.source].into = q.target]
  /\ outdated' = (outdated \/ Stale(q, concept))
  /\ Leave(p)
  /\ UNCHANGED <<sub, requests>>

MergeSubcategories(p) ==
  LET q == session[p] IN
  /\ q.at = "held" /\ q.kind = "subcategories"
  /\ Free(p, FiledUnder(q.source))
  /\ Unmerged(q)
  /\ concept' = [c \in Concepts |->
       IF concept[c].made /\ concept[c].sub = q.source /\ concept[c].into = None
       THEN [concept[c] EXCEPT !.sub = q.target] ELSE concept[c]]
  /\ Refile(FiledUnder(q.source), None, q.target)
  /\ sub' = [sub EXCEPT ![q.source].into = q.target]
  /\ outdated' = (outdated \/ Stale(q, sub))
  /\ Leave(p)
  /\ UNCHANGED <<alias, requests>>

\* rename_subcategory keeps no row from before its locks; only names change, and the
\* ledger of what is filed there gets the new one.
RenameSubcategory(p, s) ==
  /\ Begin(p)
  /\ Free(p, FiledUnder(s))
  /\ sub[s].made /\ sub[s].into = None
  /\ Refile(FiledUnder(s), None, s)
  /\ UNCHANGED <<concept, sub, alias, lock, session, outdated>>

\* A collision, a lock timeout, a deadlock or an exception rolls a request back.
Fail(p) ==
  /\ session[p] # Idle
  /\ Leave(p)
  /\ UNCHANGED <<concept, sub, alias, tx, ledger, outdated, requests>>

Next ==
  \E p \in Procs :
    \/ \E by \in {"auto", "user"}, t \in Txs, name \in Names \cup {None}, s \in Subs :
         Lock(p, by, t, name, s)
    \/ Settle(p)
    \/ \E a, b \in Concepts : Preview(p, "concepts", a, b)
    \/ \E a, b \in Subs : Preview(p, "subcategories", a, b)
    \/ Hold(p)
    \/ MergeConcepts(p)
    \/ MergeSubcategories(p)
    \/ \E s \in Subs : RenameSubcategory(p, s)
    \/ Fail(p)

Spec == Init /\ [][Next]_vars

-----------------------------------------------------------------------------
(* Properties *)

TypeOK ==
  /\ concept \in [Concepts -> ConceptRow]
  /\ sub \in [Subs -> SubRow]
  /\ alias \in Concepts \cup {None}
  /\ tx \in [Txs -> TxRow]
  /\ ledger \in [Txs -> Entry \cup {None}]
  /\ lock \in [Txs -> Procs \cup {None}]
  /\ session \in [Procs -> Session]
  /\ outdated \in BOOLEAN
  /\ requests \in 0..MaxRequests

\* A transaction shows the latest entry of its ledger, whichever of the requests that
\* write both came last (apply_decision, the merges and the renaming).
LedgerAgrees ==
  \A t \in Txs :
    IF tx[t].by = "none" THEN ledger[t] = None
    ELSE ledger[t] = [concept |-> tx[t].concept, sub |-> tx[t].sub, version |-> tx[t].version]

\* What a user said of a transaction is not undone by a decision computed before it, and
\* a change of its classification is a new version (the rank check of apply_decision).
CorrectionsStand ==
  [][\A t \in Txs :
       /\ tx[t].by = "user" => tx'[t].by = "user"
       /\ tx[t].by # "none" /\ tx'[t] # tx[t] => tx'[t].version = tx[t].version + 1]_vars

Live(c) == concept[c].made /\ concept[c].into = None
LiveSub(s) == sub[s].made /\ sub[s].into = None

\* The chains of merges end (_assert_concept_merge_chain_is_safe and its likeness).
MergesEnd ==
  /\ \A c \in Concepts : \E e \in Concepts : Resolved(concept, c, e)
  /\ \A s \in Subs : \E e \in Subs : Resolved(sub, s, e)

\* A row merged away is left by all that pointed to it, and a transaction has the
\* subcategory of its concept - as long as nothing was committed from outdated copies.
MergedIsLeft ==
  ~outdated =>
    /\ MergesEnd
    /\ alias # None => Live(alias)
    /\ \A t \in Txs : tx[t].by # "none" =>
         /\ LiveSub(tx[t].sub)
         /\ tx[t].concept # None => /\ Live(tx[t].concept)
                                    /\ concept[tx[t].concept].sub = tx[t].sub
=============================================================================
