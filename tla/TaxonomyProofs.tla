--------------------------- MODULE TaxonomyProofs ---------------------------
(***************************************************************************)
(* Proofs about Taxonomy, for any names, subcategories, transactions,      *)
(* processes and number of requests: type correctness, the agreement of    *)
(* transactions and ledger, that corrections stand, and that what is       *)
(* merged is left as long as nothing is committed from outdated copies.    *)
(***************************************************************************)
EXTENDS Taxonomy, TLAPS, WellFoundedInduction, FiniteSetTheorems

\* A decision past its row lock still holds it, and is still not outranked.
Owned(p) ==
  session[p].at = "locked" =>
    /\ lock[session[p].tx] = p
    /\ ~Outranked(session[p].by, session[p].tx)

\* The inductive invariant.
IInv ==
  /\ TypeOK
  /\ LedgerAgrees
  /\ \A p \in Procs : Owned(p)

Decision == [at : {"locked"}, by : {"auto", "user"}, tx : Txs, name : Names \cup {None},
             sub : Subs, known : Concepts \cup {None}, row : ConceptRow]
ConceptMerge == [at : {"previewed", "held"}, kind : {"concepts"}, source : Concepts,
                 target : Concepts, from : ConceptRow, onto : ConceptRow]
SubMerge == [at : {"previewed", "held"}, kind : {"subcategories"}, source : Subs,
             target : Subs, from : SubRow, onto : SubRow]

-----------------------------------------------------------------------------
(* Sessions *)

LEMMA SessionKinds == Session = {Idle} \cup Decision \cup ConceptMerge \cup SubMerge
BY DEF Session, Decision, ConceptMerge, SubMerge

\* What kind of session a process is in is told by where it is at.
LEMMA SessionAt ==
  ASSUME NEW q \in Session
  PROVE  /\ q.at \in {"idle", "locked", "previewed", "held"}
         /\ q = Idle <=> q.at = "idle"
         /\ q.at = "locked" => q \in Decision
         /\ q.at \in {"previewed", "held"} => q \in ConceptMerge \cup SubMerge
BY SessionKinds DEF Idle, Decision, ConceptMerge, SubMerge

LEMMA MergeKind ==
  ASSUME NEW q \in Session, q.at \in {"previewed", "held"}
  PROVE  /\ q.kind = "concepts" => q \in ConceptMerge
         /\ q.kind = "subcategories" => q \in SubMerge
BY SessionAt DEF ConceptMerge, SubMerge

\* A merge that has locked its projections is still the merge it was.
LEMMA HeldSession ==
  ASSUME NEW q \in ConceptMerge \cup SubMerge
  PROVE  [q EXCEPT !.at = "held"] \in Session
<1>1. CASE q \in ConceptMerge
  BY <1>1, SessionKinds DEF ConceptMerge
<1>2. CASE q \in SubMerge
  BY <1>2, SessionKinds DEF SubMerge
<1> QED
  BY <1>1, <1>2

-----------------------------------------------------------------------------
(* Initial states *)

LEMMA InitIInv == Init => IInv
<1> SUFFICES ASSUME Init PROVE IInv
  OBVIOUS
<1>1. concept \in [Concepts -> ConceptRow] /\ sub \in [Subs -> SubRow]
  <2>1. [made : BOOLEAN, into : {None}] \subseteq SubRow
    BY DEF SubRow
  <2>2. Absent \in ConceptRow
    BY DEF ConceptRow, Absent
  <2>3. [made : {TRUE}, sub : Subs, into : {None}] \subseteq ConceptRow
    BY DEF ConceptRow
  <2> QED
    BY <2>1, <2>2, <2>3 DEF Init
<1>2. \A c \in Names : concept[c].made => concept[c].sub \in Subs
  <2> SUFFICES ASSUME NEW c \in Names, concept[c].made PROVE concept[c].sub \in Subs
    OBVIOUS
  <2>1. concept[c] \in {Absent} \cup [made : {TRUE}, sub : Subs, into : {None}]
    BY DEF Init, Concepts
  <2>2. ~Absent.made
    BY DEF Absent
  <2> QED
    BY <2>1, <2>2
<1>3. \A t \in Txs : tx[t] \in TxRow /\ tx[t].by = (IF tx[t] = Unfiled THEN "none" ELSE "auto")
                     /\ tx[t].version = 1
  <2> SUFFICES ASSUME NEW t \in Txs
               PROVE  /\ tx[t] \in TxRow /\ tx[t].by = (IF tx[t] = Unfiled THEN "none" ELSE "auto")
                      /\ tx[t].version = 1
    OBVIOUS
  <2>1. tx[t] = Unfiled \/ \E c \in Names : concept[c].made /\ tx[t] = Found(c)
    BY DEF Init
  <2>2. CASE tx[t] = Unfiled
    BY <2>2 DEF Unfiled, TxRow
  <2>3. ASSUME NEW c \in Names, concept[c].made, tx[t] = Found(c)
        PROVE  /\ tx[t] \in TxRow /\ tx[t].by = (IF tx[t] = Unfiled THEN "none" ELSE "auto")
               /\ tx[t].version = 1
    BY <1>2, <2>3 DEF Found, Unfiled, TxRow, Concepts
  <2> QED
    BY <2>1, <2>2, <2>3
<1>4. ledger \in [Txs -> Entry \cup {None}] /\ LedgerAgrees
  BY <1>3 DEF Init, LedgerAgrees, Entry, TxRow
<1>5. TypeOK
  <2>1. tx \in [Txs -> TxRow]
    BY <1>3 DEF Init
  <2>2. session \in [Procs -> Session]
    BY SessionKinds DEF Init
  <2>3. alias \in Concepts \cup {None}
    BY DEF Init, Concepts
  <2>4. lock \in [Txs -> Procs \cup {None}] /\ requests \in 0..MaxRequests
    BY RequestBound DEF Init
  <2>5. outdated \in BOOLEAN
    BY DEF Init
  <2> QED
    BY <1>1, <1>4, <2>1, <2>2, <2>3, <2>4, <2>5 DEF TypeOK
<1>6. \A p \in Procs : Owned(p)
  BY DEF Init, Owned, Idle
<1> QED
  BY <1>4, <1>5, <1>6 DEF IInv

-----------------------------------------------------------------------------
(* What the parts of a step keep *)

LEMMA TakeType ==
  ASSUME TypeOK, NEW p \in Procs, NEW ts, Take(p, ts)
  PROVE  lock' \in [Txs -> Procs \cup {None}]
BY DEF TypeOK, Take

LEMMA LeaveType ==
  ASSUME TypeOK, NEW p \in Procs, Leave(p)
  PROVE  /\ lock' \in [Txs -> Procs \cup {None}]
         /\ session' \in [Procs -> Session]
<1>1. Idle \in Session
  BY SessionKinds
<1> QED
  BY <1>1 DEF TypeOK, Leave, Release

LEMMA BeginType ==
  ASSUME TypeOK, NEW p \in Procs, Begin(p)
  PROVE  requests' \in 0..MaxRequests
BY RequestBound DEF TypeOK, Begin

LEMMA RecordType ==
  ASSUME TypeOK, tx' \in [Txs -> TxRow], NEW ts, Record(ts)
  PROVE  ledger' \in [Txs -> Entry \cup {None}]
<1> SUFFICES ASSUME NEW t \in Txs
             PROVE  [concept |-> tx'[t].concept, sub |-> tx'[t].sub,
                     version |-> tx'[t].version] \in Entry
  BY DEF Record, TypeOK
<1> QED
  BY DEF TxRow, Entry

\* Transactions that get an entry and the rest agree with the ledger.
LEMMA RecordAgrees ==
  ASSUME LedgerAgrees, NEW ts, Record(ts),
         \A t \in Txs : IF t \in ts THEN tx'[t].by # "none" ELSE tx'[t] = tx[t]
  PROVE  LedgerAgrees'
BY DEF LedgerAgrees, Record

LEMMA RefileType ==
  ASSUME TypeOK, NEW ts, NEW c \in Concepts \cup {None}, NEW s \in Subs \cup {None},
         Refile(ts, c, s)
  PROVE  tx' \in [Txs -> TxRow] /\ ledger' \in [Txs -> Entry \cup {None}]
<1>1. tx' \in [Txs -> TxRow]
  <2> SUFFICES ASSUME NEW t \in Txs
               PROVE  [concept |-> IF c = None THEN tx[t].concept ELSE c, sub |-> s,
                       said |-> None, by |-> "user", version |-> tx[t].version + 1] \in TxRow
    BY DEF Refile, TypeOK
  <2>1. tx[t] \in TxRow
    BY DEF TypeOK
  <2> QED
    BY <2>1 DEF TxRow
<1> QED
  BY <1>1, RecordType DEF Refile

LEMMA RefileAgrees ==
  ASSUME LedgerAgrees, NEW ts, NEW c, NEW s, Refile(ts, c, s)
  PROVE  LedgerAgrees'
<1>1. \A t \in Txs : IF t \in ts THEN tx'[t].by # "none" ELSE tx'[t] = tx[t]
  BY DEF Refile
<1> QED
  <2>1. Record(ts)
    BY DEF Refile
  <2> QED
    BY <1>1, <2>1, RecordAgrees

LEMMA AdoptType ==
  ASSUME TypeOK, NEW view, NEW c \in Concepts, NEW g \in Subs, Adopt(view, c, g)
  PROVE  concept' \in [Concepts -> ConceptRow]
<1>1. [made |-> TRUE, sub |-> g, into |-> None] \in ConceptRow
  BY DEF ConceptRow
<1> QED
  BY <1>1 DEF TypeOK, Adopt

LEMMA EnsureConceptType ==
  ASSUME TypeOK, NEW q \in Decision, NEW g \in Subs, NEW c \in Concepts \cup {None},
         EnsureConcept(q, g, c)
  PROVE  concept' \in [Concepts -> ConceptRow]
<1>1. CASE q.name = None
  BY <1>1 DEF EnsureConcept, TypeOK
<1>2. ASSUME NEW r \in Concepts, concept' = [concept EXCEPT ![r].sub = g]
      PROVE  concept' \in [Concepts -> ConceptRow]
  <2>1. concept[r] \in ConceptRow
    BY DEF TypeOK
  <2>2. [concept[r] EXCEPT !.sub = g] \in ConceptRow
    BY <2>1 DEF ConceptRow
  <2> QED
    BY <1>2, <2>2 DEF TypeOK
<1>3. CASE q.name # None
  <2>1. PICK r \in Concepts :
          \/ c = r /\ Adopt(Seen(q), r, g)
          \/ concept' = [concept EXCEPT ![r].sub = g]
          \/ c # None /\ Adopt(Seen(q), c, g)
    BY <1>3, Zenon DEF EnsureConcept
  <2> QED
    BY <1>2, <2>1, AdoptType
<1> QED
  BY <1>1, <1>3

-----------------------------------------------------------------------------
(* Type correctness and the ledger, step by step *)

LEMMA LockKeeps ==
  ASSUME IInv, NEW p \in Procs, NEW by \in {"auto", "user"}, NEW t \in Txs,
         NEW name \in Names \cup {None}, NEW s \in Subs, Lock(p, by, t, name, s)
  PROVE  TypeOK' /\ LedgerAgrees'
<1>1. TypeOK
  BY DEF IInv
<1>2. PICK known \in Concepts \cup {None} :
        session' = [session EXCEPT ![p] =
          [at |-> "locked", by |-> by, tx |-> t, name |-> name, sub |-> s,
           known |-> known, row |-> IF known = None THEN Absent ELSE concept[known]]]
  BY DEF Lock
<1>3. Absent \in ConceptRow
  BY DEF Absent, ConceptRow
<1>4. (IF known = None THEN Absent ELSE concept[known]) \in ConceptRow
  BY <1>1, <1>3 DEF TypeOK
<1>5. [at |-> "locked", by |-> by, tx |-> t, name |-> name, sub |-> s,
       known |-> known, row |-> IF known = None THEN Absent ELSE concept[known]] \in Decision
  BY <1>4 DEF Decision
<1>6. session' \in [Procs -> Session]
  BY <1>1, <1>2, <1>5, SessionKinds DEF TypeOK
<1>7. lock' \in [Txs -> Procs \cup {None}]
  BY <1>1, TakeType DEF Lock
<1>8. requests' \in 0..MaxRequests
  BY <1>1, BeginType DEF Lock
<1>9. UNCHANGED <<concept, sub, alias, tx, ledger, outdated>>
  BY DEF Lock
<1>10. TypeOK'
  BY <1>1, <1>6, <1>7, <1>8, <1>9 DEF TypeOK
<1> QED
  BY <1>9, <1>10 DEF IInv, LedgerAgrees

LEMMA SettleKeeps ==
  ASSUME IInv, NEW p \in Procs, Settle(p)
  PROVE  TypeOK' /\ LedgerAgrees'
<1> DEFINE q == session[p]
<1>1. TypeOK /\ LedgerAgrees
  BY DEF IInv
<1>2. q \in Decision
  <2>1. q \in Session /\ q.at = "locked"
    BY <1>1 DEF Settle, TypeOK
  <2> QED
    BY <2>1, SessionAt
<1>3. PICK g \in Subs, c \in Concepts \cup {None} :
        /\ EnsureConcept(q, g, c)
        /\ sub' = [sub EXCEPT ![g].made = TRUE]
        /\ alias' = AliasAfter(q, c)
        /\ tx' = [tx EXCEPT ![q.tx] =
             [concept |-> c, sub |-> g, said |-> <<q.name, q.sub>>, by |-> q.by,
              version |-> NextVersion(q.tx)]]
  BY DEF Settle
<1>4. /\ Record({q.tx})
      /\ outdated' = (outdated \/ Seen(q) # concept)
      /\ Leave(p)
      /\ requests' = requests
  BY DEF Settle
<1>5. /\ q.tx \in Txs /\ q.name \in Names \cup {None} /\ q.sub \in Subs
      /\ q.by \in {"auto", "user"}
  BY <1>2 DEF Decision
<1> HIDE DEF q
<1>6. concept' \in [Concepts -> ConceptRow]
  BY <1>1, <1>2, <1>3, EnsureConceptType
<1>7. sub' \in [Subs -> SubRow]
  <2>1. sub[g] \in SubRow
    BY <1>1 DEF TypeOK
  <2>2. [sub[g] EXCEPT !.made = TRUE] \in SubRow
    BY <2>1 DEF SubRow
  <2> QED
    BY <1>1, <1>3, <2>2 DEF TypeOK
<1>8. alias' \in Concepts \cup {None}
  BY <1>1, <1>3 DEF TypeOK, AliasAfter
<1>9. tx' \in [Txs -> TxRow]
  <2>1. NextVersion(q.tx) \in Nat
    BY <1>1, <1>5 DEF TypeOK, TxRow, NextVersion
  <2>2. [concept |-> c, sub |-> g, said |-> <<q.name, q.sub>>, by |-> q.by,
         version |-> NextVersion(q.tx)] \in TxRow
    BY <1>5, <2>1 DEF TxRow
  <2> QED
    BY <1>1, <1>3, <2>2 DEF TypeOK
<1>10. ledger' \in [Txs -> Entry \cup {None}]
  BY <1>1, <1>4, <1>9, RecordType
<1>11. lock' \in [Txs -> Procs \cup {None}] /\ session' \in [Procs -> Session]
  BY <1>1, <1>4, LeaveType
<1>12. outdated' \in BOOLEAN
  BY <1>1, <1>4 DEF TypeOK
<1>13. TypeOK'
  BY <1>1, <1>4, <1>6, <1>7, <1>8, <1>9, <1>10, <1>11, <1>12 DEF TypeOK
<1>14. \A t \in Txs : IF t \in {q.tx} THEN tx'[t].by # "none" ELSE tx'[t] = tx[t]
  BY <1>1, <1>3, <1>5 DEF TypeOK
<1>15. LedgerAgrees'
  BY <1>1, <1>4, <1>14, RecordAgrees
<1> QED
  BY <1>13, <1>15

LEMMA PreviewKeeps ==
  ASSUME IInv, NEW p \in Procs, NEW kind \in {"concepts", "subcategories"},
         NEW source, NEW target, Preview(p, kind, source, target),
         kind = "concepts" => source \in Concepts /\ target \in Concepts,
         kind = "subcategories" => source \in Subs /\ target \in Subs
  PROVE  TypeOK' /\ LedgerAgrees'
<1>1. TypeOK
  BY DEF IInv
<1> DEFINE rows == IF kind = "concepts" THEN concept ELSE sub
           new == [at |-> "previewed", kind |-> kind, source |-> source, target |-> target,
                   from |-> rows[source], onto |-> rows[target]]
<1>2. session' = [session EXCEPT ![p] = new]
  BY DEF Preview
<1>3. new \in Session
  <2>1. CASE kind = "concepts"
    <3>1. concept[source] \in ConceptRow /\ concept[target] \in ConceptRow
      BY <1>1, <2>1 DEF TypeOK
    <3>2. new \in ConceptMerge
      BY <2>1, <3>1 DEF ConceptMerge
    <3> QED
      BY <3>2, SessionKinds
  <2>2. CASE kind = "subcategories"
    <3>1. sub[source] \in SubRow /\ sub[target] \in SubRow
      BY <1>1, <2>2 DEF TypeOK
    <3>2. new \in SubMerge
      BY <2>2, <3>1 DEF SubMerge
    <3> QED
      BY <3>2, SessionKinds
  <2> QED
    BY <2>1, <2>2
<1> HIDE DEF new
<1>4. session' \in [Procs -> Session]
  BY <1>1, <1>2, <1>3 DEF TypeOK
<1>5. requests' \in 0..MaxRequests
  BY <1>1, BeginType DEF Preview
<1>6. UNCHANGED <<concept, sub, alias, tx, ledger, lock, outdated>>
  BY DEF Preview
<1>7. TypeOK'
  BY <1>1, <1>4, <1>5, <1>6 DEF TypeOK
<1> QED
  BY <1>6, <1>7 DEF IInv, LedgerAgrees

LEMMA HoldKeeps ==
  ASSUME IInv, NEW p \in Procs, Hold(p)
  PROVE  TypeOK' /\ LedgerAgrees'
<1>1. TypeOK
  BY DEF IInv
<1>2. session[p] \in ConceptMerge \cup SubMerge
  <2>1. session[p] \in Session /\ session[p].at = "previewed"
    BY <1>1 DEF Hold, TypeOK
  <2> QED
    BY <2>1, SessionAt
<1>3. [session[p] EXCEPT !.at = "held"] \in Session
  BY <1>2, HeldSession
<1>4. session' \in [Procs -> Session]
  BY <1>1, <1>3 DEF Hold, TypeOK
<1>5. lock' \in [Txs -> Procs \cup {None}]
  BY <1>1, TakeType DEF Hold
<1>6. UNCHANGED <<concept, sub, alias, tx, ledger, outdated, requests>>
  BY DEF Hold
<1>7. TypeOK'
  BY <1>1, <1>4, <1>5, <1>6 DEF TypeOK
<1> QED
  BY <1>6, <1>7 DEF IInv, LedgerAgrees

LEMMA MergeConceptsKeeps ==
  ASSUME IInv, NEW p \in Procs, MergeConcepts(p)
  PROVE  TypeOK' /\ LedgerAgrees'
<1> DEFINE q == session[p]
<1>1. TypeOK /\ LedgerAgrees
  BY DEF IInv
<1>2. q \in ConceptMerge
  <2>1. q \in Session /\ q.at = "held" /\ q.kind = "concepts"
    BY <1>1 DEF MergeConcepts, TypeOK
  <2> QED
    BY <2>1, MergeKind
<1>3. q.source \in Concepts /\ q.target \in Concepts /\ q.onto.sub \in Subs \cup {None}
  BY <1>2 DEF ConceptMerge, ConceptRow
<1>4. /\ Refile(Filed(q.source), q.target, q.onto.sub)
      /\ alias' = IF alias = q.source THEN q.target ELSE alias
      /\ concept' = [concept EXCEPT ![q.source].into = q.target]
      /\ outdated' = (outdated \/ Stale(q, concept))
      /\ Leave(p)
      /\ UNCHANGED <<sub, requests>>
  BY DEF MergeConcepts
<1> HIDE DEF q
<1>5. tx' \in [Txs -> TxRow] /\ ledger' \in [Txs -> Entry \cup {None}]
  BY <1>1, <1>3, <1>4, RefileType
<1>6. concept' \in [Concepts -> ConceptRow]
  <2>1. concept[q.source] \in ConceptRow
    BY <1>1, <1>3 DEF TypeOK
  <2>2. [concept[q.source] EXCEPT !.into = q.target] \in ConceptRow
    BY <1>3, <2>1 DEF ConceptRow
  <2> QED
    BY <1>1, <1>4, <2>2 DEF TypeOK
<1>7. alias' \in Concepts \cup {None}
  BY <1>1, <1>3, <1>4 DEF TypeOK
<1>8. lock' \in [Txs -> Procs \cup {None}] /\ session' \in [Procs -> Session]
  BY <1>1, <1>4, LeaveType
<1>9. outdated' \in BOOLEAN
  BY <1>1, <1>4 DEF TypeOK
<1>10. TypeOK'
  BY <1>1, <1>4, <1>5, <1>6, <1>7, <1>8, <1>9 DEF TypeOK
<1> QED
  BY <1>1, <1>4, <1>10, RefileAgrees

LEMMA MergeSubcategoriesKeeps ==
  ASSUME IInv, NEW p \in Procs, MergeSubcategories(p)
  PROVE  TypeOK' /\ LedgerAgrees'
<1> DEFINE q == session[p]
<1>1. TypeOK /\ LedgerAgrees
  BY DEF IInv
<1>2. q \in SubMerge
  <2>1. q \in Session /\ q.at = "held" /\ q.kind = "subcategories"
    BY <1>1 DEF MergeSubcategories, TypeOK
  <2> QED
    BY <2>1, MergeKind
<1>3. q.source \in Subs /\ q.target \in Subs
  BY <1>2 DEF SubMerge
<1>4. /\ Refile(FiledUnder(q.source), None, q.target)
      /\ concept' = [c \in Concepts |->
           IF concept[c].made /\ concept[c].sub = q.source /\ concept[c].into = None
           THEN [concept[c] EXCEPT !.sub = q.target] ELSE concept[c]]
      /\ sub' = [sub EXCEPT ![q.source].into = q.target]
      /\ outdated' = (outdated \/ Stale(q, sub))
      /\ Leave(p)
      /\ UNCHANGED <<alias, requests>>
  BY DEF MergeSubcategories
<1> HIDE DEF q
<1>5. tx' \in [Txs -> TxRow] /\ ledger' \in [Txs -> Entry \cup {None}]
  BY <1>1, <1>3, <1>4, RefileType
<1>6. concept' \in [Concepts -> ConceptRow]
  <2> SUFFICES ASSUME NEW c \in Concepts
               PROVE  /\ concept[c] \in ConceptRow
                      /\ [concept[c] EXCEPT !.sub = q.target] \in ConceptRow
    BY <1>4
  <2>1. concept[c] \in ConceptRow
    BY <1>1 DEF TypeOK
  <2> QED
    BY <1>3, <2>1 DEF ConceptRow
<1>7. sub' \in [Subs -> SubRow]
  <2>1. sub[q.source] \in SubRow
    BY <1>1, <1>3 DEF TypeOK
  <2>2. [sub[q.source] EXCEPT !.into = q.target] \in SubRow
    BY <1>3, <2>1 DEF SubRow
  <2> QED
    BY <1>1, <1>4, <2>2 DEF TypeOK
<1>8. lock' \in [Txs -> Procs \cup {None}] /\ session' \in [Procs -> Session]
  BY <1>1, <1>4, LeaveType
<1>9. outdated' \in BOOLEAN
  BY <1>1, <1>4 DEF TypeOK
<1>10. TypeOK'
  BY <1>1, <1>4, <1>5, <1>6, <1>7, <1>8, <1>9 DEF TypeOK
<1> QED
  BY <1>1, <1>4, <1>10, RefileAgrees

LEMMA RenameKeeps ==
  ASSUME IInv, NEW p \in Procs, NEW s \in Subs, RenameSubcategory(p, s)
  PROVE  TypeOK' /\ LedgerAgrees'
<1>1. TypeOK /\ LedgerAgrees
  BY DEF IInv
<1>2. /\ Refile(FiledUnder(s), None, s)
      /\ UNCHANGED <<concept, sub, alias, lock, session, outdated>>
  BY DEF RenameSubcategory
<1>3. tx' \in [Txs -> TxRow] /\ ledger' \in [Txs -> Entry \cup {None}]
  BY <1>1, <1>2, RefileType
<1>4. requests' \in 0..MaxRequests
  BY <1>1, BeginType DEF RenameSubcategory
<1>5. TypeOK'
  BY <1>1, <1>2, <1>3, <1>4 DEF TypeOK
<1> QED
  BY <1>1, <1>2, <1>5, RefileAgrees

LEMMA FailKeeps ==
  ASSUME IInv, NEW p \in Procs, Fail(p)
  PROVE  TypeOK' /\ LedgerAgrees'
<1>1. TypeOK
  BY DEF IInv
<1>2. lock' \in [Txs -> Procs \cup {None}] /\ session' \in [Procs -> Session]
  BY <1>1, LeaveType DEF Fail
<1>3. UNCHANGED <<concept, sub, alias, tx, ledger, outdated, requests>>
  BY DEF Fail
<1>4. TypeOK'
  BY <1>1, <1>2, <1>3 DEF TypeOK
<1> QED
  BY <1>3, <1>4 DEF IInv, LedgerAgrees

-----------------------------------------------------------------------------
(* The row locks *)

\* Whose rows a process may write: those it has locked, or nobody has.
LEMMA OthersKeep ==
  ASSUME IInv, NEW p \in Procs,
         \A r \in Procs : r # p => session'[r] = session[r],
         \A t \in Txs : lock[t] \in Procs /\ lock[t] # p => lock'[t] = lock[t] /\ tx'[t] = tx[t]
  PROVE  \A r \in Procs : r # p => Owned(r)'
<1> SUFFICES ASSUME NEW r \in Procs, r # p, session[r].at = "locked"
             PROVE  /\ lock'[session[r].tx] = r
                    /\ ~(session[r].by = "auto" /\ tx'[session[r].tx].by = "user")
  BY DEF Owned, Outranked
<1>1. session[r] \in Decision
  BY SessionAt DEF IInv, TypeOK
<1>2. session[r].tx \in Txs
  BY <1>1 DEF Decision
<1>3. lock[session[r].tx] = r /\ ~Outranked(session[r].by, session[r].tx)
  BY DEF IInv, Owned
<1> QED
  BY <1>2, <1>3 DEF Outranked

LEMMA RefileMine ==
  ASSUME TypeOK, NEW p \in Procs, NEW ts, NEW c, NEW s, Free(p, ts), Refile(ts, c, s)
  PROVE  \A t \in Txs : lock[t] \in Procs /\ lock[t] # p => tx'[t] = tx[t]
BY NoneIsApart DEF Free, Refile

LEMMA LeaveMine ==
  ASSUME TypeOK, NEW p \in Procs, Leave(p)
  PROVE  /\ \A r \in Procs : r # p => session'[r] = session[r]
         /\ \A t \in Txs : lock[t] # p => lock'[t] = lock[t]
         /\ session'[p] = Idle
BY DEF TypeOK, Leave, Release

LEMMA IdleOwns ==
  ASSUME NEW p \in Procs, session'[p].at # "locked"
  PROVE  Owned(p)'
BY DEF Owned

LEMMA OwnedKept ==
  ASSUME IInv, [Next]_vars
  PROVE  \A p \in Procs : Owned(p)'
<1>1. TypeOK
  BY DEF IInv
<1>2. CASE UNCHANGED vars
  BY <1>2 DEF IInv, Owned, Outranked, vars
<1>3. ASSUME NEW p \in Procs, NEW by \in {"auto", "user"}, NEW t \in Txs,
             NEW name \in Names \cup {None}, NEW s \in Subs, Lock(p, by, t, name, s)
      PROVE  \A r \in Procs : Owned(r)'
  <2>1. /\ session'[p].at = "locked" /\ session'[p].tx = t /\ session'[p].by = by
        /\ \A r \in Procs : r # p => session'[r] = session[r]
    BY <1>1, <1>3 DEF TypeOK, Lock
  <2>2. /\ lock[t] = None /\ lock'[t] = p
        /\ \A u \in Txs : u # t => lock'[u] = lock[u]
        /\ tx' = tx
    BY <1>3 DEF Lock, Take
  <2>3. ~Outranked(by, t)
    BY <1>3 DEF Lock
  <2>4. Owned(p)'
    BY <2>1, <2>2, <2>3 DEF Owned, Outranked
  <2>5. \A r \in Procs : r # p => Owned(r)'
    BY <2>1, <2>2, NoneIsApart, OthersKeep
  <2> QED
    BY <2>4, <2>5
<1>4. ASSUME NEW p \in Procs, Settle(p)
      PROVE  \A r \in Procs : Owned(r)'
  <2>1. session[p].at = "locked" /\ Leave(p)
    BY <1>4 DEF Settle
  <2>2. session[p] \in Decision
    BY <1>1, <2>1, SessionAt DEF TypeOK
  <2>3. lock[session[p].tx] = p
    BY <2>1 DEF IInv, Owned
  <2>4. \A t \in Txs : t # session[p].tx => tx'[t] = tx[t]
    BY <1>1, <1>4 DEF Settle, TypeOK
  <2>5. \A r \in Procs : r # p => Owned(r)'
    BY <1>1, <2>1, <2>3, <2>4, LeaveMine, OthersKeep
  <2>6. Owned(p)'
    BY <1>1, <2>1, LeaveMine, IdleOwns DEF Idle
  <2> QED
    BY <2>5, <2>6
<1>5. ASSUME NEW p \in Procs, NEW kind, NEW source, NEW target, Preview(p, kind, source, target)
      PROVE  \A r \in Procs : Owned(r)'
  <2>1. /\ session'[p].at = "previewed"
        /\ \A r \in Procs : r # p => session'[r] = session[r]
        /\ UNCHANGED <<lock, tx>>
    BY <1>1, <1>5 DEF TypeOK, Preview
  <2>2. \A r \in Procs : r # p => Owned(r)'
    BY <2>1, OthersKeep
  <2> QED
    BY <2>1, <2>2, IdleOwns
<1>6. ASSUME NEW p \in Procs, Hold(p)
      PROVE  \A r \in Procs : Owned(r)'
  <2>1. session[p] \in ConceptMerge \cup SubMerge
    BY <1>1, <1>6, SessionAt DEF TypeOK, Hold
  <2>2. /\ session'[p].at = "held"
        /\ \A r \in Procs : r # p => session'[r] = session[r]
        /\ tx' = tx
    BY <1>1, <1>6, <2>1 DEF TypeOK, Hold, ConceptMerge, SubMerge
  <2>3. \A t \in Txs : lock[t] \in Procs /\ lock[t] # p => lock'[t] = lock[t]
    BY <1>6, NoneIsApart DEF Hold, Take, Free
  <2>4. \A r \in Procs : r # p => Owned(r)'
    BY <2>2, <2>3, OthersKeep
  <2> QED
    BY <2>2, <2>4, IdleOwns
<1>7. ASSUME NEW p \in Procs, MergeConcepts(p) \/ MergeSubcategories(p)
      PROVE  \A r \in Procs : Owned(r)'
  <2>1. PICK ts, c, s : Free(p, ts) /\ Refile(ts, c, s)
    BY <1>7 DEF MergeConcepts, MergeSubcategories
  <2>2. Leave(p)
    BY <1>7 DEF MergeConcepts, MergeSubcategories
  <2>3. \A r \in Procs : r # p => Owned(r)'
    BY <1>1, <2>1, <2>2, RefileMine, LeaveMine, OthersKeep
  <2>4. Owned(p)'
    BY <1>1, <2>2, LeaveMine, IdleOwns DEF Idle
  <2> QED
    BY <2>3, <2>4
<1>8. ASSUME NEW p \in Procs, NEW s \in Subs, RenameSubcategory(p, s)
      PROVE  \A r \in Procs : Owned(r)'
  <2>1. /\ Free(p, FiledUnder(s)) /\ Refile(FiledUnder(s), None, s)
        /\ UNCHANGED <<lock, session>> /\ session[p] = Idle
    BY <1>8 DEF RenameSubcategory, Begin
  <2>2. \A r \in Procs : r # p => Owned(r)'
    BY <1>1, <2>1, RefileMine, OthersKeep
  <2>3. Owned(p)'
    BY <2>1, IdleOwns DEF Idle
  <2> QED
    BY <2>2, <2>3
<1>9. ASSUME NEW p \in Procs, Fail(p)
      PROVE  \A r \in Procs : Owned(r)'
  <2>1. Leave(p) /\ tx' = tx
    BY <1>9 DEF Fail
  <2>2. \A r \in Procs : r # p => Owned(r)'
    BY <1>1, <2>1, LeaveMine, OthersKeep
  <2>3. Owned(p)'
    BY <1>1, <2>1, LeaveMine, IdleOwns DEF Idle
  <2> QED
    BY <2>2, <2>3
<1> QED
  BY <1>2, <1>3, <1>4, <1>5, <1>6, <1>7, <1>8, <1>9 DEF Next
-----------------------------------------------------------------------------
(* The invariant *)

LEMMA NextKeeps ==
  ASSUME IInv, Next
  PROVE  TypeOK' /\ LedgerAgrees'
<1>1. ASSUME NEW p \in Procs, NEW a \in Concepts, NEW b \in Concepts,
             Preview(p, "concepts", a, b)
      PROVE  TypeOK' /\ LedgerAgrees'
  BY <1>1, PreviewKeeps
<1>2. ASSUME NEW p \in Procs, NEW a \in Subs, NEW b \in Subs,
             Preview(p, "subcategories", a, b)
      PROVE  TypeOK' /\ LedgerAgrees'
  BY <1>2, PreviewKeeps
<1> QED
  BY <1>1, <1>2, LockKeeps, SettleKeeps, HoldKeeps, MergeConceptsKeeps,
     MergeSubcategoriesKeeps, RenameKeeps, FailKeeps DEF Next

LEMMA StepIInv == IInv /\ [Next]_vars => IInv'
<1> SUFFICES ASSUME IInv, [Next]_vars PROVE IInv'
  OBVIOUS
<1>1. TypeOK' /\ LedgerAgrees'
  <2>1. CASE Next
    BY <2>1, NextKeeps
  <2>2. CASE UNCHANGED vars
    BY <2>2 DEF IInv, TypeOK, LedgerAgrees, vars
  <2> QED
    BY <2>1, <2>2
<1> QED
  BY <1>1, OwnedKept DEF IInv

LEMMA Inductive == Spec => []IInv
BY InitIInv, StepIInv, PTL DEF Spec

\* The rows of the taxonomy, its transactions, ledger, locks and sessions keep their
\* types, for any number of requests at work beside each other.
THEOREM TypeCorrect == Spec => []TypeOK
<1>1. IInv => TypeOK
  BY DEF IInv
<1> QED
  BY <1>1, Inductive, PTL

\* However decisions, corrections, merges and renamings interleave, a transaction shows
\* the latest entry of its ledger.
THEOREM LedgerHolds == Spec => []LedgerAgrees
<1>1. IInv => LedgerAgrees
  BY DEF IInv
<1> QED
  BY <1>1, Inductive, PTL

-----------------------------------------------------------------------------
(* Corrections *)

\* One step of CorrectionsStand, of one transaction.
Stands(t) ==
  /\ tx[t].by = "user" => tx'[t].by = "user"
  /\ tx[t].by # "none" /\ tx'[t] # tx[t] => tx'[t].version = tx[t].version + 1

LEMMA RefileStands ==
  ASSUME NEW ts, NEW c, NEW s, Refile(ts, c, s), NEW t \in Txs
  PROVE  Stands(t)
BY DEF Refile, Stands

LEMMA SettleStands ==
  ASSUME IInv, NEW p \in Procs, Settle(p), NEW t \in Txs
  PROVE  Stands(t)
<1> DEFINE q == session[p]
<1>1. q \in Decision
  <2>1. q \in Session /\ q.at = "locked"
    BY DEF IInv, TypeOK, Settle
  <2> QED
    BY <2>1, SessionAt
<1>2. q.tx \in Txs /\ q.by \in {"auto", "user"}
  BY <1>1 DEF Decision
<1>3. ~Outranked(q.by, q.tx)
  BY DEF IInv, Owned, Settle
<1>4. PICK g \in Subs, c \in Concepts \cup {None} :
        tx' = [tx EXCEPT ![q.tx] =
          [concept |-> c, sub |-> g, said |-> <<q.name, q.sub>>, by |-> q.by,
           version |-> NextVersion(q.tx)]]
  BY DEF Settle
<1> HIDE DEF q
<1>5. CASE t = q.tx
  <2>1. tx'[t].by = q.by /\ tx'[t].version = NextVersion(t)
    BY <1>2, <1>4, <1>5 DEF IInv, TypeOK
  <2> QED
    BY <1>2, <1>3, <1>5, <2>1 DEF Stands, Outranked, NextVersion
<1>6. CASE t # q.tx
  BY <1>4, <1>6 DEF Stands, IInv, TypeOK
<1> QED
  BY <1>5, <1>6

LEMMA StepStands ==
  ASSUME IInv, Next, NEW t \in Txs
  PROVE  Stands(t)
<1>1. ASSUME NEW p \in Procs, MergeConcepts(p) \/ MergeSubcategories(p)
      PROVE  Stands(t)
  BY <1>1, RefileStands DEF MergeConcepts, MergeSubcategories
<1>2. ASSUME NEW p \in Procs, NEW s \in Subs, RenameSubcategory(p, s)
      PROVE  Stands(t)
  BY <1>2, RefileStands DEF RenameSubcategory
<1>3. CASE tx' = tx
  BY <1>3 DEF Stands
<1>4. ASSUME NEW p \in Procs,
             \/ \E by \in {"auto", "user"}, u \in Txs, name \in Names \cup {None}, s \in Subs :
                  Lock(p, by, u, name, s)
             \/ \E a, b \in Concepts : Preview(p, "concepts", a, b)
             \/ \E a, b \in Subs : Preview(p, "subcategories", a, b)
             \/ Hold(p)
             \/ Fail(p)
      PROVE  tx' = tx
  BY <1>4 DEF Lock, Preview, Hold, Fail
<1> QED
  BY <1>1, <1>2, <1>3, <1>4, SettleStands DEF Next

\* Whatever decision was computed before a correction landed, the correction is not
\* undone by it; and no change of a classification keeps its version.
THEOREM CorrectionsHold == Spec => CorrectionsStand
<1>1. IInv /\ [Next]_vars => [\A t \in Txs : Stands(t)]_vars
  BY StepStands
<1>2. (\A t \in Txs : Stands(t)) =>
        \A t \in Txs :
          /\ tx[t].by = "user" => tx'[t].by = "user"
          /\ tx[t].by # "none" /\ tx'[t] # tx[t] => tx'[t].version = tx[t].version + 1
  BY DEF Stands
<1>3. IInv /\ [Next]_vars =>
        [\A t \in Txs :
          /\ tx[t].by = "user" => tx'[t].by = "user"
          /\ tx[t].by # "none" /\ tx'[t] # tx[t] => tx'[t].version = tx[t].version + 1]_vars
  BY <1>1, <1>2
<1> QED
  BY <1>3, Inductive, PTL DEF Spec, CorrectionsStand

-----------------------------------------------------------------------------
(* Chains of merges *)

LEMMA Least ==
  ASSUME NEW T \in SUBSET Nat, T # {}
  PROVE  \E x \in T : \A y \in T : x <= y
<1>1. PICK x \in T : \A y \in T : ~(<<y, x>> \in OpToRel(<, Nat))
  BY WFMin, NatLessThanWellFounded, Zenon
<1> WITNESS x \in T
<1>2. SUFFICES ASSUME NEW y \in T PROVE x <= y
  OBVIOUS
<1>3. ~(y < x)
  BY <1>1 DEF OpToRel
<1> QED
  BY <1>3

\* f is the first m steps of the chain from r.
Walk(rows, r, m, f) ==
  f = [k \in 0..m |-> IF k = 0 THEN r ELSE Ahead(rows, f[k - 1])]

LEMMA WalkExists ==
  ASSUME NEW rows, NEW r, NEW n \in Nat
  PROVE  \E f : Walk(rows, r, n, f)
<1> DEFINE Short == {m \in 0..n : ~ \E f : Walk(rows, r, m, f)}
<1>1. SUFFICES ASSUME Short # {} PROVE FALSE
  OBVIOUS
<1>2. PICK m \in Short : \A y \in Short : m <= y
  BY <1>1, Least, Short \in SUBSET Nat
<1>3. CASE m = 0
  <2>1. Walk(rows, r, 0, [k \in 0..0 |-> r])
    BY DEF Walk
  <2> QED
    BY <1>3, <2>1
<1>4. CASE m > 0
  <2>1. m - 1 \in 0..n /\ m - 1 \notin Short
    BY <1>2, <1>4
  <2>2. PICK f : Walk(rows, r, m - 1, f)
    BY <2>1
  <2> DEFINE g == [k \in 0..m |-> IF k = m THEN Ahead(rows, f[m - 1]) ELSE f[k]]
  <2>3. Walk(rows, r, m, g)
    <3>1. \A k \in 0..m : g[k] = IF k = 0 THEN r ELSE Ahead(rows, g[k - 1])
      BY <1>4, <2>2 DEF Walk
    <3> QED
      BY <3>1 DEF Walk
  <2> QED
    BY <2>3
<1> QED
  BY <1>3, <1>4

\* The recursive function Chain takes one step at a time.
LEMMA ChainWalks ==
  ASSUME NEW rows, NEW r, IsFiniteSet(DOMAIN rows)
  PROVE  Walk(rows, r, Cardinality(DOMAIN rows), Chain(rows, r))
<1> DEFINE n == Cardinality(DOMAIN rows)
           path[k \in 0..n] == IF k = 0 THEN r ELSE Ahead(rows, path[k - 1])
<1>1. n \in Nat
  BY FS_CardinalityType
<1>2. \E f : f = [k \in 0..n |-> IF k = 0 THEN r ELSE Ahead(rows, f[k - 1])]
  <2>1. PICK f : Walk(rows, r, n, f)
    <3> HIDE DEF n
    <3> QED
      BY <1>1, WalkExists
  <2> WITNESS f
  <2> QED
    BY <2>1, Zenon DEF Walk
<1>3. path = [k \in 0..n |-> IF k = 0 THEN r ELSE Ahead(rows, path[k - 1])]
  BY <1>2, Zenon DEF path
<1>4. Chain(rows, r) = path
  BY Zenon DEF Chain
<1> QED
  BY <1>3, <1>4 DEF Walk

Merged(rows) == {c \in DOMAIN rows : rows[c].into # None}

\* Every row has a root that is not merged, as many merges away as its rank, which is
\* at most the number of merges.
Ranked(rows, rank, root) ==
  /\ rank \in [DOMAIN rows -> Nat]
  /\ root \in [DOMAIN rows -> DOMAIN rows]
  /\ \A c \in DOMAIN rows :
       /\ rank[c] <= Cardinality(Merged(rows))
       /\ rows[root[c]].into = None
       /\ rows[c].into = None => rank[c] = 0 /\ root[c] = c
       /\ rows[c].into # None => /\ rows[c].into \in DOMAIN rows
                                 /\ rank[c] = rank[rows[c].into] + 1
                                 /\ root[c] = root[rows[c].into]

Ends(rows) == \E rank, root : Ranked(rows, rank, root)

LEMMA MergedCardinality ==
  ASSUME NEW rows, IsFiniteSet(DOMAIN rows)
  PROVE  /\ IsFiniteSet(Merged(rows))
         /\ Cardinality(Merged(rows)) \in Nat
         /\ Cardinality(DOMAIN rows) \in Nat
         /\ Cardinality(Merged(rows)) <= Cardinality(DOMAIN rows)
<1>1. Merged(rows) \subseteq DOMAIN rows
  BY DEF Merged
<1> QED
  BY <1>1, FS_Subset, FS_CardinalityType

\* Where every row has a rank, every chain ends.
LEMMA RankedResolves ==
  ASSUME NEW rows, IsFiniteSet(DOMAIN rows), NEW rank, NEW root, Ranked(rows, rank, root),
         NEW r \in DOMAIN rows
  PROVE  Resolved(rows, r, root[r])
<1> DEFINE n == Cardinality(DOMAIN rows)
           path == Chain(rows, r)
           On(k) == /\ path[k] \in DOMAIN rows
                    /\ root[path[k]] = root[r]
                    /\ rank[path[k]] = 0 \/ rank[path[k]] + k <= rank[r]
           Off == {k \in 0..n : ~On(k)}
<1>1. n \in Nat
  BY FS_CardinalityType
<1>2. path[0] = r /\ \A k \in 1..n : path[k] = Ahead(rows, path[k - 1])
  BY <1>1, ChainWalks DEF Walk
<1>3. On(0)
  BY <1>2 DEF Ranked
<1>4. ASSUME NEW k \in 1..n, On(k - 1) PROVE On(k)
  <2> DEFINE at == path[k - 1]
  <2>1. path[k] = Ahead(rows, at) /\ at \in DOMAIN rows /\ root[at] = root[r]
    BY <1>2, <1>4
  <2>2. rank[at] = 0 \/ rank[at] + (k - 1) <= rank[r]
    BY <1>4
  <2>3. rank[at] \in Nat /\ rank[r] \in Nat
    BY <2>1 DEF Ranked
  <2> HIDE DEF path, at
  <2>4. CASE rows[at].into = None
    <3>1. path[k] = at /\ rank[at] = 0
      BY <2>1, <2>4 DEF Ahead, Ranked
    <3> QED
      BY <2>1, <3>1
  <2>5. CASE rows[at].into # None
    <3>1. /\ path[k] = rows[at].into /\ path[k] \in DOMAIN rows
          /\ rank[at] = rank[path[k]] + 1 /\ root[at] = root[path[k]]
      BY <2>1, <2>5 DEF Ahead, Ranked
    <3>2. rank[path[k]] \in Nat
      BY <3>1 DEF Ranked
    <3> QED
      BY <1>1, <2>1, <2>2, <2>3, <3>1, <3>2
  <2> QED
    BY <2>4, <2>5
<1> HIDE DEF n, path
<1>5. Off = {}
  <2>1. SUFFICES ASSUME Off # {} PROVE FALSE
    OBVIOUS
  <2> HIDE DEF On
  <2>2. PICK m \in Off : \A y \in Off : m <= y
    BY <1>1, <2>1, Least, Off \in SUBSET Nat
  <2>3. m # 0
    BY <1>3
  <2>4. m \in 1..n /\ m - 1 \in 0..n /\ m - 1 \notin Off
    BY <1>1, <2>2, <2>3
  <2> QED
    BY <1>4, <2>4
<1>6. On(n)
  <2> HIDE DEF On
  <2> QED
    BY <1>1, <1>5
<1>7. rank[r] \in Nat /\ rank[r] <= n /\ rank[path[n]] \in Nat
  <2>1. rank[r] \in Nat /\ rank[path[n]] \in Nat /\ rank[r] <= Cardinality(Merged(rows))
    BY <1>6 DEF Ranked
  <2> QED
    BY <1>1, <2>1, MergedCardinality DEF n
<1>8. rank[path[n]] = 0
  BY <1>1, <1>6, <1>7
<1>9. rows[path[n]].into = None
  <2>1. SUFFICES ASSUME rows[path[n]].into # None PROVE FALSE
    OBVIOUS
  <2>2. rows[path[n]].into \in DOMAIN rows /\ rank[path[n]] = rank[rows[path[n]].into] + 1
    BY <1>6, <2>1 DEF Ranked
  <2>3. rank[rows[path[n]].into] \in Nat
    BY <2>2 DEF Ranked
  <2> QED
    BY <1>8, <2>2, <2>3
<1>10. path[n] = root[r]
  BY <1>6, <1>9 DEF Ranked
<1> QED
  BY <1>9, <1>10 DEF Resolved, n, path

LEMMA ChainsEnd ==
  ASSUME NEW rows, IsFiniteSet(DOMAIN rows), Ends(rows)
  PROVE  \A c \in DOMAIN rows : \E e \in DOMAIN rows : Resolved(rows, c, e)
<1>1. PICK rank, root : Ranked(rows, rank, root)
  BY DEF Ends
<1>2. \A c \in DOMAIN rows : root[c] \in DOMAIN rows /\ Resolved(rows, c, root[c])
  BY <1>1, RankedResolves DEF Ranked
<1> QED
  BY <1>2

\* Whether chains end depends on nothing but the merges.
LEMMA SameMerges ==
  ASSUME NEW rows, NEW new, Ends(rows), DOMAIN new = DOMAIN rows,
         \A c \in DOMAIN rows : new[c].into = rows[c].into
  PROVE  Ends(new)
<1>1. PICK rank, root : Ranked(rows, rank, root)
  BY DEF Ends
<1>2. Merged(new) = Merged(rows)
  BY DEF Merged
<1>3. Ranked(new, rank, root)
  BY <1>1, <1>2 DEF Ranked
<1> QED
  BY <1>3 DEF Ends

\* Merging a row that is not merged into another such row leaves chains that end.
LEMMA OneMore ==
  ASSUME NEW rows, NEW new, IsFiniteSet(DOMAIN rows), Ends(rows), DOMAIN new = DOMAIN rows,
         NEW source \in DOMAIN rows, NEW target \in DOMAIN rows, source # target,
         rows[source].into = None, rows[target].into = None,
         \A c \in DOMAIN rows : new[c].into = IF c = source THEN target ELSE rows[c].into
  PROVE  Ends(new)
<1>1. CASE target = None
  <2>1. \A c \in DOMAIN rows : new[c].into = rows[c].into
    BY <1>1
  <2> QED
    BY <2>1, SameMerges
<1>2. CASE target # None
  <2>1. PICK rank, root : Ranked(rows, rank, root)
    BY DEF Ends
  <2> DEFINE up == [c \in DOMAIN rows |-> IF root[c] = source THEN rank[c] + 1 ELSE rank[c]]
             top == [c \in DOMAIN rows |-> IF root[c] = source THEN target ELSE root[c]]
  <2>2. Cardinality(Merged(new)) = Cardinality(Merged(rows)) + 1
    <3>1. Merged(new) = Merged(rows) \cup {source} /\ source \notin Merged(rows)
      BY <1>2 DEF Merged
    <3> QED
      BY <3>1, MergedCardinality, FS_AddElement
  <2>3. Cardinality(Merged(rows)) \in Nat
    BY MergedCardinality
  <2>4. up \in [DOMAIN new -> Nat] /\ top \in [DOMAIN new -> DOMAIN new]
    BY <2>1 DEF Ranked
  <2>5. ASSUME NEW c \in DOMAIN rows
        PROVE  /\ up[c] <= Cardinality(Merged(new))
               /\ new[top[c]].into = None
               /\ new[c].into = None => up[c] = 0 /\ top[c] = c
               /\ new[c].into # None => /\ new[c].into \in DOMAIN rows
                                        /\ up[c] = up[new[c].into] + 1
                                        /\ top[c] = top[new[c].into]
    <3>1. /\ rank[c] \in Nat /\ rank[c] <= Cardinality(Merged(rows))
          /\ root[c] \in DOMAIN rows /\ rows[root[c]].into = None
      BY <2>1 DEF Ranked
    <3>2. up[c] <= Cardinality(Merged(new))
      BY <2>2, <2>3, <3>1
    <3>3. new[top[c]].into = None
      BY <3>1
    <3>4. CASE c = source
      <4>1. /\ root[source] = source /\ rank[source] = 0
            /\ root[target] = target /\ rank[target] = 0
        BY <2>1 DEF Ranked
      <4> QED
        BY <1>2, <3>2, <3>3, <3>4, <4>1
    <3>5. CASE c # source /\ rows[c].into = None
      <4>1. root[c] = c /\ rank[c] = 0
        BY <2>1, <3>5 DEF Ranked
      <4> QED
        BY <3>2, <3>3, <3>5, <4>1
    <3>6. CASE c # source /\ rows[c].into # None
      <4>1. /\ rows[c].into \in DOMAIN rows /\ rank[c] = rank[rows[c].into] + 1
            /\ root[c] = root[rows[c].into] /\ new[c].into = rows[c].into
        BY <2>1, <3>6 DEF Ranked
      <4>2. rank[rows[c].into] \in Nat
        BY <2>1, <4>1 DEF Ranked
      <4> QED
        BY <3>2, <3>3, <3>6, <4>1, <4>2
    <3> QED
      BY <3>4, <3>5, <3>6
  <2> HIDE DEF up, top
  <2>6. Ranked(new, up, top)
    BY <2>4, <2>5 DEF Ranked
  <2> QED
    BY <2>6 DEF Ends
<1> QED
  BY <1>1, <1>2

LEMMA NoMerges ==
  ASSUME NEW rows, IsFiniteSet(DOMAIN rows), \A c \in DOMAIN rows : rows[c].into = None
  PROVE  Ends(rows)
<1>1. Cardinality(Merged(rows)) \in Nat
  BY MergedCardinality
<1>2. Ranked(rows, [c \in DOMAIN rows |-> 0], [c \in DOMAIN rows |-> c])
  BY <1>1 DEF Ranked
<1> QED
  BY <1>2 DEF Ends

LEMMA FiniteConcepts == IsFiniteSet(Concepts)
BY RowsAreFinite, FS_Product, FS_Union DEF Concepts

-----------------------------------------------------------------------------
(* Merged rows are left *)

\* A classified transaction is filed under rows that are not merged, and under the
\* subcategory of its concept.
WellFiled(t) ==
  tx[t].by # "none" =>
    /\ tx[t].sub \in Subs /\ LiveSub(tx[t].sub)
    /\ tx[t].concept # None => /\ Live(tx[t].concept)
                               /\ concept[tx[t].concept].sub = tx[t].sub

\* MergedIsLeft, with chains that end for a reason.
Left ==
  /\ Ends(concept)
  /\ Ends(sub)
  /\ alias # None => Live(alias)
  /\ \A t \in Txs : WellFiled(t)

\* The rows a merge has read were there, and were two.
ReadTwo(p) ==
  session[p].at \in {"previewed", "held"} =>
    session[p].onto.made /\ session[p].source # session[p].target

LInv ==
  /\ ~outdated => Left
  /\ \A p \in Procs : ReadTwo(p)

LEMMA InitLInv == Init => LInv
<1> SUFFICES ASSUME Init PROVE LInv
  OBVIOUS
<1>1. TypeOK
  BY InitIInv DEF IInv
<1>2. DOMAIN concept = Concepts /\ DOMAIN sub = Subs
  BY <1>1 DEF TypeOK
<1>3. \A c \in Concepts : concept[c].into = None
  <2>1. Absent.into = None
    BY DEF Absent
  <2> QED
    BY <2>1 DEF Init
<1>4. \A s \in Subs : sub[s].into = None
  BY DEF Init
<1>5. Ends(concept)
  BY <1>2, <1>3, FiniteConcepts, NoMerges
<1>6. Ends(sub)
  BY <1>2, <1>4, RowsAreFinite, NoMerges
<1>7. alias # None => Live(alias)
  BY <1>3 DEF Init, Live, Concepts
<1>8. ASSUME NEW t \in Txs PROVE WellFiled(t)
  <2>1. tx[t] = Unfiled \/ \E c \in Names : concept[c].made /\ tx[t] = Found(c)
    BY DEF Init
  <2>2. CASE tx[t] = Unfiled
    BY <2>2 DEF Unfiled, WellFiled
  <2>3. ASSUME NEW c \in Names, concept[c].made, tx[t] = Found(c) PROVE WellFiled(t)
    <3>1. c \in Concepts
      BY DEF Concepts
    <3>2. sub[concept[c].sub].made
      BY <2>3, <3>1 DEF Init
    <3>3. concept[c].sub \in Subs
      <4>1. concept[c] \in {Absent} \cup [made : {TRUE}, sub : Subs, into : {None}]
        BY <3>1 DEF Init
      <4>2. ~Absent.made
        BY DEF Absent
      <4> QED
        BY <2>3, <4>1, <4>2
    <3> QED
      BY <1>3, <1>4, <2>3, <3>1, <3>2, <3>3 DEF WellFiled, Found, Live, LiveSub
  <2> QED
    BY <2>1, <2>2, <2>3
<1>9. \A p \in Procs : ReadTwo(p)
  BY DEF Init, ReadTwo, Idle
<1> QED
  BY <1>5, <1>6, <1>7, <1>8, <1>9 DEF LInv, Left

\* What a decision files a transaction under: a concept that is not merged, is of the
\* decision's subcategory, and was nobody else's if it was another one's before.
LEMMA EnsuredConcept ==
  ASSUME TypeOK, NEW q \in Decision, Seen(q) = concept, NEW g \in Subs,
         NEW c \in Concepts \cup {None}, EnsureConcept(q, g, c)
  PROVE  /\ \A d \in Concepts : concept'[d].into = concept[d].into
         /\ \A d \in Concepts : concept[d].made => concept'[d].made
         /\ \A d \in Concepts : \/ concept[d].made => concept'[d].sub = concept[d].sub
                                \/ Filed(d) \ {q.tx} = {}
         /\ c # None => concept'[c].made /\ concept'[c].into = None /\ concept'[c].sub = g
<1>1. DOMAIN concept = Concepts /\ \A d \in Concepts : concept[d] \in ConceptRow
  BY DEF TypeOK
<1>2. CASE q.name = None
  BY <1>2 DEF EnsureConcept
<1>3. ASSUME NEW e \in Concepts, concept[e].into = None, Adopt(concept, e, g)
      PROVE  /\ \A d \in Concepts : concept'[d].into = concept[d].into
             /\ \A d \in Concepts : concept[d].made => concept'[d].made
             /\ \A d \in Concepts : concept[d].made => concept'[d].sub = concept[d].sub
             /\ concept'[e].made /\ concept'[e].into = None /\ concept'[e].sub = g
  BY <1>1, <1>3 DEF Adopt
<1>4. ASSUME NEW r \in Concepts, concept[r].made, concept[r].into = None, ~OtherSupport(r, q.tx),
             concept' = [concept EXCEPT ![r].sub = g]
      PROVE  /\ \A d \in Concepts : concept'[d].into = concept[d].into
             /\ \A d \in Concepts : concept[d].made => concept'[d].made
             /\ \A d \in Concepts : d # r => concept'[d].sub = concept[d].sub
             /\ Filed(r) \ {q.tx} = {}
             /\ concept'[r].made /\ concept'[r].into = None /\ concept'[r].sub = g
  <2>1. concept[r] \in ConceptRow
    BY <1>1
  <2>2. concept'[r] = [concept[r] EXCEPT !.sub = g]
    BY <1>1, <1>4
  <2> QED
    BY <1>1, <1>4, <2>1, <2>2 DEF ConceptRow, OtherSupport
<1>5. CASE q.name # None
  <2>1. PICK r \in Concepts :
          /\ concept[r].into = None
          /\ \/ c = r /\ Adopt(concept, r, g)
             \/ /\ concept[r].made /\ ~OtherSupport(r, q.tx)
                /\ c = r /\ concept' = [concept EXCEPT ![r].sub = g]
             \/ c # None /\ concept[c].into = None /\ Adopt(concept, c, g)
    BY <1>5, Zenon DEF EnsureConcept, Resolved
  <2>2. CASE c = r /\ Adopt(concept, r, g)
    BY <1>3, <2>1, <2>2
  <2>3. CASE /\ concept[r].made /\ ~OtherSupport(r, q.tx)
             /\ c = r /\ concept' = [concept EXCEPT ![r].sub = g]
    BY <1>4, <2>1, <2>3
  <2>4. CASE c # None /\ concept[c].into = None /\ Adopt(concept, c, g)
    BY <1>3, <2>4
  <2> QED
    BY <2>1, <2>2, <2>3, <2>4
<1> QED
  BY <1>2, <1>5

LEMMA SettleLeft ==
  ASSUME IInv, Left, NEW p \in Procs, Settle(p), ~outdated'
  PROVE  Left'
<1> DEFINE q == session[p]
<1>1. TypeOK
  BY DEF IInv
<1>2. q \in Decision
  <2>1. q \in Session /\ q.at = "locked"
    BY <1>1 DEF Settle, TypeOK
  <2> QED
    BY <2>1, SessionAt
<1>3. PICK g \in Subs, c \in Concepts \cup {None} :
        /\ Resolved(sub, q.sub, g)
        /\ EnsureConcept(q, g, c)
        /\ sub' = [sub EXCEPT ![g].made = TRUE]
        /\ alias' = AliasAfter(q, c)
        /\ tx' = [tx EXCEPT ![q.tx] =
             [concept |-> c, sub |-> g, said |-> <<q.name, q.sub>>, by |-> q.by,
              version |-> NextVersion(q.tx)]]
  BY DEF Settle
<1>4. Seen(q) = concept
  BY DEF Settle
<1>5. q.tx \in Txs
  BY <1>2 DEF Decision
<1> HIDE DEF q
<1>6. /\ \A d \in Concepts : concept'[d].into = concept[d].into
      /\ \A d \in Concepts : concept[d].made => concept'[d].made
      /\ \A d \in Concepts : \/ concept[d].made => concept'[d].sub = concept[d].sub
                             \/ Filed(d) \ {q.tx} = {}
      /\ c # None => concept'[c].made /\ concept'[c].into = None /\ concept'[c].sub = g
  BY <1>1, <1>2, <1>3, <1>4, EnsuredConcept
<1>7. DOMAIN concept = Concepts /\ DOMAIN concept' = Concepts
  BY <1>1, <1>2, <1>3, EnsureConceptType DEF TypeOK
<1>8. Ends(concept)'
  <2>1. Ends(concept')
    BY <1>6, <1>7, SameMerges DEF Left
  <2> QED
    BY <2>1 DEF Ends, Ranked, Merged
<1>9. /\ DOMAIN sub = Subs /\ DOMAIN sub' = Subs
      /\ \A s \in Subs : sub'[s].into = sub[s].into
      /\ \A s \in Subs : sub[s].made => sub'[s].made
      /\ sub'[g].made /\ sub'[g].into = None
  <2>1. sub[g] \in SubRow /\ DOMAIN sub = Subs
    BY <1>1 DEF TypeOK
  <2>2. sub'[g] = [sub[g] EXCEPT !.made = TRUE]
    BY <1>3, <2>1
  <2>3. sub[g].into = None
    BY <1>3 DEF Resolved
  <2> QED
    BY <1>3, <2>1, <2>2, <2>3 DEF SubRow
<1>10. Ends(sub)'
  <2>1. Ends(sub')
    BY <1>9, SameMerges DEF Left
  <2> QED
    BY <2>1 DEF Ends, Ranked, Merged
<1>11. alias' # None => Live(alias)'
  <2>1. alias' \in {alias, c, None}
    BY <1>3 DEF AliasAfter
  <2>2. ASSUME alias # None PROVE Live(alias) /\ alias \in Concepts
    BY <1>1, <2>2 DEF Left, TypeOK
  <2> QED
    BY <1>3, <1>6, <2>1, <2>2 DEF Live, AliasAfter
<1>12. ASSUME NEW t \in Txs PROVE WellFiled(t)'
  <2>1. CASE t = q.tx
    <3>1. tx'[t].concept = c /\ tx'[t].sub = g
      BY <1>1, <1>3, <2>1 DEF TypeOK
    <3> QED
      BY <1>6, <1>9, <3>1 DEF WellFiled, Live, LiveSub
  <2>2. CASE t # q.tx
    <3>1. tx'[t] = tx[t]
      BY <1>1, <1>3, <2>2 DEF TypeOK
    <3>2. WellFiled(t) /\ tx[t] \in TxRow
      BY <1>1 DEF Left, TypeOK
    <3>3. SUFFICES ASSUME tx[t].by # "none"
                   PROVE  /\ tx[t].sub \in Subs /\ LiveSub(tx[t].sub)'
                          /\ tx[t].concept # None => /\ Live(tx[t].concept)'
                                                     /\ concept'[tx[t].concept].sub = tx[t].sub
      BY <3>1 DEF WellFiled, LiveSub, Live
    <3>4. tx[t].sub \in Subs /\ LiveSub(tx[t].sub)
      BY <3>2, <3>3 DEF WellFiled
    <3>5. LiveSub(tx[t].sub)'
      BY <1>9, <3>1, <3>4 DEF LiveSub
    <3>6. ASSUME NEW d \in Concepts, d = tx[t].concept, d # None
          PROVE  /\ concept'[d].made /\ concept'[d].into = None
                 /\ concept'[d].sub = tx[t].sub
      <4>1. concept[d].made /\ concept[d].into = None /\ concept[d].sub = tx[t].sub
        BY <3>2, <3>3, <3>6 DEF WellFiled, Live
      <4>2. t \in Filed(d) \ {q.tx}
        BY <2>2, <3>6 DEF Filed
      <4> QED
        BY <1>6, <4>1, <4>2
    <3>7. tx[t].concept \in Concepts \cup {None}
      BY <3>2 DEF TxRow
    <3> QED
      BY <3>1, <3>4, <3>5, <3>6, <3>7 DEF Live
  <2> QED
    BY <2>1, <2>2
<1> QED
  BY <1>8, <1>10, <1>11, <1>12 DEF Left

\* What is filed away in a merge or a renaming was classified.
LEMMA RefiledWasClassified ==
  ASSUME LedgerAgrees, NEW ts, NEW c, NEW s, Refile(ts, c, s), NEW t \in Txs, t \in ts
  PROVE  tx[t].by # "none"
BY DEF LedgerAgrees, Refile, Consistent

LEMMA MergeConceptsLeft ==
  ASSUME IInv, Left, NEW p \in Procs, ReadTwo(p), MergeConcepts(p), ~outdated'
  PROVE  Left'
<1> DEFINE q == session[p]
<1>1. TypeOK /\ LedgerAgrees
  BY DEF IInv
<1>2. q \in ConceptMerge
  <2>1. q \in Session /\ q.at = "held" /\ q.kind = "concepts"
    BY <1>1 DEF MergeConcepts, TypeOK
  <2> QED
    BY <2>1, MergeKind
<1>3. q.source \in Concepts /\ q.target \in Concepts
  BY <1>2 DEF ConceptMerge
<1>4. /\ q.from = concept[q.source] /\ q.onto = concept[q.target]
      /\ q.from.into = None /\ q.onto.into = None /\ q.from.sub = q.onto.sub
      /\ q.onto.made /\ q.source # q.target
  BY DEF MergeConcepts, Stale, Unmerged, ReadTwo
<1>5. /\ Refile(Filed(q.source), q.target, q.onto.sub)
      /\ alias' = IF alias = q.source THEN q.target ELSE alias
      /\ concept' = [concept EXCEPT ![q.source].into = q.target]
      /\ sub' = sub
  BY DEF MergeConcepts
<1>6. q.source # None /\ q.target # None
  BY <1>3, NoneIsApart
<1> HIDE DEF q
<1>7. /\ DOMAIN concept = Concepts /\ DOMAIN concept' = Concepts
      /\ \A d \in Concepts : d # q.source => concept'[d] = concept[d]
      /\ concept'[q.source].into = q.target
  <2>1. concept[q.source] \in ConceptRow /\ DOMAIN concept = Concepts
    BY <1>1, <1>3 DEF TypeOK
  <2>2. concept'[q.source] = [concept[q.source] EXCEPT !.into = q.target]
    BY <1>3, <1>5, <2>1
  <2> QED
    BY <1>3, <1>5, <2>1, <2>2 DEF ConceptRow
<1>8. Ends(concept)'
  <2>1. concept[q.source].into = None /\ concept[q.target].into = None
    BY <1>4
  <2>2. \A c \in Concepts : concept'[c].into = IF c = q.source THEN q.target ELSE concept[c].into
    BY <1>7
  <2>3. Ends(concept)
    BY DEF Left
  <2>4. Ends(concept')
    BY <1>3, <1>4, <1>7, <2>1, <2>2, <2>3, FiniteConcepts, OneMore
  <2> QED
    BY <2>4 DEF Ends, Ranked, Merged
<1>9. Ends(sub)'
  BY <1>5 DEF Left, Ends, Ranked, Merged
<1>10. alias' # None => Live(alias)'
  <2>1. alias \in Concepts \cup {None}
    BY <1>1 DEF TypeOK
  <2> QED
    BY <1>3, <1>4, <1>5, <1>7, <2>1 DEF Left, Live
<1>11. ASSUME NEW t \in Txs PROVE WellFiled(t)'
  <2>1. WellFiled(t) /\ tx[t].concept \in Concepts \cup {None}
    BY <1>1 DEF Left, TypeOK, TxRow
  <2>2. CASE t \in Filed(q.source)
    <3>1. tx[t].by # "none" /\ tx[t].concept = q.source
      BY <1>1, <1>5, <2>2, RefiledWasClassified DEF Filed
    <3>2. tx[t].sub \in Subs /\ LiveSub(tx[t].sub) /\ q.onto.sub = tx[t].sub
      BY <1>4, <1>6, <2>1, <3>1 DEF WellFiled
    <3>3. tx'[t].concept = q.target /\ tx'[t].sub = q.onto.sub
      BY <1>5, <1>6, <2>2 DEF Refile
    <3>4. concept'[q.target] = q.onto
      BY <1>3, <1>4, <1>7
    <3> QED
      BY <1>4, <1>5, <3>2, <3>3, <3>4 DEF WellFiled, Live, LiveSub
  <2>3. CASE t \notin Filed(q.source)
    <3>1. tx'[t] = tx[t] /\ tx[t].concept # q.source
      BY <1>5, <2>3 DEF Refile, Filed
    <3> QED
      BY <1>5, <1>7, <2>1, <3>1 DEF WellFiled, Live, LiveSub
  <2> QED
    BY <2>2, <2>3
<1> QED
  BY <1>8, <1>9, <1>10, <1>11 DEF Left

LEMMA MergeSubcategoriesLeft ==
  ASSUME IInv, Left, NEW p \in Procs, ReadTwo(p), MergeSubcategories(p), ~outdated'
  PROVE  Left'
<1> DEFINE q == session[p]
<1>1. TypeOK /\ LedgerAgrees
  BY DEF IInv
<1>2. q \in SubMerge
  <2>1. q \in Session /\ q.at = "held" /\ q.kind = "subcategories"
    BY <1>1 DEF MergeSubcategories, TypeOK
  <2> QED
    BY <2>1, MergeKind
<1>3. q.source \in Subs /\ q.target \in Subs
  BY <1>2 DEF SubMerge
<1>4. /\ q.from = sub[q.source] /\ q.onto = sub[q.target]
      /\ q.from.into = None /\ q.onto.into = None
      /\ q.onto.made /\ q.source # q.target
  BY DEF MergeSubcategories, Stale, Unmerged, ReadTwo
<1>5. /\ Refile(FiledUnder(q.source), None, q.target)
      /\ concept' = [c \in Concepts |->
           IF concept[c].made /\ concept[c].sub = q.source /\ concept[c].into = None
           THEN [concept[c] EXCEPT !.sub = q.target] ELSE concept[c]]
      /\ sub' = [sub EXCEPT ![q.source].into = q.target]
      /\ alias' = alias
  BY DEF MergeSubcategories
<1> HIDE DEF q
<1>6. /\ DOMAIN sub = Subs /\ DOMAIN sub' = Subs
      /\ \A s \in Subs : s # q.source => sub'[s] = sub[s]
      /\ sub'[q.source].into = q.target
  <2>1. sub[q.source] \in SubRow /\ DOMAIN sub = Subs
    BY <1>1, <1>3 DEF TypeOK
  <2>2. sub'[q.source] = [sub[q.source] EXCEPT !.into = q.target]
    BY <1>3, <1>5, <2>1
  <2> QED
    BY <1>3, <1>5, <2>1, <2>2 DEF SubRow
<1>7. /\ DOMAIN concept = Concepts /\ DOMAIN concept' = Concepts
      /\ \A c \in Concepts : concept'[c].into = concept[c].into /\ concept'[c].made = concept[c].made
      /\ \A c \in Concepts : concept[c].made /\ concept[c].into = None =>
           concept'[c].sub = IF concept[c].sub = q.source THEN q.target ELSE concept[c].sub
  <2> SUFFICES ASSUME NEW c \in Concepts
               PROVE  /\ concept'[c].into = concept[c].into /\ concept'[c].made = concept[c].made
                      /\ concept[c].made /\ concept[c].into = None =>
                           concept'[c].sub = IF concept[c].sub = q.source THEN q.target
                                             ELSE concept[c].sub
    BY <1>1, <1>5 DEF TypeOK
  <2>1. concept[c] \in ConceptRow
    BY <1>1 DEF TypeOK
  <2>2. concept'[c] = IF concept[c].made /\ concept[c].sub = q.source /\ concept[c].into = None
                      THEN [concept[c] EXCEPT !.sub = q.target] ELSE concept[c]
    BY <1>5
  <2> QED
    BY <2>1, <2>2 DEF ConceptRow
<1>8. Ends(concept)'
  <2>1. Ends(concept')
    BY <1>7, SameMerges DEF Left
  <2> QED
    BY <2>1 DEF Ends, Ranked, Merged
<1>9. Ends(sub)'
  <2>1. sub[q.source].into = None /\ sub[q.target].into = None
    BY <1>4
  <2>2. \A s \in Subs : sub'[s].into = IF s = q.source THEN q.target ELSE sub[s].into
    BY <1>6
  <2>3. Ends(sub)
    BY DEF Left
  <2>4. Ends(sub')
    BY <1>3, <1>4, <1>6, <2>1, <2>2, <2>3, RowsAreFinite, OneMore
  <2> QED
    BY <2>4 DEF Ends, Ranked, Merged
<1>10. alias' # None => Live(alias)'
  <2>1. alias \in Concepts \cup {None}
    BY <1>1 DEF TypeOK
  <2> QED
    BY <1>5, <1>7, <2>1 DEF Left, Live
<1>11. ASSUME NEW t \in Txs PROVE WellFiled(t)'
  <2>1. WellFiled(t) /\ tx[t].concept \in Concepts \cup {None}
    BY <1>1 DEF Left, TypeOK, TxRow
  <2>2. CASE t \in FiledUnder(q.source)
    <3>1. tx[t].by # "none" /\ tx[t].sub = q.source
      BY <1>1, <1>5, <2>2, RefiledWasClassified DEF FiledUnder
    <3>2. tx'[t].concept = tx[t].concept /\ tx'[t].sub = q.target
      BY <1>5, <2>2 DEF Refile
    <3>3. sub'[q.target] = q.onto
      BY <1>3, <1>4, <1>6
    <3>4. sub'[q.target].made /\ sub'[q.target].into = None
      BY <1>4, <3>3
    <3>5. ASSUME tx[t].concept # None
          PROVE  /\ concept'[tx[t].concept].made /\ concept'[tx[t].concept].into = None
                 /\ concept'[tx[t].concept].sub = q.target
      BY <1>7, <2>1, <3>1, <3>5 DEF WellFiled, Live
    <3> QED
      BY <1>3, <3>2, <3>4, <3>5 DEF WellFiled, Live, LiveSub
  <2>3. CASE t \notin FiledUnder(q.source)
    <3>1. tx'[t] = tx[t] /\ tx[t].sub # q.source
      BY <1>5, <2>3 DEF Refile, FiledUnder
    <3> QED
      BY <1>6, <1>7, <2>1, <3>1 DEF WellFiled, Live, LiveSub
  <2> QED
    BY <2>2, <2>3
<1> QED
  BY <1>8, <1>9, <1>10, <1>11 DEF Left

LEMMA SameEnds ==
  ASSUME Ends(concept), Ends(sub), UNCHANGED <<concept, sub>>
  PROVE  Ends(concept)' /\ Ends(sub)'
<1>1. Ends(concept') /\ Ends(sub')
  OBVIOUS
<1> QED
  BY <1>1 DEF Ends, Ranked, Merged

LEMMA RenameLeft ==
  ASSUME IInv, Left, NEW p \in Procs, NEW s \in Subs, RenameSubcategory(p, s)
  PROVE  Left'
<1>1. Refile(FiledUnder(s), None, s) /\ UNCHANGED <<concept, sub, alias>>
  BY DEF RenameSubcategory
<1>2. ASSUME NEW t \in Txs PROVE WellFiled(t)'
  <2>1. WellFiled(t)
    BY DEF Left
  <2>2. CASE t \in FiledUnder(s)
    <3>1. tx[t].by # "none" /\ tx[t].sub = s
      BY <1>1, <2>2, RefiledWasClassified DEF FiledUnder, IInv
    <3>2. tx'[t].concept = tx[t].concept /\ tx'[t].sub = s
      BY <1>1, <2>2 DEF Refile
    <3> QED
      BY <1>1, <2>1, <3>1, <3>2 DEF WellFiled, Live, LiveSub
  <2>3. CASE t \notin FiledUnder(s)
    <3>1. tx'[t] = tx[t]
      BY <1>1, <2>3 DEF Refile
    <3> QED
      BY <1>1, <2>1, <3>1 DEF WellFiled, Live, LiveSub
  <2> QED
    BY <2>2, <2>3
<1>3. Ends(concept)' /\ Ends(sub)'
  BY <1>1, SameEnds DEF Left
<1> QED
  BY <1>1, <1>2, <1>3 DEF Left, Live

LEMMA FrameLeft ==
  ASSUME Left, UNCHANGED <<concept, sub, alias, tx>>
  PROVE  Left'
<1>1. \A t \in Txs : WellFiled(t)'
  BY DEF Left, WellFiled, Live, LiveSub
<1>2. Ends(concept)' /\ Ends(sub)'
  BY SameEnds DEF Left
<1> QED
  BY <1>1, <1>2 DEF Left, Live

-----------------------------------------------------------------------------
(* What merges have read *)

LEMMA ReadTwoKept ==
  ASSUME TypeOK, Next, \A p \in Procs : ReadTwo(p)
  PROVE  \A p \in Procs : ReadTwo(p)'
<1>1. ASSUME NEW p \in Procs, session'[p].at \in {"idle", "locked"},
             \A r \in Procs : r # p => session'[r] = session[r]
      PROVE  \A r \in Procs : ReadTwo(r)'
  BY <1>1 DEF ReadTwo
<1>2. ASSUME NEW p \in Procs, NEW by \in {"auto", "user"}, NEW t \in Txs,
             NEW name \in Names \cup {None}, NEW s \in Subs, Lock(p, by, t, name, s)
      PROVE  \A r \in Procs : ReadTwo(r)'
  <2>1. session'[p].at = "locked" /\ \A r \in Procs : r # p => session'[r] = session[r]
    BY <1>2 DEF TypeOK, Lock
  <2> QED
    BY <1>1, <2>1
<1>3. ASSUME NEW p \in Procs,
             Settle(p) \/ MergeConcepts(p) \/ MergeSubcategories(p) \/ Fail(p)
      PROVE  \A r \in Procs : ReadTwo(r)'
  <2>1. Leave(p)
    BY <1>3 DEF Settle, MergeConcepts, MergeSubcategories, Fail
  <2>2. session'[p].at = "idle" /\ \A r \in Procs : r # p => session'[r] = session[r]
    BY <2>1, LeaveMine DEF Idle
  <2> QED
    BY <1>1, <2>2
<1>4. ASSUME NEW p \in Procs, NEW kind, NEW source, NEW target, Preview(p, kind, source, target)
      PROVE  \A r \in Procs : ReadTwo(r)'
  <2>1. /\ session'[p].onto.made /\ session'[p].source # session'[p].target
        /\ \A r \in Procs : r # p => session'[r] = session[r]
    BY <1>4 DEF TypeOK, Preview
  <2> QED
    BY <2>1 DEF ReadTwo
<1>5. ASSUME NEW p \in Procs, Hold(p)
      PROVE  \A r \in Procs : ReadTwo(r)'
  <2>1. session[p] \in ConceptMerge \cup SubMerge
    BY <1>5, SessionAt DEF TypeOK, Hold
  <2>2. session[p].onto.made /\ session[p].source # session[p].target
    BY <1>5 DEF Hold, ReadTwo
  <2>3. session'[p] = [session[p] EXCEPT !.at = "held"]
    BY <1>5 DEF TypeOK, Hold
  <2>4. /\ session'[p].onto = session[p].onto /\ session'[p].source = session[p].source
        /\ session'[p].target = session[p].target
    BY <2>1, <2>3 DEF ConceptMerge, SubMerge
  <2>5. \A r \in Procs : r # p => session'[r] = session[r]
    BY <1>5 DEF TypeOK, Hold
  <2> QED
    BY <2>2, <2>4, <2>5 DEF ReadTwo
<1>6. ASSUME NEW p \in Procs, NEW s \in Subs, RenameSubcategory(p, s)
      PROVE  \A r \in Procs : ReadTwo(r)'
  BY <1>6 DEF RenameSubcategory, ReadTwo
<1> QED
  BY <1>2, <1>3, <1>4, <1>5, <1>6 DEF Next

LEMMA StepLInv ==
  ASSUME IInv, LInv, [Next]_vars
  PROVE  LInv'
<1>1. CASE UNCHANGED vars
  BY <1>1, FrameLeft DEF LInv, vars, ReadTwo
<1>2. CASE Next
  <2>1. \A p \in Procs : ReadTwo(p)'
    BY <1>2, ReadTwoKept DEF IInv, LInv
  <2>2. ASSUME ~outdated' PROVE Left'
    <3>1. ASSUME NEW p \in Procs,
                 \/ \E by \in {"auto", "user"}, t \in Txs, name \in Names \cup {None}, s \in Subs :
                      Lock(p, by, t, name, s)
                 \/ \E a, b \in Concepts : Preview(p, "concepts", a, b)
                 \/ \E a, b \in Subs : Preview(p, "subcategories", a, b)
                 \/ Hold(p)
                 \/ Fail(p)
          PROVE  UNCHANGED <<concept, sub, alias, tx, outdated>>
      BY <3>1 DEF Lock, Preview, Hold, Fail
    <3>2. ASSUME NEW p \in Procs
          PROVE  /\ Settle(p) => ~outdated
                 /\ MergeConcepts(p) => ~outdated
                 /\ MergeSubcategories(p) => ~outdated
                 /\ \A s \in Subs : RenameSubcategory(p, s) => ~outdated
      BY <2>2 DEF Settle, MergeConcepts, MergeSubcategories, RenameSubcategory
    <3>3. ~outdated => Left
      BY DEF LInv
    <3>4. \A p \in Procs : ReadTwo(p)
      BY DEF LInv
    <3> QED
      BY <1>2, <2>2, <3>1, <3>2, <3>3, <3>4, FrameLeft, SettleLeft, MergeConceptsLeft,
         MergeSubcategoriesLeft, RenameLeft DEF Next
  <2> QED
    BY <2>1, <2>2 DEF LInv
<1> QED
  BY <1>1, <1>2

\* As long as no request was committed from outdated copies of the rows it read, every
\* chain of merges ends, nothing points to a row merged away, and a transaction has the
\* subcategory of its concept - for any taxonomy and any number of owners and jobs.
THEOREM MergedStaysLeft == Spec => []MergedIsLeft
<1>1. Spec => []LInv
  <2>1. IInv /\ LInv /\ [Next]_vars => LInv'
    BY StepLInv
  <2> QED
    BY <2>1, InitLInv, Inductive, PTL DEF Spec
<1>2. IInv /\ LInv => MergedIsLeft
  <2> SUFFICES ASSUME IInv, LInv, ~outdated PROVE MergedIsLeft
    BY DEF MergedIsLeft
  <2>1. Left
    BY DEF LInv
  <2>2. DOMAIN concept = Concepts /\ DOMAIN sub = Subs
    BY DEF IInv, TypeOK
  <2>3. \A c \in Concepts : \E e \in Concepts : Resolved(concept, c, e)
    BY <2>1, <2>2, FiniteConcepts, ChainsEnd DEF Left
  <2>4. \A s \in Subs : \E e \in Subs : Resolved(sub, s, e)
    BY <2>1, <2>2, RowsAreFinite, ChainsEnd DEF Left
  <2> QED
    BY <2>1, <2>3, <2>4 DEF MergedIsLeft, MergesEnd, Left, WellFiled
<1> QED
  BY <1>1, <1>2, Inductive, PTL

=============================================================================
