-------------------------- MODULE PlaidSyncProofs --------------------------
(***************************************************************************)
(* Proofs about PlaidSync, for any transactions, processes, page size and  *)
(* bounds, in production and in development: type correctness, that a      *)
(* processed event was read, that nobody is asked twice, and, as long as   *)
(* syncs do not overlap, that rows keep up with the cursor and that what   *)
(* was replaced is gone.                                                   *)
(***************************************************************************)
EXTENDS PlaidSync, SequenceTheorems, TLAPS

Gone == {"none", "removed", "undoing"}

-----------------------------------------------------------------------------
(* The inductive invariants, each on top of those before it.               *)

\* Every update of t that shows it shows it pending.
Early(t) == \A i \in DOMAIN feed : feed[i].tx = t /\ feed[i].kind = "put" => feed[i].pending

\* A transaction that replaces p does it in all its updates, and p had appeared before,
\* was never settled and is removed.
Replaces(i, p) ==
  /\ feed[i].kind = "put" /\ p # feed[i].tx /\ Early(p)
  /\ \E j \in DOMAIN feed : j < i /\ feed[j].tx = p /\ feed[j].kind = "put"
  /\ \E j \in DOMAIN feed : feed[j].tx = p /\ feed[j].kind = "drop"

\* A removal is the last update of a transaction; only the first can be pending.
FeedOK ==
  /\ \A i, j \in DOMAIN feed : i < j /\ feed[i].tx = feed[j].tx =>
       /\ feed[i].kind = "put"
       /\ feed[j].kind = "put" => ~feed[j].pending /\ feed[j].replaces = feed[i].replaces
  /\ \A i \in DOMAIN feed : feed[i].replaces # None => Replaces(i, feed[i].replaces)

\* A row, or the copy of it in a session: one that does not exist is empty, and one of a
\* transaction that was never settled has no expense.
RowOK(t, row) ==
  /\ row.status = "none" => row = Absent
  /\ row.status # "none" => \E i \in DOMAIN feed : feed[i].tx = t
  /\ row.status # "none" /\ Early(t) => row.pending /\ ~row.expense

Exists(t) == rows[t].status # "none"

\* Where a sync is in its page, and that what it works on exists.
SessionOK(me) ==
  /\ me.start <= me.at /\ me.at <= Len(feed)
  /\ me.batch \subseteq (me.start + 1)..me.at
  /\ me.event # None => me.event \in DOMAIN events
  /\ me.pc \in {"fetch", "load", "write"} => ~me.over
  /\ me.pc = "ready" => me.over
  /\ me.pc = "fetch" \/ me.over => me.batch = {}
  /\ me.pc = "write" => /\ me.next \in me.batch /\ RowOK(feed[me.next].tx, me.row)
                        /\ me.row.status # "none" => Exists(feed[me.next].tx)
  /\ me.pc \in {"notify", "enqueue", "send"} => me.about \in Txs /\ Exists(me.about)
  /\ \A t \in me.ready : Exists(t)

ShapeInv ==
  /\ TypeOK
  /\ FeedOK
  /\ \A t \in Txs : RowOK(t, rows[t]) /\ (review[t] # "none" => Exists(t))
  /\ \A p \in Procs : /\ Syncing(p) => SessionOK(proc[p])
                      /\ proc[p].pc = "mark" => Exists(proc[p].about)

\* A sync that has fetched its last page is past what its event announced, and after
\* its pages a saved cursor is.
ReadsAll(me) ==
  me.event # None =>
    /\ ~me.more => me.at >= events[me.event].upto
    /\ me.over => ~me.more /\ read >= events[me.event].upto

ReadInv == ProcessedIsRead /\ \A p \in Procs : Syncing(p) => ReadsAll(proc[p])

Marked(t) == \E p \in Procs : proc[p].pc = "mark" /\ proc[p].about = t
Sends(p, t) == proc[p].pc = "send" /\ proc[p].about = t

\* In production the outbox event of a transaction stands for its message, and a message
\* too many for a delivery that lapsed.
ToldByOutbox ==
  /\ \A p \in Procs : proc[p].pc # "send"
  /\ \A t \in Txs :
       /\ review[t] = "none" => told[t] = 0 /\ ~Marked(t)
       /\ told[t] <= lapses + 1
       /\ review[t] = "due" /\ ~Marked(t) => told[t] <= lapses

\* In development a message is claimed before it is sent.
ToldByClaim ==
  /\ \A t \in Txs : review[t] = "none" /\ ~Marked(t) /\ told[t] <= 1
  /\ \A t \in Txs : told[t] = 1 => rows[t].sent
  /\ \A p \in Procs : proc[p].pc # "enqueue"
  /\ \A p \in Procs, t \in Txs : Sends(p, t) => told[t] = 0 /\ rows[t].sent
  /\ \A p, q \in Procs, t \in Txs : Sends(p, t) /\ Sends(q, t) => p = q

ToldInv == IF mode = "production" THEN ToldByOutbox ELSE ToldByClaim

\* The row shows update i, or something newer.
Shows(i) ==
  IF feed[i].kind = "put" THEN rows[feed[i].tx].version >= i ELSE rows[feed[i].tx].status \in Gone

\* What a sync has fetched it has applied, or still has in its page, in order; and the
\* row it has read is still the one that is there.
AppliesAll(me) ==
  ~me.over =>
    /\ me.start = cursor
    /\ \A i \in (me.start + 1)..me.at : i \in me.batch \/ Shows(i)
    /\ \A k \in me.batch : feed[k].kind = "put" => k..me.at \subseteq me.batch
    /\ me.pc = "write" =>
         LET now == rows[feed[me.next].tx]
         IN /\ ComesFirst(me.next, me.batch)
            /\ me.row.version = now.version
            /\ me.row.status = "none" <=> now.status = "none"
            /\ me.row.status \in Gone => now.status \in Gone

ReplacedGoes ==
  \A i \in DOMAIN feed : feed[i].replaces # None /\ Exists(feed[i].tx) =>
    rows[feed[i].replaces].status \in {"removed", "undoing"}

SteadyInv ==
  steady =>
    /\ \A p, q \in Procs : Syncing(p) /\ Syncing(q) => p = q
    /\ \A i \in 1..cursor : Shows(i)
    /\ \A p \in Procs : Syncing(p) => AppliesAll(proc[p])
    /\ ReplacedGoes

-----------------------------------------------------------------------------
(* What a step may do to feed, events and rows.                            *)

FeedGrows ==
  /\ feed' \in Seq(PlaidUpdate) /\ Len(feed) <= Len(feed') /\ Len(feed') <= MaxFeed + 1
  /\ \A i \in DOMAIN feed : feed'[i] = feed[i]

EventsGrow ==
  /\ events' \in Seq(EventRow) /\ Len(events) <= Len(events')
  /\ \A e \in DOMAIN events' : events'[e].upto <= Len(feed')

RowsKept ==
  /\ rows' \in [Txs -> Row]
  /\ \A t \in Txs : (Exists(t) => Exists(t)') /\ RowOK(t, rows[t])'

LEMMA Positions ==
  ASSUME TypeOK
  PROVE  /\ DOMAIN feed = 1..Len(feed) /\ Len(feed) \in Nat
         /\ DOMAIN events = 1..Len(events) /\ Len(events) \in Nat
         /\ \A i \in 1..Len(feed) : feed[i] \in PlaidUpdate
         /\ \A e \in 1..Len(events) : events[e] \in EventRow
BY DEF TypeOK

LEMMA FeedStays == ASSUME ShapeInv, feed' = feed PROVE FeedGrows
BY DEF ShapeInv, TypeOK, FeedGrows

LEMMA EarlyShrinks ==
  ASSUME TypeOK, FeedGrows, NEW t, Early(t)'
  PROVE  Early(t)
BY Positions DEF Early, FeedGrows

LEMMA RowKept ==
  ASSUME TypeOK, FeedGrows, NEW t, NEW row, RowOK(t, row)
  PROVE  RowOK(t, row)'
<1>1. row.status # "none" => \E i \in DOMAIN feed' : feed'[i].tx = t
  BY Positions DEF RowOK, FeedGrows
<1> QED
  BY <1>1, EarlyShrinks DEF RowOK

LEMMA SessionKept ==
  ASSUME ShapeInv, FeedGrows, EventsGrow, \A t \in Txs : Exists(t) => Exists(t)',
         NEW me \in SyncSession, SessionOK(me)
  PROVE  SessionOK(me)'
<1> USE DEF ShapeInv
<1>1. me.at <= Len(feed')
  BY Positions DEF SessionOK, FeedGrows, SyncSession
<1>2. me.event # None => me.event \in DOMAIN events'
  BY Positions DEF SessionOK, EventsGrow
<1>3. ASSUME me.pc = "write"
      PROVE  /\ me.next \in me.batch /\ RowOK(feed[me.next].tx, me.row)'
             /\ me.row.status # "none" => Exists(feed[me.next].tx)'
  <2> DEFINE t == feed[me.next].tx
  <2>1. /\ me.next \in me.batch /\ RowOK(t, me.row)
        /\ me.row.status # "none" => Exists(t)
    BY <1>3 DEF SessionOK
  <2>2. me.next \in DOMAIN feed
    BY <2>1, Positions DEF SessionOK, SyncSession
  <2>3. feed'[me.next].tx = t /\ t \in Txs
    BY <2>2, Positions DEF FeedGrows, PlaidUpdate
  <2>4. RowOK(feed[me.next].tx, me.row)'
    BY <2>1, <2>3, RowKept
  <2>5. me.row.status # "none" => Exists(feed[me.next].tx)'
    BY <2>1, <2>3
  <2> QED
    BY <2>1, <2>4, <2>5
<1>4. \A t \in me.ready : Exists(t)'
  BY DEF SessionOK, SyncSession
<1>5. me.pc \in {"notify", "enqueue", "send"} => me.about \in Txs /\ Exists(me.about)'
  BY DEF SessionOK
<1> QED
  BY <1>1, <1>2, <1>3, <1>4, <1>5 DEF SessionOK

-----------------------------------------------------------------------------
(* Plaid *)

LEMMA AppendUpdate ==
  ASSUME ShapeInv, NEW x \in PlaidUpdate, feed' = Append(feed, x), Len(feed) < MaxFeed,
         \A i \in DOMAIN feed : feed[i].tx = x.tx =>
           feed[i].kind = "put" /\ (x.kind = "put" => ~x.pending /\ x.replaces = feed[i].replaces),
         x.replaces # None =>
           x.kind = "put" /\ \E i \in DOMAIN feed : feed[i].tx = x.tx /\ feed[i].replaces = x.replaces
  PROVE  FeedGrows /\ FeedOK'
<1> USE PlaidConstants
<1>1. /\ Len(feed') = Len(feed) + 1 /\ DOMAIN feed' = 1..(Len(feed) + 1)
      /\ feed'[Len(feed) + 1] = x
      /\ \A i \in DOMAIN feed : feed'[i] = feed[i] /\ i \in DOMAIN feed'
  BY Positions DEF ShapeInv, TypeOK
<1>2. FeedGrows
  BY <1>1, Positions DEF ShapeInv, TypeOK, FeedGrows
<1>3. ASSUME NEW i \in DOMAIN feed', NEW j \in DOMAIN feed', i < j, feed'[i].tx = feed'[j].tx
      PROVE  /\ feed'[i].kind = "put"
             /\ feed'[j].kind = "put" => ~feed'[j].pending /\ feed'[j].replaces = feed'[i].replaces
  <2>1. i \in DOMAIN feed
    BY <1>1, <1>3, Positions DEF ShapeInv
  <2>2. CASE j \in DOMAIN feed
    BY <1>1, <1>3, <2>1, <2>2 DEF ShapeInv, FeedOK
  <2>3. CASE j \notin DOMAIN feed
    <3>1. feed'[j] = x
      BY <1>1, <2>3, Positions DEF ShapeInv
    <3> QED
      BY <1>1, <1>3, <2>1, <3>1
  <2> QED
    BY <2>2, <2>3
<1>4. ASSUME NEW i \in DOMAIN feed, NEW p, p = feed[i].replaces, p # None
      PROVE  Replaces(i, p)'
  <2>1. Replaces(i, p)
    BY <1>4 DEF ShapeInv, FeedOK
  <2>2. PICK k \in DOMAIN feed : feed[k].tx = p /\ feed[k].kind = "drop"
    BY <2>1 DEF Replaces
  <2>3. x.tx # p
    BY <2>2
  <2>4. Early(p)'
    BY <1>1, <2>1, <2>3, Positions DEF ShapeInv, Early, Replaces
  <2>5. \E j \in DOMAIN feed' : j < i /\ feed'[j].tx = p /\ feed'[j].kind = "put"
    BY <1>1, <2>1 DEF Replaces
  <2>6. \E j \in DOMAIN feed' : feed'[j].tx = p /\ feed'[j].kind = "drop"
    BY <1>1, <2>1 DEF Replaces
  <2>7. feed'[i] = feed[i]
    BY <1>1
  <2> QED
    BY <2>1, <2>4, <2>5, <2>6, <2>7 DEF Replaces
<1>5. ASSUME NEW i \in DOMAIN feed', NEW p, p = feed'[i].replaces, p # None
      PROVE  Replaces(i, p)'
  <2>1. CASE i \in DOMAIN feed
    BY <1>1, <1>4, <1>5, <2>1
  <2>2. CASE i \notin DOMAIN feed
    <3>1. feed'[i] = x /\ i = Len(feed) + 1
      BY <1>1, <2>2, Positions DEF ShapeInv
    <3>2. PICK k \in DOMAIN feed : feed[k].tx = x.tx /\ feed[k].replaces = p
      BY <1>5, <3>1
    <3>3. Replaces(k, p)' /\ k < i
      BY <1>4, <1>5, <3>1, <3>2, Positions DEF ShapeInv
    <3>4. \E j \in DOMAIN feed' : j < i /\ feed'[j].tx = p /\ feed'[j].kind = "put"
      <4>1. PICK j \in DOMAIN feed' : j < k /\ feed'[j].tx = p /\ feed'[j].kind = "put"
        BY <3>3 DEF Replaces
      <4>2. j < i
        BY <1>1, <3>3, <4>1, Positions DEF ShapeInv
      <4> QED
        BY <4>1, <4>2
    <3>5. x.kind = "put" /\ feed'[k].tx = x.tx
      BY <1>1, <1>5, <3>1, <3>2
    <3> QED
      BY <3>1, <3>3, <3>4, <3>5 DEF Replaces
  <2> QED
    BY <2>1, <2>2
<1>6. \A i \in DOMAIN feed' : feed'[i].replaces # None => Replaces(i, feed[i].replaces)'
  BY <1>5
<1> QED
  BY <1>2, <1>3, <1>6 DEF FeedOK

\* A new transaction, together with the removal of the pending one it replaces.
LEMMA AppendReplacement ==
  ASSUME ShapeInv, NEW t \in Txs, NEW p \in Txs \ {t}, Updates(t) = {}, IsPending(p),
         NEW x \in PlaidUpdate, NEW y \in PlaidUpdate,
         x.tx = t, x.kind = "put", x.replaces = p, y.tx = p, y.kind = "drop", y.replaces = None,
         feed' = Append(Append(feed, x), y), Len(feed) < MaxFeed
  PROVE  FeedGrows /\ FeedOK'
<1> USE PlaidConstants
<1> DEFINE n == Len(feed)
<1>2. /\ Len(feed') = n + 2 /\ DOMAIN feed' = 1..(n + 2) /\ n \in Nat
      /\ feed'[n + 1] = x /\ feed'[n + 2] = y
      /\ \A i \in DOMAIN feed : feed'[i] = feed[i] /\ i \in DOMAIN feed'
      /\ feed' \in Seq(PlaidUpdate)
  <2> DEFINE half == Append(feed, x)
  <2>1. /\ half \in Seq(PlaidUpdate) /\ Len(half) = n + 1 /\ half[n + 1] = x
        /\ n \in Nat /\ \A i \in 1..n : half[i] = feed[i]
    BY DEF ShapeInv, TypeOK
  <2>2. feed' = Append(half, y)
    OBVIOUS
  <2> HIDE DEF half, n
  <2>3. /\ Len(feed') = n + 2 /\ DOMAIN feed' = 1..(n + 2) /\ feed'[n + 2] = y
        /\ feed' \in Seq(PlaidUpdate) /\ \A i \in 1..(n + 1) : feed'[i] = half[i]
    BY <2>1, <2>2
  <2> QED
    BY <2>1, <2>3, Positions DEF ShapeInv, n
<1>3. FeedGrows
  BY <1>2, Positions DEF ShapeInv, FeedGrows
<1>4. \A i \in DOMAIN feed : feed[i].tx # t
  BY Positions DEF Updates, ShapeInv
<1>5. PICK m \in DOMAIN feed : /\ feed[m].tx = p /\ feed[m].kind = "put" /\ feed[m].pending
                               /\ \A j \in DOMAIN feed : feed[j].tx = p => j <= m
  BY Positions DEF ShapeInv, IsPending, LatestBefore, Updates
<1>6. \A j \in DOMAIN feed : feed[j].tx = p => j = m
  BY <1>5, Positions DEF ShapeInv, FeedOK
<1>7. \A i \in DOMAIN feed' : i \in DOMAIN feed \/ i = n + 1 \/ i = n + 2
  BY <1>2, Positions DEF ShapeInv
<1>8. /\ feed'[n + 1].tx = t /\ feed'[n + 1].kind = "put" /\ feed'[n + 1].replaces = p
      /\ feed'[n + 2].tx = p /\ feed'[n + 2].kind = "drop" /\ feed'[n + 2].replaces = None
  BY <1>2
<1> HIDE DEF n
<1>9. ASSUME NEW i \in DOMAIN feed', NEW j \in DOMAIN feed', i < j, feed'[i].tx = feed'[j].tx
      PROVE  /\ feed'[i].kind = "put"
             /\ feed'[j].kind = "put" => ~feed'[j].pending /\ feed'[j].replaces = feed'[i].replaces
  <2>1. CASE i \in DOMAIN feed /\ j \in DOMAIN feed
    BY <1>2, <1>9, <2>1 DEF ShapeInv, FeedOK
  <2>2. CASE i \in DOMAIN feed /\ j \notin DOMAIN feed
    BY <1>2, <1>4, <1>5, <1>6, <1>7, <1>8, <1>9, <2>2
  <2>3. CASE i \notin DOMAIN feed
    <3>1. i = n + 1 /\ j = n + 2
      BY <1>2, <1>7, <1>9, <2>3, Positions DEF ShapeInv, n
    <3> QED
      BY <3>1, <1>8, <1>9
  <2> QED
    BY <2>1, <2>2, <2>3
<1>10. Early(p)'
  BY <1>2, <1>5, <1>6, <1>7, <1>8 DEF Early
<1>11. ASSUME NEW i \in DOMAIN feed', NEW q, q = feed'[i].replaces, q # None
       PROVE  Replaces(i, q)'
  <2>1. CASE i = n + 1
    <3>1. \E j \in DOMAIN feed' : j < i /\ feed'[j].tx = p /\ feed'[j].kind = "put"
      BY <1>2, <1>5, <2>1, Positions DEF ShapeInv, n
    <3>2. \E j \in DOMAIN feed' : feed'[j].tx = p /\ feed'[j].kind = "drop"
      BY <1>2, <1>8
    <3> QED
      BY <1>8, <1>10, <1>11, <2>1, <3>1, <3>2 DEF Replaces
  <2>2. CASE i \in DOMAIN feed
    <3>1. Replaces(i, q) /\ feed'[i] = feed[i]
      BY <1>2, <1>11, <2>2 DEF ShapeInv, FeedOK
    <3>2. q # t
      BY <1>4, <3>1 DEF Replaces
    <3>3. Early(q)'
      BY <1>2, <1>7, <1>8, <3>1, <3>2 DEF Early, Replaces
    <3>4. \E j \in DOMAIN feed' : j < i /\ feed'[j].tx = q /\ feed'[j].kind = "put"
      BY <1>2, <3>1 DEF Replaces
    <3>5. \E j \in DOMAIN feed' : feed'[j].tx = q /\ feed'[j].kind = "drop"
      BY <1>2, <3>1 DEF Replaces
    <3> QED
      BY <3>1, <3>3, <3>4, <3>5 DEF Replaces
  <2> QED
    BY <1>7, <1>8, <1>11, <2>1, <2>2
<1>12. \A i \in DOMAIN feed' : feed'[i].replaces # None => Replaces(i, feed[i].replaces)'
  BY <1>11
<1>13. \A i, j \in DOMAIN feed' : i < j /\ feed'[i].tx = feed'[j].tx =>
         /\ feed'[i].kind = "put"
         /\ feed'[j].kind = "put" => ~feed'[j].pending /\ feed'[j].replaces = feed'[i].replaces
  BY <1>9
<1> QED
  BY <1>3, <1>12, <1>13 DEF FeedOK

LEMMA UpdateGrows ==
  ASSUME ShapeInv, Update
  PROVE  FeedGrows /\ FeedOK'
<1>1. PICK t \in Txs :
       \/ \E pending \in BOOLEAN :
            /\ Updates(t) = {}
            /\ feed' = Append(feed, Put(t, pending, None))
       \/ \E p \in Txs \ {t} :
            /\ Updates(t) = {} /\ IsPending(p)
            /\ feed' = Append(Append(feed, Put(t, FALSE, p)), Drop(p))
       \/ \E i \in LatestBefore(t, Len(feed)) :
            /\ feed[i].kind = "put"
            /\ feed' = Append(feed, Put(t, FALSE, feed[i].replaces))
       \/ /\ Current(t)
          /\ feed' = Append(feed, Drop(t))
  BY DEF Update
<1>2. Len(feed) < MaxFeed
  BY DEF Update
<1>3. ASSUME NEW pending \in BOOLEAN, Updates(t) = {}, feed' = Append(feed, Put(t, pending, None))
      PROVE  FeedGrows /\ FeedOK'
  <2> DEFINE x == Put(t, pending, None)
  <2>1. x \in PlaidUpdate /\ x.tx = t /\ x.replaces = None
    BY DEF Put, PlaidUpdate
  <2>2. \A i \in DOMAIN feed : feed[i].tx # t
    BY <1>3, Positions DEF Updates, ShapeInv
  <2> HIDE DEF x
  <2>3. feed' = Append(feed, x)
    BY <1>3 DEF x
  <2> QED
    BY <1>2, <2>1, <2>2, <2>3, AppendUpdate
<1>4. ASSUME NEW p \in Txs \ {t}, Updates(t) = {}, IsPending(p),
             feed' = Append(Append(feed, Put(t, FALSE, p)), Drop(p))
      PROVE  FeedGrows /\ FeedOK'
  <2> DEFINE x == Put(t, FALSE, p)
             y == Drop(p)
  <2>1. /\ x \in PlaidUpdate /\ y \in PlaidUpdate
        /\ x.tx = t /\ x.kind = "put" /\ x.replaces = p
        /\ y.tx = p /\ y.kind = "drop" /\ y.replaces = None
    BY DEF Put, Drop, PlaidUpdate
  <2>2. feed' = Append(Append(feed, x), y)
    BY <1>4
  <2> HIDE DEF x, y
  <2> QED
    BY <1>2, <1>4, <2>1, <2>2, AppendReplacement
<1>5. ASSUME NEW i \in LatestBefore(t, Len(feed)), feed[i].kind = "put",
             feed' = Append(feed, Put(t, FALSE, feed[i].replaces))
      PROVE  FeedGrows /\ FeedOK'
  <2> DEFINE x == Put(t, FALSE, feed[i].replaces)
  <2>1. i \in DOMAIN feed /\ feed[i].tx = t /\ feed[i] \in PlaidUpdate
        /\ \A j \in DOMAIN feed : feed[j].tx = t => j <= i
    BY <1>5, Positions DEF LatestBefore, Updates, ShapeInv
  <2>2. x \in PlaidUpdate /\ x.tx = t /\ x.kind = "put" /\ ~x.pending /\ x.replaces = feed[i].replaces
    BY <2>1 DEF Put, PlaidUpdate
  <2>3. ASSUME NEW j \in DOMAIN feed, feed[j].tx = t
        PROVE  feed[j].kind = "put" /\ feed[j].replaces = feed[i].replaces
    <3>1. j = i \/ j < i
      BY <2>1, <2>3, Positions DEF ShapeInv
    <3> QED
      BY <1>5, <2>1, <2>3, <3>1 DEF ShapeInv, FeedOK
  <2> HIDE DEF x
  <2>4. feed' = Append(feed, x)
    BY <1>5 DEF x
  <2> QED
    BY <1>2, <2>1, <2>2, <2>3, <2>4, AppendUpdate
<1>6. ASSUME Current(t), feed' = Append(feed, Drop(t))
      PROVE  FeedGrows /\ FeedOK'
  <2> DEFINE x == Drop(t)
  <2>1. PICK i \in DOMAIN feed : /\ feed[i].tx = t /\ feed[i].kind = "put"
                                 /\ \A j \in DOMAIN feed : feed[j].tx = t => j <= i
    BY <1>6, Positions DEF Current, LatestBefore, Updates, ShapeInv
  <2>2. x \in PlaidUpdate /\ x.tx = t /\ x.kind = "drop" /\ x.replaces = None
    BY DEF Drop, PlaidUpdate
  <2>3. ASSUME NEW j \in DOMAIN feed, feed[j].tx = t
        PROVE  feed[j].kind = "put"
    <3>1. j = i \/ j < i
      BY <2>1, <2>3, Positions DEF ShapeInv
    <3> QED
      BY <2>1, <2>3, <3>1 DEF ShapeInv, FeedOK
  <2> HIDE DEF x
  <2>4. feed' = Append(feed, x)
    BY <1>6 DEF x
  <2> QED
    BY <1>2, <2>2, <2>3, <2>4, AppendUpdate
<1> QED
  BY <1>1, <1>3, <1>4, <1>5, <1>6

-----------------------------------------------------------------------------
(* Rows *)

LEMMA AbsentRow == Absent \in Row /\ Absent.status = "none" /\ ~Absent.pending
                   /\ Absent.version = 0 /\ ~Absent.expense /\ ~Absent.sent /\ ~Absent.queued
BY DEF Absent, Row

LEMMA WrittenRow ==
  ASSUME NEW now \in Row, NEW from \in Row, NEW to \in Row
  PROVE  /\ Written(now, from, to) \in Row
         /\ Written(now, from, to).status = IF to.status # from.status THEN to.status ELSE now.status
         /\ Written(now, from, to).pending =
              IF to.pending # from.pending THEN to.pending ELSE now.pending
         /\ Written(now, from, to).version =
              IF to.version # from.version THEN to.version ELSE now.version
         /\ Written(now, from, to).expense =
              IF to.expense # from.expense THEN to.expense ELSE now.expense
         /\ Written(now, from, to).sent = IF to.sent # from.sent THEN to.sent ELSE now.sent
BY DEF Written, Row

LEMMA WrittenSame ==
  ASSUME NEW now \in Row, NEW from
  PROVE  Written(now, from, from) = now
BY DEF Written, Row

LEMMA RemovedRow ==
  ASSUME NEW row \in Row
  PROVE  /\ Removed(row) \in Row
         /\ row.status = "none" => Removed(row) = row
         /\ row.status # "none" =>
              Removed(row).status = IF row.expense THEN "undoing" ELSE "removed"
         /\ Removed(row).pending = row.pending /\ Removed(row).version = row.version
         /\ Removed(row).expense = row.expense /\ Removed(row).sent = row.sent
BY DEF Removed, Row

LEMMA UpsertedRow ==
  ASSUME TypeOK, NEW row \in Row, NEW i \in DOMAIN feed, NEW again \in BOOLEAN,
         row.status = "none" => row = Absent
  PROVE  /\ Upserted(row, i, again) \in Row
         /\ Upserted(row, i, again).status # "none"
         /\ Upserted(row, i, again).status \in
              {row.status} \cup (IF row.status = "none" THEN {"ask"} ELSE {})
                           \cup (IF row.expense THEN {"reconcile"} ELSE {})
         /\ Upserted(row, i, again).pending = feed[i].pending
         /\ Upserted(row, i, again).version = i
         /\ Upserted(row, i, again).expense = row.expense
         /\ Upserted(row, i, again).sent = row.sent
<1>1. feed[i].pending \in BOOLEAN /\ i \in Nat
  BY Positions DEF PlaidUpdate
<1>2. CASE row.status = "none"
  BY <1>1, <1>2, AbsentRow DEF Upserted, Row
<1>3. CASE row.status # "none"
  BY <1>1, <1>3 DEF Upserted, Row
<1> QED
  BY <1>2, <1>3

\* What the update of a session does to the row of its transaction.
LEMMA RowWritten ==
  ASSUME ShapeInv, NEW i \in DOMAIN feed, NEW row \in Row, NEW again \in BOOLEAN,
         RowOK(feed[i].tx, row), row.status # "none" => Exists(feed[i].tx),
         feed[i].kind = "put" /\ row.status = "none" => ~Exists(feed[i].tx),
         NEW new,
         new = IF feed[i].kind = "put" THEN Written(rows[feed[i].tx], row, Upserted(row, i, again))
               ELSE IF row.expense THEN Removed(rows[feed[i].tx])
               ELSE Written(rows[feed[i].tx], row, Removed(row))
  PROVE  /\ new \in Row
         /\ RowOK(feed[i].tx, new)
         /\ Exists(feed[i].tx) => new.status # "none"
         /\ new.sent = rows[feed[i].tx].sent
<1> DEFINE t == feed[i].tx
           now == rows[t]
<1>1. t \in Txs /\ now \in Row /\ feed[i].kind \in {"put", "drop"}
  BY Positions DEF ShapeInv, TypeOK, PlaidUpdate
<1>2. RowOK(t, now)
  BY <1>1 DEF ShapeInv
<1>3. CASE feed[i].kind = "put"
  <2> DEFINE up == Upserted(row, i, again)
  <2>1. /\ up \in Row /\ up.status # "none" /\ up.pending = feed[i].pending
        /\ up.expense = row.expense /\ up.sent = row.sent
    BY UpsertedRow DEF RowOK, ShapeInv
  <2>2. /\ new \in Row
        /\ new.status = IF up.status # row.status THEN up.status ELSE now.status
        /\ new.pending = IF up.pending # row.pending THEN up.pending ELSE now.pending
        /\ new.expense = now.expense /\ new.sent = now.sent
    BY <1>1, <1>3, <2>1, WrittenRow
  <2>3. row.status = "none" => now.status = "none" /\ row = Absent /\ now = Absent
    BY <1>2, <1>3 DEF RowOK, Exists
  <2>4. row.status # "none" => now.status # "none"
    BY DEF Exists
  <2>5. new.status # "none"
    BY <2>1, <2>2, <2>3, <2>4
  <2>6. \E k \in DOMAIN feed : feed[k].tx = t
    OBVIOUS
  <2>7. ASSUME Early(t) PROVE new.pending /\ ~new.expense
    <3>1. feed[i].pending
      BY <1>3, <2>7 DEF Early
    <3>2. row.pending \in BOOLEAN /\ now.pending \in BOOLEAN
      BY <1>1 DEF Row
    <3>3. CASE row.status = "none"
      BY <2>1, <2>2, <2>3, <3>1, <3>3, AbsentRow
    <3>4. CASE row.status # "none"
      <4>1. row.pending /\ now.pending /\ ~now.expense
        BY <1>2, <2>4, <2>7, <3>4 DEF RowOK
      <4> QED
        BY <2>1, <2>2, <3>1, <4>1
    <3> QED
      BY <3>3, <3>4
  <2> QED
    BY <2>2, <2>5, <2>6, <2>7 DEF RowOK
<1>4. CASE feed[i].kind = "drop" /\ row.expense
  <2>1. new = Removed(now)
    BY <1>4
  <2> QED
    BY <1>1, <1>2, <2>1, RemovedRow DEF RowOK, Exists
<1>5. CASE feed[i].kind = "drop" /\ ~row.expense /\ row.status = "none"
  <2>1. new = now
    BY <1>1, <1>5, RemovedRow, WrittenSame
  <2> QED
    BY <1>1, <1>2, <2>1 DEF Exists
<1>6. CASE feed[i].kind = "drop" /\ ~row.expense /\ row.status # "none"
  <2>1. /\ Removed(row) \in Row /\ Removed(row).status = "removed"
        /\ Removed(row).pending = row.pending /\ Removed(row).expense = row.expense
        /\ Removed(row).sent = row.sent
    BY <1>6, RemovedRow
  <2>2. /\ new \in Row /\ new.status \in {"removed", now.status}
        /\ new.pending = now.pending /\ new.expense = now.expense /\ new.sent = now.sent
    BY <1>1, <1>6, <2>1, WrittenRow
  <2> QED
    BY <1>2, <1>6, <2>2 DEF RowOK, Exists
<1> QED
  BY <1>1, <1>3, <1>4, <1>5, <1>6

-----------------------------------------------------------------------------
(* Steps *)

\* The variables that are neither feed, events, rows nor proc.
RestOK ==
  /\ mode \in Modes /\ steady \in BOOLEAN
  /\ cursor \in 0..Len(feed) /\ read \in 0..Len(feed)
  /\ review \in [Txs -> {"none", "due", "done"}]
  /\ \A t \in Txs : review[t] # "none" => Exists(t)
  /\ told \in [Txs -> Nat]
  /\ lapses \in 0..trouble /\ trouble \in 0..MaxTrouble

ProcOK(me) ==
  /\ me \in {Idle} \cup SyncSession \cup Delivery
  /\ me \in SyncSession => SessionOK(me)
  /\ me \in Delivery => Exists(me.about)

StepKept ==
  /\ FeedGrows /\ FeedOK' /\ EventsGrow /\ RowsKept /\ RestOK'
  /\ proc' \in [Procs -> {Idle} \cup SyncSession \cup Delivery]
  /\ \A p \in Procs : ProcOK(proc[p])'

LEMMA ProcKinds ==
  ASSUME NEW me \in {Idle} \cup SyncSession \cup Delivery
  PROVE  /\ me.pc = "idle" <=> me = Idle
         /\ me.pc = "mark" <=> me \in Delivery
         /\ me.pc \notin {"idle", "mark"} <=> me \in SyncSession
BY DEF Idle, SyncSession, Delivery

LEMMA Parts ==
  ASSUME ShapeInv
  PROVE  /\ TypeOK /\ FeedOK /\ RestOK
         /\ \A t \in Txs : rows[t] \in Row /\ RowOK(t, rows[t])
         /\ \A p \in Procs : ProcOK(proc[p])
<1>1. \A p \in Procs : ProcOK(proc[p])
  BY ProcKinds DEF ShapeInv, TypeOK, ProcOK, Syncing
<1> QED
  BY <1>1 DEF ShapeInv, TypeOK, RestOK

LEMMA ShapeKept == ASSUME StepKept PROVE ShapeInv'
<1>1. TypeOK'
  BY DEF StepKept, FeedGrows, EventsGrow, RowsKept, RestOK, TypeOK
<1>2. \A p \in Procs : /\ Syncing(p)' => SessionOK(proc[p])'
                       /\ proc'[p].pc = "mark" => Exists(proc[p].about)'
  <2> SUFFICES ASSUME NEW p \in Procs
               PROVE  /\ Syncing(p)' => SessionOK(proc[p])'
                      /\ proc'[p].pc = "mark" => Exists(proc[p].about)'
    OBVIOUS
  <2>1. ProcOK(proc[p])'
    BY DEF StepKept
  <2>2. /\ proc'[p].pc = "mark" <=> proc'[p] \in Delivery
        /\ proc'[p].pc \notin {"idle", "mark"} <=> proc'[p] \in SyncSession
    BY ProcKinds DEF StepKept
  <2> QED
    BY <2>1, <2>2 DEF ProcOK, Syncing
<1> QED
  BY <1>1, <1>2 DEF StepKept, RowsKept, RestOK, ShapeInv

LEMMA SameFeed == ASSUME ShapeInv, feed' = feed PROVE FeedGrows /\ FeedOK'
<1>1. FeedOK' = FeedOK
  BY DEF FeedOK, Replaces, Early
<1> QED
  BY <1>1, FeedStays DEF ShapeInv

LEMMA SameEvents == ASSUME ShapeInv, FeedGrows, events' = events PROVE EventsGrow
BY Positions DEF ShapeInv, TypeOK, FeedGrows, EventsGrow, EventRow

LEMMA SameRows == ASSUME ShapeInv, FeedGrows, rows' = rows PROVE RowsKept
<1>1. \A t \in Txs : RowOK(t, rows[t])'
  BY RowKept DEF ShapeInv
<1> QED
  BY <1>1 DEF ShapeInv, TypeOK, RowsKept, Exists

LEMMA ProcKept ==
  ASSUME ShapeInv, FeedGrows, EventsGrow, RowsKept, NEW me, ProcOK(me)
  PROVE  ProcOK(me)'
BY SessionKept DEF RowsKept, ProcOK, Delivery

LEMMA SameProc ==
  ASSUME ShapeInv, FeedGrows, EventsGrow, RowsKept, proc' = proc
  PROVE  /\ proc' \in [Procs -> {Idle} \cup SyncSession \cup Delivery]
         /\ \A p \in Procs : ProcOK(proc[p])'
<1>1. ASSUME NEW p \in Procs PROVE ProcOK(proc[p])'
  <2>1. ProcOK(proc[p])
    BY Parts
  <2>2. ASSUME NEW me, me = proc[p] PROVE ProcOK(me)'
    BY <2>1, <2>2, ProcKept
  <2> QED
    BY <2>2
<1> QED
  BY <1>1 DEF ShapeInv, TypeOK

LEMMA OneProc ==
  ASSUME ShapeInv, FeedGrows, EventsGrow, RowsKept, NEW p \in Procs,
         NEW me, proc' = [proc EXCEPT ![p] = me], ProcOK(me)'
  PROVE  /\ proc' \in [Procs -> {Idle} \cup SyncSession \cup Delivery]
         /\ \A q \in Procs : ProcOK(proc[q])'
<1>1. me \in {Idle} \cup SyncSession \cup Delivery
  BY DEF ProcOK
<1>2. ASSUME NEW q \in Procs PROVE ProcOK(proc[q])'
  <2>1. CASE q = p
    <3>1. proc'[q] = me
      BY <2>1 DEF ShapeInv, TypeOK
    <3> QED
      BY <3>1
  <2>2. CASE q # p
    <3>1. ProcOK(proc[q])
      BY Parts
    <3>2. proc'[q] = proc[q]
      BY <2>2 DEF ShapeInv, TypeOK
    <3>3. ASSUME NEW other, other = proc[q] PROVE ProcOK(other)'
      BY <3>1, <3>3, ProcKept
    <3> QED
      BY <3>2, <3>3
  <2> QED
    BY <2>1, <2>2
<1> QED
  BY <1>1, <1>2 DEF ShapeInv, TypeOK

LEMMA IdleOK == ProcOK(Idle)'
BY DEF ProcOK, Idle, SyncSession, Delivery

\* A variable that stays keeps its part of RestOK.
LEMMA SameRest ==
  ASSUME ShapeInv, FeedGrows, RowsKept, mode' = mode, cursor' = cursor, read' = read,
         review' = review, told' = told, lapses' = lapses, trouble' \in {trouble, trouble + 1},
         trouble' \in 0..MaxTrouble, steady' \in BOOLEAN
  PROVE  RestOK'
<1>1. RestOK
  BY Parts
<1>2. cursor' \in 0..Len(feed') /\ read' \in 0..Len(feed')
  BY <1>1, Positions DEF RestOK, FeedGrows, ShapeInv
<1>3. lapses' \in 0..trouble'
  BY <1>1, PlaidConstants DEF RestOK
<1> QED
  BY <1>1, <1>2, <1>3 DEF RestOK, RowsKept

LEMMA MoreTrouble ==
  ASSUME ShapeInv, trouble < MaxTrouble, trouble' = trouble + 1
  PROVE  trouble' \in {trouble, trouble + 1} /\ trouble' \in 0..MaxTrouble
BY PlaidConstants DEF ShapeInv, TypeOK

LEMMA NoTrouble ==
  ASSUME ShapeInv, trouble' = trouble
  PROVE  trouble' \in {trouble, trouble + 1} /\ trouble' \in 0..MaxTrouble
BY DEF ShapeInv, TypeOK

-----------------------------------------------------------------------------
(* Initial states, Plaid, and the user *)

LEMMA InitShape == Init => ShapeInv
<1> SUFFICES ASSUME Init PROVE ShapeInv
  OBVIOUS
<1> USE DEF Init
<1>1. PICK t \in Txs, pending \in BOOLEAN : feed = <<Put(t, pending, None)>>
  OBVIOUS
<1>2. PICK x \in PlaidUpdate : x = Put(t, pending, None) /\ x.replaces = None
  <2>1. Put(t, pending, None) \in PlaidUpdate /\ Put(t, pending, None).replaces = None
    BY DEF Put, PlaidUpdate
  <2> QED
    BY <2>1
<1>3. feed = <<x>> /\ feed \in Seq(PlaidUpdate) /\ Len(feed) = 1 /\ DOMAIN feed = 1..1
      /\ feed[1] = x
  BY <1>1, <1>2
<1>4. FeedOK
  BY <1>2, <1>3 DEF FeedOK
<1>5. TypeOK
  BY <1>3, AbsentRow, PlaidConstants DEF TypeOK, Idle
<1>6. \A u \in Txs : RowOK(u, rows[u])
  BY AbsentRow DEF RowOK
<1>7. \A p \in Procs : proc[p].pc = "idle"
  BY DEF Idle
<1> QED
  BY <1>4, <1>5, <1>6, <1>7 DEF ShapeInv, Syncing

LEMMA UpdateShape == ASSUME ShapeInv, Update PROVE ShapeInv'
<1>1. FeedGrows /\ FeedOK'
  BY UpdateGrows
<1>2. /\ rows' = rows /\ events' = events /\ proc' = proc /\ mode' = mode /\ cursor' = cursor
      /\ read' = read /\ review' = review /\ told' = told /\ lapses' = lapses
      /\ trouble' = trouble /\ steady' = steady
  BY DEF Update
<1>3. EventsGrow /\ RowsKept
  BY <1>1, <1>2, SameEvents, SameRows
<1>4. RestOK'
  BY <1>1, <1>2, <1>3, SameRest, NoTrouble DEF ShapeInv, TypeOK
<1> QED
  BY <1>1, <1>2, <1>3, <1>4, SameProc, ShapeKept DEF StepKept

LEMMA WebhookGrows == ASSUME ShapeInv, Webhook PROVE EventsGrow
<1> DEFINE e == [state |-> "queued", upto |-> Len(feed)]
<1>1. e \in EventRow /\ e.upto = Len(feed)
  BY Positions DEF EventRow, ShapeInv
<1>2. events' = Append(events, e) /\ feed' = feed
  BY DEF Webhook
<1> HIDE DEF e
<1>3. /\ events' \in Seq(EventRow) /\ Len(events') = Len(events) + 1
      /\ DOMAIN events' = 1..(Len(events) + 1) /\ events'[Len(events) + 1] = e
      /\ \A i \in 1..Len(events) : events'[i] = events[i]
  BY <1>1, <1>2 DEF ShapeInv, TypeOK
<1> QED
  BY <1>1, <1>2, <1>3, Positions DEF ShapeInv, TypeOK, EventsGrow

LEMMA WebhookShape == ASSUME ShapeInv, Webhook PROVE ShapeInv'
<1>1. /\ feed' = feed /\ rows' = rows /\ proc' = proc /\ mode' = mode /\ cursor' = cursor
      /\ read' = read /\ review' = review /\ told' = told /\ lapses' = lapses
      /\ trouble' = trouble /\ steady' = steady
  BY DEF Webhook
<1>2. FeedGrows /\ FeedOK' /\ EventsGrow
  BY <1>1, SameFeed, WebhookGrows
<1>3. RowsKept
  BY <1>1, <1>2, SameRows
<1>4. RestOK'
  BY <1>1, <1>2, <1>3, SameRest, NoTrouble DEF ShapeInv, TypeOK
<1> QED
  BY <1>1, <1>2, <1>3, <1>4, SameProc, ShapeKept DEF StepKept

\* A step that changes one row and nothing it does not say.
LEMMA OneRow ==
  ASSUME ShapeInv, feed' = feed, NEW t \in Txs, NEW new \in Row, RowOK(t, new),
         Exists(t) => new.status # "none", rows' = [rows EXCEPT ![t] = new]
  PROVE  RowsKept
<1>1. rows' \in [Txs -> Row] /\ rows'[t] = new /\ \A u \in Txs \ {t} : rows'[u] = rows[u]
  BY DEF ShapeInv, TypeOK
<1>2. \A u \in Txs : RowOK(u, rows'[u])
  BY <1>1, Parts
<1>3. \A u, row : RowOK(u, row)' = RowOK(u, row)
  BY DEF RowOK, Early
<1>4. \A u \in Txs : RowOK(u, rows[u])'
  <2> SUFFICES ASSUME NEW u \in Txs PROVE RowOK(u, rows[u])'
    OBVIOUS
  <2>1. ASSUME NEW row, row = rows'[u] PROVE RowOK(u, row)'
    BY <1>2, <2>1, <1>3
  <2> QED
    BY <2>1
<1>5. \A u \in Txs : Exists(u) => Exists(u)'
  BY <1>1 DEF Exists
<1> QED
  BY <1>1, <1>4, <1>5 DEF RowsKept

LEMMA UserShape ==
  ASSUME ShapeInv, NEW t \in Txs, MarkPersonal(t) \/ Post(t) \/ Reconcile(t)
  PROVE  ShapeInv'
<1>1. /\ feed' = feed /\ events' = events /\ proc' = proc /\ mode' = mode /\ cursor' = cursor
      /\ read' = read /\ review' = review /\ told' = told /\ lapses' = lapses
      /\ steady' = steady
      /\ trouble' = trouble \/ (trouble < MaxTrouble /\ trouble' = trouble + 1)
  <2>1. CASE MarkPersonal(t)
    BY <2>1 DEF MarkPersonal
  <2>2. CASE Post(t)
    BY <2>2 DEF Post
  <2>3. CASE Reconcile(t)
    BY <2>3 DEF Reconcile
  <2> QED
    BY <2>1, <2>2, <2>3
<1>2. FeedGrows /\ FeedOK' /\ EventsGrow
  BY <1>1, SameFeed, SameEvents
<1>3. rows[t] \in Row /\ RowOK(t, rows[t])
  BY Parts
<1>4. ASSUME NEW new \in Row, rows' = [rows EXCEPT ![t] = new],
             new.status # "none", rows[t].status # "none", new.pending = rows[t].pending,
             new.expense => rows[t].expense \/ ~rows[t].pending
      PROVE  RowsKept
  <2>1. RowOK(t, new)
    BY <1>3, <1>4 DEF RowOK
  <2> QED
    BY <1>1, <1>4, <2>1, OneRow
<1>6. RowsKept
  <2>1. CASE MarkPersonal(t)
    <3> DEFINE new == [rows[t] EXCEPT !.status = "personal"]
    <3>1. new \in Row /\ new.status = "personal" /\ new.pending = rows[t].pending
          /\ new.expense = rows[t].expense
      BY <1>3 DEF Row
    <3>2. rows' = [rows EXCEPT ![t] = new] /\ rows[t].status = "ask"
      BY <2>1 DEF MarkPersonal
    <3> HIDE DEF new
    <3> QED
      BY <1>4, <3>1, <3>2
  <2>2. CASE Post(t)
    <3> DEFINE new == [rows[t] EXCEPT !.status = "posted", !.expense = TRUE]
    <3>1. new \in Row /\ new.status = "posted" /\ new.pending = rows[t].pending
      BY <1>3 DEF Row
    <3>2. rows' = [rows EXCEPT ![t] = new] /\ rows[t].status = "ask" /\ ~rows[t].pending
      BY <2>2 DEF Post
    <3> HIDE DEF new
    <3> QED
      BY <1>4, <3>1, <3>2
  <2>3. CASE Reconcile(t) /\ rows[t].status = "reconcile"
    <3> DEFINE new == [rows[t] EXCEPT !.status = "posted"]
    <3>1. new \in Row /\ new.status = "posted" /\ new.pending = rows[t].pending
          /\ new.expense = rows[t].expense
      BY <1>3 DEF Row
    <3>2. rows' = [rows EXCEPT ![t] = new]
      BY <2>3 DEF Reconcile
    <3> HIDE DEF new
    <3> QED
      BY <1>4, <2>3, <3>1, <3>2
  <2>4. CASE Reconcile(t) /\ rows[t].status = "undoing"
    <3> DEFINE new == [rows[t] EXCEPT !.status = "removed", !.expense = FALSE]
    <3>1. new \in Row /\ new.status = "removed" /\ new.pending = rows[t].pending
          /\ ~new.expense
      BY <1>3 DEF Row
    <3>2. rows' = [rows EXCEPT ![t] = new]
      BY <2>4 DEF Reconcile
    <3> HIDE DEF new
    <3> QED
      BY <1>4, <2>4, <3>1, <3>2
  <2>5. Reconcile(t) => rows[t].status \in {"reconcile", "undoing"}
    BY DEF Reconcile
  <2> QED
    BY <2>1, <2>2, <2>3, <2>4, <2>5
<1>7. RestOK'
  BY <1>1, <1>2, <1>6, SameRest, NoTrouble, MoreTrouble DEF ShapeInv, TypeOK
<1> QED
  BY <1>1, <1>2, <1>6, <1>7, SameProc, ShapeKept DEF StepKept

-----------------------------------------------------------------------------
(* Syncs *)

LEMMA Mine ==
  ASSUME ShapeInv, NEW p \in Procs, proc[p].pc \notin {"idle", "mark"}
  PROVE  proc[p] \in SyncSession /\ SessionOK(proc[p])
BY Parts, ProcKinds DEF ProcOK, ShapeInv, TypeOK

\* A step of one process that changes neither feed nor events nor rows.
LEMMA OwnStep ==
  ASSUME ShapeInv, feed' = feed, events' = events, rows' = rows, RestOK', NEW p \in Procs,
         NEW me, ProcOK(me), proc' = [proc EXCEPT ![p] = me]
  PROVE  ShapeInv'
<1>1. FeedGrows /\ FeedOK' /\ EventsGrow /\ RowsKept
  BY SameFeed, SameEvents, SameRows
<1>2. ProcOK(me)'
  BY <1>1, ProcKept
<1> QED
  BY <1>1, <1>2, OneProc, ShapeKept DEF StepKept

LEMMA RestStays ==
  ASSUME ShapeInv, feed' = feed, rows' = rows, mode' = mode, cursor' = cursor, read' = read,
         review' = review, told' = told, lapses' = lapses, trouble' = trouble, steady' = steady
  PROVE  RestOK'
<1>1. FeedGrows /\ RowsKept
  BY SameFeed, SameRows
<1> QED
  BY <1>1, SameRest, NoTrouble DEF ShapeInv, TypeOK

LEMMA PageEndBounds ==
  ASSUME TypeOK, NEW at \in Nat, at <= Len(feed)
  PROVE  /\ PageEnd(at) \in Nat /\ at <= PageEnd(at) /\ PageEnd(at) <= Len(feed)
         /\ PageEnd(at) = Len(feed) \/ PageEnd(at) < Len(feed)
<1>1. at + PageSize \in Nat /\ at <= at + PageSize /\ Len(feed) \in Nat
  BY PlaidConstants, Positions
<1>2. CASE at + PageSize < Len(feed)
  BY <1>1, <1>2 DEF PageEnd
<1>3. CASE ~(at + PageSize < Len(feed))
  BY <1>1, <1>3 DEF PageEnd
<1> QED
  BY <1>2, <1>3

LEMMA FetchedSession ==
  ASSUME ShapeInv, NEW me \in SyncSession, SessionOK(me), me.pc = "fetch"
  PROVE  Fetched(me) \in SyncSession /\ SessionOK(Fetched(me))
<1> DEFINE end == PageEnd(me.at)
           page == (me.at + 1)..end
           more == end < Len(feed)
           new == Fetched(me)
<1>1. me.at \in Nat /\ me.start \in Nat /\ me.start <= me.at /\ me.at <= Len(feed)
  BY DEF SessionOK, SyncSession
<1>2. end \in Nat /\ me.at <= end /\ end <= Len(feed)
  BY <1>1, PageEndBounds DEF ShapeInv
<1>3. page \in SUBSET Nat /\ page \subseteq (me.start + 1)..end
  BY <1>1, <1>2
<1>4. new = [me EXCEPT !.pc = IF page = {} THEN "fetch" ELSE "load",
                       !.at = end, !.more = more, !.batch = page]
  BY DEF Fetched
<1>a. more \in BOOLEAN
  OBVIOUS
<1> HIDE DEF end, page, more, new
<1>5. /\ new \in SyncSession /\ new.pc = IF page = {} THEN "fetch" ELSE "load"
      /\ new.at = end /\ new.batch = page /\ new.start = me.start /\ new.event = me.event
      /\ new.over = me.over /\ new.ready = me.ready
  BY <1>2, <1>3, <1>4, <1>a DEF SyncSession
<1> QED
  BY <1>1, <1>2, <1>3, <1>5 DEF SessionOK, new

LEMMA FetchShape == ASSUME ShapeInv, NEW p \in Procs, Fetch(p) PROVE ShapeInv'
<1>1. proc[p] \in SyncSession /\ SessionOK(proc[p]) /\ proc[p].pc = "fetch"
  BY Mine DEF Fetch
<1>2. ProcOK(Fetched(proc[p]))
  BY <1>1, FetchedSession, ProcKinds DEF ProcOK, SyncSession, Delivery
<1>3. RestOK'
  BY RestStays DEF Fetch
<1> QED
  BY <1>2, <1>3, OwnStep DEF Fetch

LEMMA SessionProc ==
  ASSUME NEW me \in SyncSession, SessionOK(me)
  PROVE  ProcOK(me)
BY DEF ProcOK, SyncSession, Delivery

LEMMA LoadShape == ASSUME ShapeInv, NEW p \in Procs, Load(p) PROVE ShapeInv'
<1> DEFINE me == proc[p]
<1>1. me \in SyncSession /\ SessionOK(me) /\ me.pc = "load"
  BY Mine DEF Load
<1>2. PICK i \in me.batch :
       proc' = [proc EXCEPT ![p] = [me EXCEPT !.pc = "write", !.next = i, !.again = FALSE,
                                              !.row = rows[feed[i].tx]]]
  BY DEF Load
<1> DEFINE new == [me EXCEPT !.pc = "write", !.next = i, !.again = FALSE,
                             !.row = rows[feed[i].tx]]
<1>3. i \in DOMAIN feed /\ i \in Nat
  BY <1>1, Positions DEF SessionOK, SyncSession, ShapeInv
<1>4. feed[i].tx \in Txs
  BY <1>3, Positions DEF PlaidUpdate, ShapeInv
<1>5. rows[feed[i].tx] \in Row /\ RowOK(feed[i].tx, rows[feed[i].tx])
  BY <1>4, Parts
<1>6. /\ new \in SyncSession /\ new.pc = "write" /\ new.next = i
      /\ new.row = rows[feed[i].tx] /\ new.start = me.start /\ new.at = me.at
      /\ new.batch = me.batch /\ new.event = me.event /\ new.over = me.over
      /\ new.ready = me.ready
  BY <1>1, <1>3, <1>5 DEF SyncSession
<1>7. proc' = [proc EXCEPT ![p] = new]
  BY <1>2
<1> HIDE DEF new
<1>8. SessionOK(new)
  BY <1>1, <1>5, <1>6 DEF SessionOK, Exists
<1>9. RestOK'
  BY RestStays DEF Load
<1> QED
  BY <1>6, <1>7, <1>8, <1>9, SessionProc, OwnStep DEF Load

LEMMA ConflictShape == ASSUME ShapeInv, NEW p \in Procs, Conflict(p) PROVE ShapeInv'
<1> DEFINE me == proc[p]
           t == feed[me.next].tx
           new == [me EXCEPT !.row = rows[t], !.again = TRUE]
<1>1. me \in SyncSession /\ SessionOK(me) /\ me.pc = "write"
  BY Mine DEF Conflict
<1>2. me.next \in me.batch /\ me.next \in DOMAIN feed
  BY <1>1, Positions DEF SessionOK, SyncSession, ShapeInv
<1>3. t \in Txs
  BY <1>2, Positions DEF PlaidUpdate, ShapeInv
<1>4. rows[t] \in Row /\ RowOK(t, rows[t])
  BY <1>3, Parts
<1>5. /\ new \in SyncSession /\ new.pc = "write" /\ new.next = me.next
      /\ new.row = rows[t] /\ new.start = me.start /\ new.at = me.at
      /\ new.batch = me.batch /\ new.event = me.event /\ new.over = me.over
      /\ new.ready = me.ready
  BY <1>1, <1>4 DEF SyncSession
<1>6. proc' = [proc EXCEPT ![p] = new]
  BY DEF Conflict
<1>7. SessionOK(new)
  <2> HIDE DEF new
  <2> QED
    BY <1>1, <1>2, <1>4, <1>5 DEF SessionOK, Exists
<1>8. RestOK'
  BY RestStays DEF Conflict
<1> QED
  BY <1>5, <1>6, <1>7, <1>8, SessionProc, OwnStep DEF Conflict

LEMMA SaveCursorShape == ASSUME ShapeInv, NEW p \in Procs, SaveCursor(p) PROVE ShapeInv'
<1> DEFINE me == proc[p]
           due == {t \in Txs : Notifiable(rows[t])} \ me.tried
           new == [me EXCEPT !.pc = "ready", !.tried = {}, !.over = TRUE, !.ready = due]
<1>1. me \in SyncSession /\ SessionOK(me) /\ me.pc = "fetch"
  BY Mine DEF SaveCursor
<1>2. due \subseteq Txs /\ \A t \in due : Exists(t)
  BY DEF Notifiable, Exists
<1>3. proc' = [proc EXCEPT ![p] = new]
  BY DEF SaveCursor
<1> HIDE DEF due
<1>4. /\ new \in SyncSession /\ new.pc = "ready" /\ new.over /\ new.ready = due
      /\ new.start = me.start /\ new.at = me.at /\ new.batch = me.batch /\ new.event = me.event
  BY <1>1, <1>2 DEF SyncSession
<1> HIDE DEF new
<1>5. SessionOK(new)
  BY <1>1, <1>2, <1>4 DEF SessionOK
<1>6. FeedGrows /\ RowsKept
  BY SameFeed, SameRows DEF SaveCursor
<1>7. RestOK'
  <2>1. cursor' \in {cursor, me.at} /\ read' \in {read, me.at} /\ me.at \in 0..Len(feed)
    BY <1>1, Positions DEF SaveCursor, SessionOK, SyncSession, ShapeInv
  <2> QED
    BY <1>6, <2>1, Parts DEF SaveCursor, RestOK, RowsKept
<1> QED
  BY <1>3, <1>4, <1>5, <1>7, SessionProc, OwnStep DEF SaveCursor

LEMMA NextReadyShape == ASSUME ShapeInv, NEW p \in Procs, NextReady(p) PROVE ShapeInv'
<1> DEFINE me == proc[p]
<1>1. me \in SyncSession /\ SessionOK(me) /\ me.pc = "ready"
  BY Mine DEF NextReady
<1>2. PICK t \in me.ready :
       proc' = [proc EXCEPT ![p] = [me EXCEPT !.pc = "notify", !.about = t, !.ready = @ \ {t}]]
  BY DEF NextReady
<1> DEFINE new == [me EXCEPT !.pc = "notify", !.about = t, !.ready = me.ready \ {t}]
<1>3. proc' = [proc EXCEPT ![p] = new]
  BY <1>2
<1>4. t \in Txs /\ Exists(t)
  BY <1>1 DEF SessionOK, SyncSession
<1>5. /\ new \in SyncSession /\ new.pc = "notify" /\ new.about = t
      /\ new.ready = me.ready \ {t} /\ new.over = me.over
      /\ new.start = me.start /\ new.at = me.at /\ new.batch = me.batch /\ new.event = me.event
  BY <1>1, <1>4 DEF SyncSession
<1> HIDE DEF new
<1>6. SessionOK(new)
  BY <1>1, <1>4, <1>5 DEF SessionOK
<1>7. RestOK'
  BY RestStays DEF NextReady
<1> QED
  BY <1>3, <1>5, <1>6, <1>7, SessionProc, OwnStep DEF NextReady

LEMMA RowsChange ==
  ASSUME ShapeInv, feed' = feed, rows' \in [Txs -> Row],
         \A u \in Txs : RowOK(u, rows'[u]) /\ (Exists(u) => rows'[u].status # "none")
  PROVE  RowsKept
<1>1. \A u, row : RowOK(u, row)' = RowOK(u, row)
  BY DEF RowOK, Early
<1>2. ASSUME NEW u \in Txs PROVE RowOK(u, rows[u])'
  <2>1. ASSUME NEW row, row = rows'[u] PROVE RowOK(u, row)'
    BY <2>1, <1>1
  <2> QED
    BY <2>1
<1>3. \A u \in Txs : Exists(u) => Exists(u)'
  BY DEF Exists
<1> QED
  BY <1>2, <1>3 DEF RowsKept

\* What the update of a session leaves in the rows.
LEMMA AppliedRows ==
  ASSUME ShapeInv, NEW i \in DOMAIN feed, NEW row \in Row, NEW again \in BOOLEAN,
         RowOK(feed[i].tx, row), row.status # "none" => Exists(feed[i].tx),
         feed[i].kind = "put" /\ row.status = "none" => ~Exists(feed[i].tx),
         NEW after, after = Applied(row, i, again)
  PROVE  /\ after \in [Txs -> Row]
         /\ \A u \in Txs : /\ RowOK(u, after[u]) /\ (Exists(u) => after[u].status # "none")
                           /\ after[u].sent = rows[u].sent
         /\ feed[i].kind = "put" => after[feed[i].tx].status # "none"
<1> DEFINE t == feed[i].tx
           new == IF feed[i].kind = "put" THEN Written(rows[t], row, Upserted(row, i, again))
                  ELSE IF row.expense THEN Removed(rows[t])
                  ELSE Written(rows[t], row, Removed(row))
<1>1. t \in Txs /\ feed[i].kind \in {"put", "drop"} /\ rows \in [Txs -> Row]
  BY Positions DEF ShapeInv, TypeOK, PlaidUpdate
<1>2. /\ new \in Row /\ RowOK(t, new) /\ new.sent = rows[t].sent
      /\ Exists(t) => new.status # "none"
  <2> HIDE DEF new
  <2>1. new = IF feed[i].kind = "put" THEN Written(rows[t], row, Upserted(row, i, again))
               ELSE IF row.expense THEN Removed(rows[t])
               ELSE Written(rows[t], row, Removed(row))
    BY DEF new
  <2> QED
    BY <2>1, RowWritten
<1>3. feed[i].kind = "put" => new.status # "none"
  <2> SUFFICES ASSUME feed[i].kind = "put" PROVE new.status # "none"
    OBVIOUS
  <2> DEFINE up == Upserted(row, i, again)
  <2>1. /\ up \in Row /\ up.status # "none"
    BY UpsertedRow DEF RowOK, ShapeInv
  <2>2. new.status = IF up.status # row.status THEN up.status ELSE rows[t].status
    BY <1>1, <2>1, WrittenRow
  <2> HIDE DEF new, up
  <2> QED
    BY <1>2, <2>1, <2>2 DEF Exists
<1>4. /\ after[t] = new
      /\ \A u \in Txs \ {t} : after[u] = rows[u] \/ after[u] = Removed(rows[u])
      /\ after = [u \in Txs |-> after[u]]
  <2>1. CASE feed[i].kind = "drop"
    <3>1. after = [rows EXCEPT ![t] = new]
      BY <2>1 DEF Applied
    <3> HIDE DEF new
    <3> QED
      BY <1>1, <3>1
  <2>2. CASE feed[i].kind = "put"
    <3>1. after = [u \in Txs |-> IF u = t THEN new
                                 ELSE IF u = feed[i].replaces THEN Removed(rows[u]) ELSE rows[u]]
      BY <2>2 DEF Applied
    <3> HIDE DEF new
    <3> QED
      BY <1>1, <3>1
  <2> QED
    BY <1>1, <2>1, <2>2
<1> HIDE DEF new
<1>5. ASSUME NEW u \in Txs
      PROVE  /\ after[u] \in Row /\ RowOK(u, after[u]) /\ (Exists(u) => after[u].status # "none")
             /\ after[u].sent = rows[u].sent
  <2>1. rows[u] \in Row /\ RowOK(u, rows[u])
    BY Parts
  <2>2. /\ Removed(rows[u]) \in Row /\ RowOK(u, Removed(rows[u]))
        /\ Exists(u) => Removed(rows[u]).status # "none"
        /\ Removed(rows[u]).sent = rows[u].sent
    BY <2>1, RemovedRow DEF RowOK, Exists
  <2> QED
    BY <1>2, <1>4, <2>1, <2>2 DEF Exists
<1>6. after \in [Txs -> Row]
  BY <1>4, <1>5
<1> QED
  BY <1>1, <1>3, <1>4, <1>5, <1>6

\* What Write makes of its session.
AfterWrite(me, pc, about, tried) ==
  [me EXCEPT !.batch = @ \ {me.next}, !.next = 0, !.row = Absent, !.again = FALSE,
             !.pc = pc, !.about = about, !.tried = tried]

LEMMA AfterWriteSession ==
  ASSUME NEW me \in SyncSession, NEW pc \in {"notify", "fetch", "load"},
         NEW about \in Txs \cup {None}, NEW tried \in SUBSET Txs
  PROVE  /\ AfterWrite(me, pc, about, tried) \in SyncSession
         /\ AfterWrite(me, pc, about, tried).pc = pc
         /\ AfterWrite(me, pc, about, tried).batch = me.batch \ {me.next}
         /\ AfterWrite(me, pc, about, tried).start = me.start
         /\ AfterWrite(me, pc, about, tried).at = me.at
         /\ AfterWrite(me, pc, about, tried).more = me.more
         /\ AfterWrite(me, pc, about, tried).event = me.event
         /\ AfterWrite(me, pc, about, tried).over = me.over
         /\ AfterWrite(me, pc, about, tried).ready = me.ready
         /\ AfterWrite(me, pc, about, tried).about = about
<1>1. me.batch \ {me.next} \in SUBSET Nat
  BY DEF SyncSession
<1> QED
  BY <1>1, AbsentRow DEF AfterWrite, SyncSession

\* The facts about a write: its session, its update, and where it goes.
LEMMA WriteFacts ==
  ASSUME ShapeInv, NEW p \in Procs, Write(p)
  PROVE  /\ proc[p] \in SyncSession /\ SessionOK(proc[p]) /\ proc[p].pc = "write"
         /\ proc[p].next \in proc[p].batch /\ proc[p].next \in DOMAIN feed
         /\ feed[proc[p].next].tx \in Txs /\ proc[p].row \in Row /\ proc[p].again \in BOOLEAN
         /\ RowOK(feed[proc[p].next].tx, proc[p].row)
         /\ proc[p].row.status # "none" => Exists(feed[proc[p].next].tx)
         /\ feed[proc[p].next].kind = "put" /\ proc[p].row.status = "none" =>
              ~Exists(feed[proc[p].next].tx)
         /\ rows' = Applied(proc[p].row, proc[p].next, proc[p].again)
         /\ \E pc \in {"notify", "fetch", "load"}, about \in Txs \cup {None}, tried \in SUBSET Txs :
              /\ proc' = [proc EXCEPT ![p] = AfterWrite(proc[p], pc, about, tried)]
              /\ pc = "notify" => feed[proc[p].next].kind = "put" /\ about = feed[proc[p].next].tx
              /\ pc = "fetch" => proc[p].batch = {proc[p].next}
<1> DEFINE me == proc[p]
           t == feed[me.next].tx
<1>1. me \in SyncSession /\ SessionOK(me) /\ me.pc = "write"
  BY Mine DEF Write
<1>2. me.next \in me.batch /\ me.next \in DOMAIN feed
  BY <1>1, Positions DEF SessionOK, SyncSession, ShapeInv
<1>3. t \in Txs /\ me.row \in Row /\ me.again \in BOOLEAN
  BY <1>1, <1>2, Positions DEF PlaidUpdate, SyncSession, ShapeInv
<1>4. RowOK(t, me.row) /\ (me.row.status # "none" => Exists(t))
  BY <1>1 DEF SessionOK
<1>5. feed[me.next].kind = "put" /\ me.row.status = "none" => ~Exists(t)
  BY DEF Write, Taken, Exists
<1>6. rows' = Applied(me.row, me.next, me.again)
  BY DEF Write
<1>7. \E pc \in {"notify", "fetch", "load"}, about \in Txs \cup {None}, tried \in SUBSET Txs :
        /\ proc' = [proc EXCEPT ![p] = AfterWrite(me, pc, about, tried)]
        /\ pc = "notify" => feed[me.next].kind = "put" /\ about = t
        /\ pc = "fetch" => me.batch = {me.next}
  <2> DEFINE eligible == /\ feed[me.next].kind = "put"
                         /\ Notifiable(Upserted(me.row, me.next, me.again))
                         /\ me.row.status = "none" \/ me.row.pending
             pc == IF eligible THEN "notify" ELSE IF me.batch = {me.next} THEN "fetch" ELSE "load"
             about == IF eligible THEN t ELSE None
             tried == IF eligible THEN me.tried \cup {t} ELSE me.tried
  <2>1. proc' = [proc EXCEPT ![p] = AfterWrite(me, pc, about, tried)]
    BY DEF Write, AfterWrite
  <2>2. eligible => feed[me.next].kind = "put"
    OBVIOUS
  <2> HIDE DEF eligible
  <2>3. pc \in {"notify", "fetch", "load"} /\ about \in Txs \cup {None} /\ tried \in SUBSET Txs
    BY <1>1, <1>3 DEF SyncSession
  <2>4. /\ pc = "notify" => feed[me.next].kind = "put" /\ about = t
        /\ pc = "fetch" => me.batch = {me.next}
    BY <2>2
  <2> HIDE DEF pc, about, tried
  <2> QED
    BY <2>1, <2>3, <2>4
<1> QED
  BY <1>1, <1>2, <1>3, <1>4, <1>5, <1>6, <1>7

LEMMA WriteShape == ASSUME ShapeInv, NEW p \in Procs, Write(p) PROVE ShapeInv'
<1> DEFINE me == proc[p]
           t == feed[me.next].tx
<1>1. /\ me \in SyncSession /\ SessionOK(me) /\ me.pc = "write"
      /\ me.next \in me.batch /\ me.next \in DOMAIN feed /\ t \in Txs
      /\ me.row \in Row /\ me.again \in BOOLEAN
  BY WriteFacts
<1>2. /\ rows' \in [Txs -> Row]
      /\ \A u \in Txs : /\ RowOK(u, rows'[u]) /\ (Exists(u) => rows'[u].status # "none")
      /\ feed[me.next].kind = "put" => rows'[t].status # "none"
  BY WriteFacts, AppliedRows
<1>3. feed' = feed /\ events' = events
  BY DEF Write
<1>4. FeedGrows /\ FeedOK' /\ EventsGrow /\ RowsKept
  BY <1>2, <1>3, SameFeed, SameEvents, RowsChange
<1>5. PICK pc \in {"notify", "fetch", "load"}, about \in Txs \cup {None}, tried \in SUBSET Txs :
        /\ proc' = [proc EXCEPT ![p] = AfterWrite(me, pc, about, tried)]
        /\ pc = "notify" => feed[me.next].kind = "put" /\ about = t
        /\ pc = "fetch" => me.batch = {me.next}
  BY WriteFacts
<1>6. PICK new \in SyncSession :
        /\ proc' = [proc EXCEPT ![p] = new] /\ new.pc = pc /\ new.batch = me.batch \ {me.next}
        /\ new.start = me.start /\ new.at = me.at /\ new.event = me.event /\ new.over = me.over
        /\ new.ready = me.ready /\ new.about = about
  <2> DEFINE n == AfterWrite(me, pc, about, tried)
  <2>1. /\ n \in SyncSession /\ n.pc = pc /\ n.batch = me.batch \ {me.next}
        /\ n.start = me.start /\ n.at = me.at /\ n.event = me.event /\ n.over = me.over
        /\ n.ready = me.ready /\ n.about = about
    <3> HIDE DEF me
    <3> QED
      BY <1>1, AfterWriteSession
  <2>2. proc' = [proc EXCEPT ![p] = n]
    BY <1>5
  <2> HIDE DEF n
  <2> QED
    BY <2>1, <2>2
<1>7. \A u \in Txs : Exists(u) => Exists(u)'
  BY <1>4 DEF RowsKept
<1>8. pc = "notify" => about \in Txs /\ Exists(about)'
  BY <1>1, <1>2, <1>5 DEF Exists
<1>9. SessionOK(new)'
  BY <1>1, <1>3, <1>5, <1>6, <1>7, <1>8 DEF SessionOK, SyncSession
<1>10. ProcOK(new)'
  BY <1>6, <1>9 DEF ProcOK, SyncSession, Delivery
<1>11. RestOK'
  BY <1>4, SameRest, NoTrouble DEF Write, ShapeInv, TypeOK
<1> QED
  BY <1>4, <1>6, <1>10, <1>11, OneProc, ShapeKept DEF StepKept

-----------------------------------------------------------------------------
(* Beginning, ending and failing *)

LEMMA EventMarked ==
  ASSUME ShapeInv, feed' = feed, NEW e \in DOMAIN events,
         NEW s \in {"syncing", "processed", "failed"}, events' = [events EXCEPT ![e].state = s]
  PROVE  /\ EventsGrow /\ DOMAIN events' = DOMAIN events
         /\ events'[e].state = s
         /\ \A i \in DOMAIN events : events'[i].upto = events[i].upto
         /\ \A i \in DOMAIN events \ {e} : events'[i] = events[i]
<1>1. DOMAIN events = 1..Len(events) /\ \A i \in 1..Len(events) : events[i] \in EventRow
  BY Positions DEF ShapeInv
<1> DEFINE new == [events[e] EXCEPT !.state = s]
<1>2. new \in EventRow /\ new.state = s /\ new.upto = events[e].upto
  BY <1>1 DEF EventRow
<1>3. events' = [events EXCEPT ![e] = new]
  OBVIOUS
<1> HIDE DEF new
<1>4. /\ events' \in Seq(EventRow) /\ Len(events') = Len(events) /\ DOMAIN events' = DOMAIN events
      /\ events'[e] = new /\ \A i \in DOMAIN events \ {e} : events'[i] = events[i]
  <2>1. events \in Seq(EventRow) /\ e \in 1..Len(events)
    BY <1>1 DEF ShapeInv, TypeOK
  <2>2. events' \in Seq(EventRow) /\ Len(events') = Len(events)
        /\ \A j \in 1..Len(events) : events'[j] = IF j = e THEN new ELSE events[j]
    BY <1>2, <1>3, <2>1, ExceptSeq
  <2> QED
    BY <1>1, <2>1, <2>2
<1>5. \A i \in DOMAIN events : events'[i].upto = events[i].upto
  BY <1>2, <1>4
<1> QED
  BY <1>1, <1>2, <1>4, <1>5 DEF EventsGrow, ShapeInv, TypeOK

\* The session of a sync that begins.
Begun(e) ==
  [pc |-> "fetch", event |-> e, start |-> cursor, at |-> cursor, more |-> TRUE,
   batch |-> {}, next |-> 0, row |-> Absent, again |-> FALSE, about |-> None, tried |-> {},
   over |-> FALSE, ready |-> {}]

LEMMA BegunSession ==
  ASSUME ShapeInv, NEW e \in {None} \cup DOMAIN events
  PROVE  Begun(e) \in SyncSession /\ SessionOK(Begun(e))
<1>1. cursor \in Nat /\ cursor <= Len(feed) /\ e \in Nat \cup {None}
  BY Positions DEF ShapeInv, TypeOK
<1>2. Begun(e) \in SyncSession
  BY <1>1, AbsentRow DEF Begun, SyncSession
<1> QED
  BY <1>1, <1>2 DEF Begun, SessionOK

LEMMA BeginFacts ==
  ASSUME ShapeInv, NEW p \in Procs, NEW e, Begin(p, e)
  PROVE  /\ proc[p] = Idle /\ e \in {None} \cup DOMAIN events
         /\ \/ e = None /\ events' = events
            \/ e \in DOMAIN events /\ events' = [events EXCEPT ![e].state = "syncing"]
         /\ trouble' = trouble \/ (trouble < MaxTrouble /\ trouble' = trouble + 1)
         /\ proc' = [proc EXCEPT ![p] = Begun(e)]
BY DEF Begin, Begun

LEMMA BeginShape == ASSUME ShapeInv, NEW p \in Procs, NEW e, Begin(p, e) PROVE ShapeInv'
<1>1. /\ feed' = feed /\ rows' = rows /\ mode' = mode /\ cursor' = cursor /\ read' = read
      /\ review' = review /\ told' = told /\ lapses' = lapses
  BY DEF Begin
<1>2. steady' \in BOOLEAN
  BY DEF Begin
<1>3. FeedGrows /\ FeedOK' /\ RowsKept
  BY <1>1, SameFeed, SameRows
<1>4. EventsGrow
  BY <1>1, <1>3, BeginFacts, SameEvents, EventMarked
<1>5. ProcOK(Begun(e))
  BY BeginFacts, BegunSession, SessionProc
<1>6. PICK new : new = Begun(e)
  OBVIOUS
<1>7. ProcOK(new)' /\ proc' = [proc EXCEPT ![p] = new]
  BY <1>3, <1>4, <1>5, <1>6, ProcKept, BeginFacts
<1>8. trouble' \in {trouble, trouble + 1} /\ trouble' \in 0..MaxTrouble
  BY BeginFacts, NoTrouble, MoreTrouble
<1>9. RestOK'
  BY <1>1, <1>2, <1>3, <1>8, SameRest
<1> QED
  BY <1>3, <1>4, <1>7, <1>9, OneProc, ShapeKept DEF StepKept

\* A process that ends or dies: it may leave its event in another state.
LEMMA EndShape ==
  ASSUME ShapeInv, NEW p \in Procs, proc[p] # Idle,
         feed' = feed, rows' = rows, mode' = mode, cursor' = cursor, read' = read,
         review' = review, told' = told, steady' = steady,
         (lapses' = lapses /\ trouble' = trouble) \/
           (trouble < MaxTrouble /\ trouble' = trouble + 1 /\ lapses' \in {lapses, lapses + 1}),
         \/ events' = events
         \/ /\ proc[p].pc # "mark" /\ proc[p].event # None
            /\ \E s \in {"processed", "failed"} :
                 events' = [events EXCEPT ![proc[p].event].state = s],
         proc' = [proc EXCEPT ![p] = Idle]
  PROVE  ShapeInv'
<1>1. FeedGrows /\ FeedOK' /\ RowsKept
  BY SameFeed, SameRows
<1>2. EventsGrow
  <2>1. CASE events' = events
    BY <1>1, <2>1, SameEvents
  <2>2. ASSUME proc[p].pc # "mark", proc[p].event # None, NEW s \in {"processed", "failed"},
               events' = [events EXCEPT ![proc[p].event].state = s]
        PROVE  EventsGrow
    <3>1. proc[p].pc # "idle"
      BY ProcKinds DEF ShapeInv, TypeOK
    <3>2. proc[p].event \in DOMAIN events
      BY <2>2, <3>1, Mine DEF SessionOK
    <3> QED
      BY <2>2, <3>2, EventMarked
  <2> QED
    BY <2>1, <2>2
<1>3. RestOK'
  <2>1. RestOK
    BY Parts
  <2>2. lapses' \in 0..trouble' /\ trouble' \in 0..MaxTrouble
    BY <2>1, PlaidConstants DEF RestOK
  <2> QED
    BY <1>1, <2>1, <2>2 DEF RestOK, RowsKept
<1> QED
  BY <1>1, <1>2, <1>3, IdleOK, OneProc, ShapeKept DEF StepKept

LEMMA FinishShape == ASSUME ShapeInv, NEW p \in Procs, Finish(p) PROVE ShapeInv'
<1>1. proc[p] # Idle /\ proc[p].pc # "mark"
  BY DEF Finish, Idle
<1>2. /\ feed' = feed /\ rows' = rows /\ mode' = mode /\ cursor' = cursor /\ read' = read
      /\ review' = review /\ told' = told /\ steady' = steady /\ lapses' = lapses
      /\ trouble' = trouble /\ proc' = [proc EXCEPT ![p] = Idle]
      /\ \/ events' = events
         \/ proc[p].event # None /\ events' = [events EXCEPT ![proc[p].event].state = "processed"]
  BY DEF Finish
<1> QED
  BY <1>1, <1>2, EndShape

LEMMA FailShape == ASSUME ShapeInv, NEW p \in Procs, Fail(p) PROVE ShapeInv'
<1>1. proc[p] # Idle /\ proc[p].pc # "mark"
  BY DEF Fail, Idle, Syncing
<1>2. /\ feed' = feed /\ rows' = rows /\ mode' = mode /\ cursor' = cursor /\ read' = read
      /\ review' = review /\ told' = told /\ steady' = steady /\ lapses' = lapses
      /\ trouble < MaxTrouble /\ trouble' = trouble + 1 /\ proc' = [proc EXCEPT ![p] = Idle]
      /\ \/ events' = events
         \/ proc[p].event # None /\ events' = [events EXCEPT ![proc[p].event].state = "failed"]
  BY DEF Fail
<1> QED
  BY <1>1, <1>2, EndShape

LEMMA DieShape == ASSUME ShapeInv, NEW p \in Procs, Die(p) PROVE ShapeInv'
<1>1. /\ feed' = feed /\ rows' = rows /\ mode' = mode /\ cursor' = cursor /\ read' = read
      /\ review' = review /\ told' = told /\ steady' = steady /\ lapses' \in {lapses, lapses + 1}
      /\ trouble < MaxTrouble /\ trouble' = trouble + 1 /\ proc' = [proc EXCEPT ![p] = Idle]
      /\ events' = events /\ proc[p] # Idle
  BY DEF Die
<1> QED
  BY <1>1, EndShape

-----------------------------------------------------------------------------
(* Messages *)

LEMMA ResumedSession ==
  ASSUME NEW me \in SyncSession, SessionOK(me), me.pc \in {"notify", "enqueue", "send"}
  PROVE  /\ Resumed(me) \in SyncSession /\ SessionOK(Resumed(me))
         /\ Resumed(me).pc \in {"ready", "fetch", "load"}
         /\ Resumed(me).start = me.start /\ Resumed(me).at = me.at /\ Resumed(me).more = me.more
         /\ Resumed(me).batch = me.batch /\ Resumed(me).event = me.event
         /\ Resumed(me).over = me.over /\ Resumed(me).ready = me.ready
         /\ Resumed(me).about = None
<1> DEFINE pc == IF me.over THEN "ready" ELSE IF me.batch = {} THEN "fetch" ELSE "load"
<1>1. pc \in {"ready", "fetch", "load"} /\ (pc = "ready" <=> me.over) /\ (pc = "fetch" => me.batch = {})
  OBVIOUS
<1>2. Resumed(me) = [me EXCEPT !.about = None, !.pc = pc]
  BY DEF Resumed
<1> HIDE DEF pc
<1>3. /\ Resumed(me) \in SyncSession /\ Resumed(me).pc = pc
      /\ Resumed(me).start = me.start /\ Resumed(me).at = me.at /\ Resumed(me).more = me.more
      /\ Resumed(me).batch = me.batch /\ Resumed(me).event = me.event
      /\ Resumed(me).over = me.over /\ Resumed(me).ready = me.ready
      /\ Resumed(me).about = None
  BY <1>1, <1>2 DEF SyncSession
<1>4. SessionOK(Resumed(me))
  BY <1>1, <1>3 DEF SessionOK
<1> QED
  BY <1>1, <1>3, <1>4

\* A step that changes rows and one process.
LEMMA RowStep ==
  ASSUME ShapeInv, feed' = feed, events' = events, RowsKept, RestOK', NEW p \in Procs,
         NEW me, ProcOK(me), proc' = [proc EXCEPT ![p] = me]
  PROVE  ShapeInv'
<1>1. FeedGrows /\ FeedOK' /\ EventsGrow
  BY SameFeed, SameEvents
<1>2. ProcOK(me)'
  BY <1>1, ProcKept
<1> QED
  BY <1>1, <1>2, OneProc, ShapeKept DEF StepKept

\* Whether a message was sent or queued does not matter to the rest of a row.
LEMMA Flagged ==
  ASSUME ShapeInv, feed' = feed, NEW t \in Txs, NEW new \in Row,
         new.status = rows[t].status, new.pending = rows[t].pending,
         new.expense = rows[t].expense, Exists(t), rows' = [rows EXCEPT ![t] = new]
  PROVE  RowsKept
<1>1. RowOK(t, new)
  BY Parts DEF RowOK, Exists
<1> QED
  BY <1>1, OneRow DEF Exists

LEMMA RowMarked ==
  ASSUME ShapeInv, feed' = feed, NEW t \in Txs, Exists(t), NEW sent \in BOOLEAN,
         \/ rows' = [rows EXCEPT ![t].sent = sent]
         \/ \E queued \in BOOLEAN : rows' = [rows EXCEPT ![t].sent = sent, ![t].queued = queued]
         \/ \E queued \in BOOLEAN : rows' = [rows EXCEPT ![t].queued = queued]
  PROVE  RowsKept
<1>1. rows[t] \in Row /\ rows[t].sent \in BOOLEAN /\ rows[t].queued \in BOOLEAN
  BY Parts DEF Row
<1>2. ASSUME NEW s \in BOOLEAN, NEW q \in BOOLEAN,
             rows' = [rows EXCEPT ![t] = [rows[t] EXCEPT !.sent = s, !.queued = q]]
      PROVE  RowsKept
  <2> DEFINE new == [rows[t] EXCEPT !.sent = s, !.queued = q]
  <2>1. new = [rows[t] EXCEPT !.sent = s, !.queued = q] /\ rows' = [rows EXCEPT ![t] = new]
    BY <1>2
  <2> HIDE DEF new
  <2>2. /\ new \in Row /\ new.status = rows[t].status /\ new.pending = rows[t].pending
        /\ new.expense = rows[t].expense
    BY <1>1, <2>1 DEF Row
  <2> QED
    BY <2>1, <2>2, Flagged
<1>3. CASE rows' = [rows EXCEPT ![t].sent = sent]
  <2>1. rows' = [rows EXCEPT ![t] = [rows[t] EXCEPT !.sent = sent, !.queued = rows[t].queued]]
    BY <1>1, <1>3 DEF Row, ShapeInv, TypeOK
  <2> QED
    BY <1>1, <1>2, <2>1
<1>4. ASSUME NEW queued \in BOOLEAN,
             rows' = [rows EXCEPT ![t].sent = sent, ![t].queued = queued]
      PROVE  RowsKept
  <2>1. rows' = [rows EXCEPT ![t] = [rows[t] EXCEPT !.sent = sent, !.queued = queued]]
    BY <1>1, <1>4 DEF Row, ShapeInv, TypeOK
  <2> QED
    BY <1>2, <2>1
<1>5. ASSUME NEW queued \in BOOLEAN, rows' = [rows EXCEPT ![t].queued = queued]
      PROVE  RowsKept
  <2>1. rows' = [rows EXCEPT ![t] = [rows[t] EXCEPT !.sent = rows[t].sent, !.queued = queued]]
    BY <1>1, <1>5 DEF Row, ShapeInv, TypeOK
  <2> QED
    BY <1>1, <1>2, <2>1
<1> QED
  BY <1>3, <1>4, <1>5

\* A session that goes on to queue or to send its message.
LEMMA GoesOn ==
  ASSUME NEW me \in SyncSession, SessionOK(me), me.pc = "notify", NEW pc \in {"enqueue", "send"}
  PROVE  /\ [me EXCEPT !.pc = pc] \in SyncSession /\ SessionOK([me EXCEPT !.pc = pc])
         /\ [me EXCEPT !.pc = pc].pc = pc /\ [me EXCEPT !.pc = pc].about = me.about
         /\ [me EXCEPT !.pc = pc].start = me.start /\ [me EXCEPT !.pc = pc].at = me.at
         /\ [me EXCEPT !.pc = pc].more = me.more /\ [me EXCEPT !.pc = pc].batch = me.batch
         /\ [me EXCEPT !.pc = pc].event = me.event /\ [me EXCEPT !.pc = pc].over = me.over
         /\ [me EXCEPT !.pc = pc].ready = me.ready
<1> DEFINE new == [me EXCEPT !.pc = pc]
<1>1. /\ new \in SyncSession /\ new.pc = pc /\ new.about = me.about
      /\ new.start = me.start /\ new.at = me.at /\ new.more = me.more /\ new.batch = me.batch
      /\ new.event = me.event /\ new.over = me.over /\ new.ready = me.ready
  BY DEF SyncSession
<1> HIDE DEF new
<1>2. SessionOK(new)
  BY <1>1 DEF SessionOK
<1> QED
  BY <1>1, <1>2 DEF new

\* The facts about a notification: who it is about, and where its session goes.
LEMMA NotifyFacts ==
  ASSUME ShapeInv, NEW p \in Procs, Notify(p)
  PROVE  /\ proc[p] \in SyncSession /\ SessionOK(proc[p]) /\ proc[p].pc = "notify"
         /\ proc[p].about \in Txs /\ Exists(proc[p].about)
         /\ \E new \in SyncSession :
              /\ proc' = [proc EXCEPT ![p] = new] /\ SessionOK(new)
              /\ new.pc \in {"ready", "fetch", "load", "enqueue", "send"}
              /\ new.start = proc[p].start /\ new.at = proc[p].at /\ new.more = proc[p].more
              /\ new.batch = proc[p].batch /\ new.event = proc[p].event /\ new.over = proc[p].over
              /\ new.pc = "enqueue" => mode = "production"
              /\ new.pc = "send" => /\ mode = "development" /\ new.about = proc[p].about
                                    /\ ~rows[proc[p].about].sent
                                    /\ rows' = [rows EXCEPT ![proc[p].about].sent = TRUE]
              /\ rows' \in {rows, [rows EXCEPT ![proc[p].about].sent = TRUE]}
<1> DEFINE me == proc[p]
           t == me.about
<1>1. me \in SyncSession /\ SessionOK(me) /\ me.pc = "notify"
  BY Mine DEF Notify
<1>2. t \in Txs /\ Exists(t)
  BY <1>1 DEF SessionOK
<1>3. \/ /\ ~rows[t].sent /\ mode = "production"
         /\ proc' = [proc EXCEPT ![p] = [me EXCEPT !.pc = "enqueue"]] /\ rows' = rows
      \/ /\ ~rows[t].sent /\ mode = "development"
         /\ rows' = [rows EXCEPT ![t].sent = TRUE]
         /\ proc' = [proc EXCEPT ![p] = [me EXCEPT !.pc = "send"]]
      \/ /\ rows' \in {rows, [rows EXCEPT ![t].sent = TRUE]}
         /\ proc' = [proc EXCEPT ![p] = Resumed(me)]
  BY DEF Notify, Notifiable
<1> HIDE DEF me
<1>4. CASE mode = "production" /\ proc' = [proc EXCEPT ![p] = [me EXCEPT !.pc = "enqueue"]] /\ rows' = rows
  BY <1>1, <1>2, <1>4, GoesOn DEF me
<1>5. CASE /\ ~rows[t].sent /\ mode = "development"
           /\ rows' = [rows EXCEPT ![t].sent = TRUE]
           /\ proc' = [proc EXCEPT ![p] = [me EXCEPT !.pc = "send"]]
  BY <1>1, <1>2, <1>5, GoesOn DEF me
<1>6. CASE /\ rows' \in {rows, [rows EXCEPT ![t].sent = TRUE]}
           /\ proc' = [proc EXCEPT ![p] = Resumed(me)]
  BY <1>1, <1>2, <1>6, ResumedSession DEF me
<1> QED
  BY <1>3, <1>4, <1>5, <1>6

LEMMA NotifyShape == ASSUME ShapeInv, NEW p \in Procs, Notify(p) PROVE ShapeInv'
<1> DEFINE t == proc[p].about
<1>1. /\ feed' = feed /\ events' = events /\ mode' = mode /\ cursor' = cursor /\ read' = read
      /\ review' = review /\ told' = told /\ steady' = steady /\ lapses' = lapses
      /\ trouble' = trouble
  BY DEF Notify
<1>2. t \in Txs /\ Exists(t) /\ rows' \in {rows, [rows EXCEPT ![t].sent = TRUE]}
  BY NotifyFacts
<1>3. PICK new \in SyncSession : proc' = [proc EXCEPT ![p] = new] /\ SessionOK(new)
  BY NotifyFacts
<1>4. FeedGrows /\ RowsKept
  BY <1>1, <1>2, SameFeed, SameRows, RowMarked
<1>5. RestOK'
  BY <1>1, <1>4, SameRest, NoTrouble DEF ShapeInv, TypeOK
<1> QED
  BY <1>1, <1>3, <1>4, <1>5, SessionProc, RowStep

LEMMA EnqueueFacts ==
  ASSUME ShapeInv, NEW p \in Procs, Enqueue(p)
  PROVE  /\ proc[p] \in SyncSession /\ SessionOK(proc[p]) /\ proc[p].pc = "enqueue"
         /\ proc[p].about \in Txs /\ Exists(proc[p].about)
         /\ Resumed(proc[p]) \in SyncSession /\ SessionOK(Resumed(proc[p]))
         /\ review' \in [Txs -> {"none", "due", "done"}]
         /\ \A u \in Txs : review'[u] = IF u = proc[p].about /\ review[u] = "none"
                                        THEN "due" ELSE review[u]
<1>1. proc[p] \in SyncSession /\ SessionOK(proc[p]) /\ proc[p].pc = "enqueue"
  BY Mine DEF Enqueue
<1>2. proc[p].about \in Txs /\ Exists(proc[p].about)
  BY <1>1 DEF SessionOK
<1>3. /\ review' \in [Txs -> {"none", "due", "done"}]
      /\ \A u \in Txs : review'[u] = IF u = proc[p].about /\ review[u] = "none"
                                     THEN "due" ELSE review[u]
  BY <1>2 DEF Enqueue, ShapeInv, TypeOK
<1> QED
  BY <1>1, <1>2, <1>3, ResumedSession

LEMMA EnqueueShape == ASSUME ShapeInv, NEW p \in Procs, Enqueue(p) PROVE ShapeInv'
<1> DEFINE t == proc[p].about
<1>1. /\ feed' = feed /\ events' = events /\ mode' = mode /\ cursor' = cursor /\ read' = read
      /\ told' = told /\ steady' = steady /\ lapses' = lapses /\ trouble' = trouble
      /\ rows' = [rows EXCEPT ![t].queued = TRUE]
      /\ proc' = [proc EXCEPT ![p] = Resumed(proc[p])]
  BY DEF Enqueue
<1>2. t \in Txs /\ Exists(t)
  BY EnqueueFacts
<1>3. FeedGrows /\ RowsKept
  BY <1>1, <1>2, SameFeed, RowMarked
<1>4. \A u \in Txs : review'[u] # "none" => Exists(u)'
  BY <1>2, <1>3, EnqueueFacts DEF ShapeInv, RowsKept
<1>5. RestOK'
  BY <1>1, <1>4, EnqueueFacts, Parts DEF RestOK
<1> QED
  BY <1>1, <1>3, <1>5, EnqueueFacts, SessionProc, RowStep

LEMMA SendShape == ASSUME ShapeInv, NEW p \in Procs, Send(p) PROVE ShapeInv'
<1> DEFINE t == proc[p].about
<1>1. /\ feed' = feed /\ events' = events /\ mode' = mode /\ cursor' = cursor /\ read' = read
      /\ review' = review /\ steady' = steady /\ lapses' = lapses
      /\ proc' = [proc EXCEPT ![p] = Resumed(proc[p])]
  BY DEF Send
<1>2. \/ told' = [told EXCEPT ![t] = @ + 1] /\ rows' = rows /\ trouble' = trouble
      \/ /\ trouble < MaxTrouble /\ trouble' = trouble + 1
         /\ rows' = [rows EXCEPT ![t].sent = FALSE] /\ told' = told
  BY DEF Send
<1>3. proc[p] \in SyncSession /\ SessionOK(proc[p]) /\ proc[p].pc = "send"
  BY Mine DEF Send
<1>4. t \in Txs /\ Exists(t)
  BY <1>3 DEF SessionOK
<1>5. FeedGrows /\ RowsKept
  BY <1>1, <1>2, <1>4, SameFeed, SameRows, RowMarked
<1>6. RestOK'
  <2>1. RestOK
    BY Parts
  <2>2. told' \in [Txs -> Nat] /\ lapses' \in 0..trouble' /\ trouble' \in 0..MaxTrouble
    BY <1>1, <1>2, <1>4, <2>1, PlaidConstants DEF RestOK
  <2> QED
    BY <1>1, <1>5, <2>1, <2>2 DEF RestOK, RowsKept
<1> QED
  BY <1>1, <1>3, <1>5, <1>6, ResumedSession, SessionProc, RowStep

LEMMA DeliverFacts ==
  ASSUME ShapeInv, NEW p \in Workers, NEW t \in Txs, Deliver(p, t)
  PROVE  /\ p \in Procs /\ proc[p] = Idle /\ review[t] = "due" /\ Exists(t)
         /\ \/ trouble' = trouble /\ lapses' = lapses /\ ~Marked(t)
            \/ trouble < MaxTrouble /\ trouble' = trouble + 1 /\ lapses' = lapses + 1
         /\ \/ /\ review' = [review EXCEPT ![t] = "done"] /\ told' = told /\ proc' = proc
            \/ /\ ~rows[t].sent /\ told' = [told EXCEPT ![t] = @ + 1] /\ review' = review
               /\ proc' = [proc EXCEPT ![p] = [pc |-> "mark", about |-> t]]
BY DEF Deliver, Procs, ShapeInv, Marked

LEMMA DeliverShape ==
  ASSUME ShapeInv, NEW p \in Workers, NEW t \in Txs, Deliver(p, t) PROVE ShapeInv'
<1>1. /\ feed' = feed /\ events' = events /\ rows' = rows /\ mode' = mode /\ cursor' = cursor
      /\ read' = read /\ steady' = steady
  BY DEF Deliver
<1>2. p \in Procs /\ Exists(t)
  BY DeliverFacts
<1>3. FeedGrows /\ FeedOK' /\ EventsGrow /\ RowsKept
  BY <1>1, SameFeed, SameEvents, SameRows
<1>4. RestOK'
  <2>1. RestOK
    BY Parts
  <2>2. lapses' \in 0..trouble' /\ trouble' \in 0..MaxTrouble
    BY <2>1, DeliverFacts, PlaidConstants DEF RestOK
  <2>3. told' \in [Txs -> Nat] /\ review' \in [Txs -> {"none", "due", "done"}]
    BY <2>1, DeliverFacts DEF RestOK
  <2>4. \A u \in Txs : review'[u] # "none" => Exists(u)
    BY <1>2, <2>1, DeliverFacts DEF RestOK
  <2> QED
    BY <1>1, <1>3, <2>1, <2>2, <2>3, <2>4 DEF RestOK, RowsKept
<1>5. ProcOK([pc |-> "mark", about |-> t])
  BY <1>2 DEF ProcOK, Delivery, SyncSession
<1>6. CASE proc' = proc
  BY <1>3, <1>4, <1>6, SameProc, ShapeKept DEF StepKept
<1>7. CASE proc' = [proc EXCEPT ![p] = [pc |-> "mark", about |-> t]]
  BY <1>1, <1>2, <1>4, <1>5, <1>7, OwnStep
<1> QED
  BY <1>6, <1>7, DeliverFacts

LEMMA MarkShape == ASSUME ShapeInv, NEW p \in Procs, Mark(p) PROVE ShapeInv'
<1> DEFINE t == proc[p].about
<1>1. /\ feed' = feed /\ events' = events /\ mode' = mode /\ cursor' = cursor /\ read' = read
      /\ told' = told /\ steady' = steady /\ lapses' = lapses /\ trouble' = trouble
      /\ review' = [review EXCEPT ![t] = "done"]
      /\ proc' = [proc EXCEPT ![p] = Idle]
      /\ rows' = [rows EXCEPT ![t].sent = TRUE, ![t].queued = FALSE]
  BY DEF Mark
<1>2. t \in Txs /\ Exists(t)
  <2>1. proc[p] \in Delivery
    BY ProcKinds DEF Mark, ShapeInv, TypeOK
  <2> QED
    BY <2>1 DEF Mark, ShapeInv, Delivery
<1>3. FeedGrows /\ RowsKept
  BY <1>1, <1>2, SameFeed, RowMarked
<1>4. review' \in [Txs -> {"none", "due", "done"}] /\ \A u \in Txs : review'[u] # "none" => Exists(u)'
  BY <1>1, <1>2, <1>3 DEF ShapeInv, TypeOK, RowsKept
<1>5. RestOK'
  BY <1>1, <1>4, Parts DEF RestOK
<1>6. ProcOK(Idle)
  BY DEF ProcOK, Idle, SyncSession, Delivery
<1> QED
  BY <1>1, <1>3, <1>5, <1>6, RowStep

-----------------------------------------------------------------------------
(* Type correctness *)

LEMMA SameShape == ASSUME ShapeInv, UNCHANGED vars PROVE ShapeInv'
<1>1. FeedGrows /\ FeedOK' /\ EventsGrow /\ RowsKept
  BY SameFeed, SameEvents, SameRows DEF vars
<1>2. RestOK'
  BY RestStays DEF vars
<1> QED
  BY <1>1, <1>2, SameProc, ShapeKept DEF vars, StepKept

LEMMA ShapeStep == ShapeInv /\ [Next]_vars => ShapeInv'
<1> SUFFICES ASSUME ShapeInv, [Next]_vars PROVE ShapeInv'
  OBVIOUS
<1>1. CASE Update \/ Webhook
  BY <1>1, UpdateShape, WebhookShape
<1>2. CASE \E t \in Txs : MarkPersonal(t) \/ Post(t) \/ Reconcile(t)
  BY <1>2, UserShape
<1>3. ASSUME NEW p \in Procs, Step(p) PROVE ShapeInv'
  BY <1>3, FetchShape, LoadShape, WriteShape, ConflictShape, SaveCursorShape, NextReadyShape,
     FinishShape, NotifyShape, EnqueueShape, SendShape, MarkShape DEF Step
<1>4. CASE \E p \in Procs : Fail(p) \/ Die(p)
  BY <1>4, FailShape, DieShape
<1>5. CASE \E p \in Procs, e \in Entries \cup {None} : Begin(p, e)
  BY <1>5, BeginShape
<1>6. CASE \E p \in Workers, t \in Txs : Deliver(p, t)
  BY <1>6, DeliverShape
<1>7. CASE UNCHANGED vars
  BY <1>7, SameShape
<1> QED
  BY <1>1, <1>2, <1>3, <1>4, <1>5, <1>6, <1>7 DEF Next

LEMMA ShapeHolds == Spec => []ShapeInv
BY InitShape, ShapeStep, PTL DEF Spec

\* Every variable keeps its type, and no cursor, page or event is past the end of
\* what Plaid has.
THEOREM TypeCorrect == Spec => []TypeOK
BY ShapeHolds, PTL DEF ShapeInv

-----------------------------------------------------------------------------
(* What was processed was read *)

\* Events keep what they announced, and the saved cursor never goes back.
ReadGrows ==
  /\ DOMAIN events \subseteq DOMAIN events' /\ read <= read'
  /\ \A e \in DOMAIN events : events'[e].upto = events[e].upto

LEMMA ReadIsNat == ShapeInv => read \in Nat
BY DEF ShapeInv, TypeOK

LEMMA ReadStays == ASSUME ShapeInv, events' = events, read' = read PROVE ReadGrows
BY DEF ReadGrows, ShapeInv, TypeOK

LEMMA MarkGrows ==
  ASSUME ShapeInv, feed' = feed, read' = read, NEW e \in DOMAIN events,
         NEW s \in {"syncing", "processed", "failed"}, events' = [events EXCEPT ![e].state = s]
  PROVE  ReadGrows
BY EventMarked DEF ReadGrows, ShapeInv, TypeOK

LEMMA ReadsKept ==
  ASSUME ShapeInv, ReadGrows, read' \in Nat, NEW me \in SyncSession, SessionOK(me), ReadsAll(me)
  PROVE  ReadsAll(me)'
<1>1. me.event # None => me.event \in DOMAIN events /\ events[me.event].upto \in Nat
  BY Positions DEF SessionOK, ShapeInv, EventRow
<1>2. read \in Nat /\ me.at \in Nat
  BY Positions DEF ShapeInv, TypeOK, SyncSession
<1> QED
  BY <1>1, <1>2 DEF ReadGrows, ReadsAll

LEMMA ProcessedKept ==
  ASSUME ShapeInv, ReadInv, events' = events, read' \in Nat, read <= read' PROVE ProcessedIsRead'
<1>1. ASSUME NEW e \in DOMAIN events, events[e].state = "processed" PROVE read' >= events[e].upto
  <2>1. events[e].upto \in Nat /\ read \in Nat
    BY Positions, ReadIsNat DEF ShapeInv, EventRow
  <2>2. read >= events[e].upto
    BY <1>1 DEF ReadInv, ProcessedIsRead
  <2> QED
    BY <2>1, <2>2
<1> QED
  BY <1>1 DEF ProcessedIsRead

\* A step of one process keeps ReadInv if its session still reads all.
LEMMA ReadStep ==
  ASSUME ShapeInv, ReadInv, ReadGrows, read' \in Nat, ProcessedIsRead', NEW p \in Procs,
         NEW me, proc' = [proc EXCEPT ![p] = me], me.pc \in {"idle", "mark"} \/ ReadsAll(me)'
  PROVE  ReadInv'
<1>1. ASSUME NEW q \in Procs, Syncing(q)' PROVE ReadsAll(proc[q])'
  <2>1. CASE q = p
    <3>1. proc'[q] = me
      BY <2>1 DEF ShapeInv, TypeOK
    <3> QED
      BY <1>1, <3>1 DEF Syncing
  <2>2. CASE q # p
    <3>1. proc'[q] = proc[q]
      BY <2>2 DEF ShapeInv, TypeOK
    <3>2. Syncing(q)
      BY <1>1, <3>1 DEF Syncing
    <3>3. proc[q] \in SyncSession /\ SessionOK(proc[q]) /\ ReadsAll(proc[q])
      BY <3>2, Mine DEF Syncing, ReadInv
    <3>4. ASSUME NEW other, other = proc[q] PROVE ReadsAll(other)'
      BY <3>3, <3>4, ReadsKept
    <3> QED
      BY <3>1, <3>4
  <2> QED
    BY <2>1, <2>2
<1> QED
  BY <1>1 DEF ReadInv

LEMMA SameRead ==
  ASSUME ReadInv, events' = events, read' = read, proc' = proc PROVE ReadInv'
BY DEF ReadInv, ProcessedIsRead, ReadsAll, Syncing

\* A session that only goes on within its page, or with its messages.
LEMMA OnwardReads ==
  ASSUME ShapeInv, ReadInv, events' = events, read' = read, NEW p \in Procs,
         NEW me, proc' = [proc EXCEPT ![p] = me], Syncing(p),
         me.event = proc[p].event, me.at = proc[p].at, me.more = proc[p].more,
         me.over = proc[p].over
  PROVE  ReadInv'
<1>1. ReadsAll(proc[p])
  BY DEF ReadInv
<1>2. ReadsAll(me)'
  BY <1>1 DEF ReadsAll
<1>3. read' \in Nat /\ read <= read'
  BY ReadIsNat
<1> QED
  BY <1>2, <1>3, ReadStays, ProcessedKept, ReadStep

LEMMA ReadInit == Init => ReadInv
BY DEF Init, ReadInv, ProcessedIsRead, Syncing, Idle

LEMMA WebhookReads == ASSUME ShapeInv, ReadInv, Webhook PROVE ReadInv'
<1> DEFINE new == [state |-> "queued", upto |-> Len(feed)]
<1>1. events' = Append(events, new) /\ read' = read /\ proc' = proc /\ feed' = feed
  BY DEF Webhook
<1>2. new.state = "queued"
  OBVIOUS
<1> HIDE DEF new
<1>3. /\ DOMAIN events' = 1..(Len(events) + 1) /\ events'[Len(events) + 1] = new
      /\ \A e \in DOMAIN events : e \in DOMAIN events' /\ events'[e] = events[e]
  BY <1>1, Positions DEF ShapeInv, TypeOK
<1>4. ProcessedIsRead'
  <2> SUFFICES ASSUME NEW e \in DOMAIN events', events'[e].state = "processed"
               PROVE  read' >= events'[e].upto
    BY DEF ProcessedIsRead
  <2>1. e \in DOMAIN events
    BY <1>2, <1>3, Positions DEF ShapeInv
  <2> QED
    BY <1>1, <1>3, <2>1 DEF ReadInv, ProcessedIsRead
<1>5. ReadGrows
  BY <1>1, <1>3, ReadIsNat DEF ReadGrows
<1>6. ASSUME NEW p \in Procs, Syncing(p) PROVE ReadsAll(proc[p])'
  <2>1. proc[p] \in SyncSession /\ SessionOK(proc[p]) /\ ReadsAll(proc[p])
    BY <1>6, Mine DEF Syncing, ReadInv
  <2>2. ASSUME NEW me, me = proc[p] PROVE ReadsAll(me)'
    BY <1>1, <1>5, <2>1, <2>2, ReadIsNat, ReadsKept
  <2> QED
    BY <1>1, <2>2
<1> QED
  BY <1>1, <1>4, <1>6 DEF ReadInv, Syncing

LEMMA FetchReads == ASSUME ShapeInv, ReadInv, NEW p \in Procs, Fetch(p) PROVE ReadInv'
<1> DEFINE me == proc[p]
           end == PageEnd(me.at)
           page == (me.at + 1)..end
           more == end < Len(feed)
<1>1. me \in SyncSession /\ SessionOK(me) /\ me.pc = "fetch" /\ ~me.over
  BY Mine DEF Fetch, SessionOK
<1>2. end \in Nat /\ (end = Len(feed) \/ end < Len(feed))
  BY <1>1, PageEndBounds DEF ShapeInv, SessionOK, SyncSession
<1>3. PICK new :
        /\ new = [me EXCEPT !.pc = IF page = {} THEN "fetch" ELSE "load",
                            !.at = end, !.more = more, !.batch = page]
        /\ proc' = [proc EXCEPT ![p] = new] /\ events' = events /\ read' = read
  BY DEF Fetch, Fetched
<1>4. more = (end < Len(feed))
  OBVIOUS
<1> HIDE DEF end, page, more
<1>5. new.at = end /\ new.more = more /\ new.event = me.event /\ new.over = me.over
  BY <1>1, <1>3 DEF SyncSession
<1>6. me.event # None => events[me.event].upto <= Len(feed) /\ events[me.event].upto \in Nat
  BY <1>1, Positions DEF SessionOK, ShapeInv, TypeOK, EventRow
<1>7. ReadsAll(new)
  <2>1. ASSUME new.event # None, ~new.more PROVE new.at >= events[new.event].upto
    BY <1>2, <1>4, <1>5, <1>6, <2>1, Positions DEF ShapeInv
  <2> QED
    BY <1>1, <1>5, <2>1 DEF ReadsAll
<1>8. ReadsAll(new)'
  BY <1>3, <1>7 DEF ReadsAll
<1>9. ReadGrows /\ read' \in Nat /\ ProcessedIsRead'
  BY <1>3, ReadStays, ReadIsNat, ProcessedKept
<1> QED
  BY <1>3, <1>8, <1>9, ReadStep

LEMMA SaveCursorReads == ASSUME ShapeInv, ReadInv, NEW p \in Procs, SaveCursor(p) PROVE ReadInv'
<1> DEFINE me == proc[p]
           due == {t \in Txs : Notifiable(rows[t])} \ me.tried
<1>1. me \in SyncSession /\ SessionOK(me) /\ ReadsAll(me) /\ ~me.more /\ me.at \in Nat
  BY Mine DEF SaveCursor, ReadInv, Syncing, SyncSession
<1>2. PICK new :
        /\ new = [me EXCEPT !.pc = "ready", !.tried = {}, !.over = TRUE, !.ready = due]
        /\ proc' = [proc EXCEPT ![p] = new] /\ events' = events
  BY DEF SaveCursor
<1>3. read' = IF me.at > read THEN me.at ELSE read
  BY DEF SaveCursor
<1> HIDE DEF due
<1>4. new.at = me.at /\ new.more = me.more /\ new.event = me.event
  BY <1>1, <1>2 DEF SyncSession
<1>5. read \in Nat /\ read' \in Nat /\ read <= read' /\ me.at <= read'
  BY <1>1, <1>3, ReadIsNat
<1>6. me.event # None => events[me.event].upto \in Nat
  BY <1>1, Positions DEF SessionOK, ShapeInv, EventRow
<1>7. ReadsAll(new)'
  BY <1>1, <1>2, <1>4, <1>5, <1>6 DEF ReadsAll
<1>8. ReadGrows /\ ProcessedIsRead'
  BY <1>2, <1>5, ProcessedKept DEF ReadGrows
<1> QED
  BY <1>2, <1>5, <1>7, <1>8, ReadStep

LEMMA FinishReads == ASSUME ShapeInv, ReadInv, NEW p \in Procs, Finish(p) PROVE ReadInv'
<1>1. /\ proc[p] \in SyncSession /\ SessionOK(proc[p]) /\ ReadsAll(proc[p])
      /\ proc[p].pc = "ready"
  BY Mine DEF Finish, ReadInv, Syncing
<1>2. proc' = [proc EXCEPT ![p] = Idle] /\ read' = read /\ feed' = feed /\ Idle.pc = "idle"
  BY DEF Finish, Idle
<1>3. CASE proc[p].event = None
  <2>1. events' = events
    BY <1>3 DEF Finish
  <2>2. ReadGrows /\ ProcessedIsRead' /\ read' \in Nat
    BY <1>2, <2>1, ReadStays, ReadIsNat, ProcessedKept
  <2> QED
    BY <1>2, <2>2, ReadStep
<1>4. CASE proc[p].event # None
  <2> DEFINE e == proc[p].event
  <2>1. e \in DOMAIN events /\ events' = [events EXCEPT ![e].state = "processed"]
    BY <1>1, <1>4 DEF Finish, SessionOK
  <2>2. read >= events[e].upto
    BY <1>1, <1>4 DEF ReadsAll, SessionOK
  <2>3. ReadGrows
    BY <1>2, <2>1, MarkGrows
  <2>4. /\ DOMAIN events' = DOMAIN events
        /\ \A i \in DOMAIN events : events'[i].upto = events[i].upto
        /\ \A i \in DOMAIN events \ {e} : events'[i] = events[i]
    BY <1>2, <2>1, EventMarked
  <2> HIDE DEF e
  <2>5. ProcessedIsRead'
    BY <1>2, <2>2, <2>4 DEF ReadInv, ProcessedIsRead
  <2> QED
    BY <1>2, <2>3, <2>5, ReadIsNat, ReadStep
<1> QED
  BY <1>3, <1>4

\* An event that a sync takes, or has failed with, does not count as processed.
LEMMA UnprocessedReads ==
  ASSUME ShapeInv, ReadInv, feed' = feed, read' = read, NEW e \in DOMAIN events,
         NEW s \in {"syncing", "failed"}, events' = [events EXCEPT ![e].state = s]
  PROVE  ReadGrows /\ ProcessedIsRead'
<1>1. /\ DOMAIN events' = DOMAIN events /\ events'[e].state = s
      /\ \A i \in DOMAIN events \ {e} : events'[i] = events[i]
  BY EventMarked
<1>2. ProcessedIsRead'
  BY <1>1 DEF ReadInv, ProcessedIsRead
<1> QED
  BY <1>2, MarkGrows

LEMMA FailReads == ASSUME ShapeInv, ReadInv, NEW p \in Procs, Fail(p) PROVE ReadInv'
<1>1. proc' = [proc EXCEPT ![p] = Idle] /\ read' = read /\ feed' = feed /\ Idle.pc = "idle"
  BY DEF Fail, Idle
<1>2. proc[p] \in SyncSession /\ SessionOK(proc[p])
  BY Mine DEF Fail, Syncing
<1>3. ReadGrows /\ ProcessedIsRead'
  <2>1. CASE proc[p].event = None
    BY <1>1, <2>1, ReadStays, ReadIsNat, ProcessedKept DEF Fail
  <2>2. CASE proc[p].event # None
    <3>1. /\ proc[p].event \in DOMAIN events
          /\ events' = [events EXCEPT ![proc[p].event].state = "failed"]
      BY <1>2, <2>2 DEF Fail, SessionOK
    <3> QED
      BY <1>1, <3>1, UnprocessedReads
  <2> QED
    BY <2>1, <2>2
<1> QED
  BY <1>1, <1>3, ReadIsNat, ReadStep

LEMMA BeginReads == ASSUME ShapeInv, ReadInv, NEW p \in Procs, NEW e, Begin(p, e) PROVE ReadInv'
<1>1. read' = read /\ feed' = feed
  BY DEF Begin
<1>2. ReadGrows /\ ProcessedIsRead'
  <2>1. CASE events' = events
    BY <1>1, <2>1, ReadStays, ReadIsNat, ProcessedKept
  <2>2. CASE e \in DOMAIN events /\ events' = [events EXCEPT ![e].state = "syncing"]
    BY <1>1, <2>2, UnprocessedReads
  <2> QED
    BY <2>1, <2>2, BeginFacts
<1>3. PICK new : new = Begun(e)
  OBVIOUS
<1>4. ReadsAll(new)'
  BY <1>3 DEF ReadsAll, Begun
<1>5. proc' = [proc EXCEPT ![p] = new]
  BY <1>3, BeginFacts
<1> QED
  BY <1>1, <1>2, <1>4, <1>5, ReadIsNat, ReadStep

\* A process that leaves its sync, or delivers a message, reads nothing.
LEMMA LeavingReads ==
  ASSUME ShapeInv, ReadInv, events' = events, read' = read, NEW p \in Procs,
         NEW me, proc' = [proc EXCEPT ![p] = me], me.pc \in {"idle", "mark"}
  PROVE  ReadInv'
<1>1. ReadGrows /\ ProcessedIsRead' /\ read' \in Nat
  BY ReadStays, ReadIsNat, ProcessedKept
<1> QED
  BY <1>1, ReadStep

LEMMA StepReads == ASSUME ShapeInv, ReadInv, NEW p \in Procs, Step(p) PROVE ReadInv'
<1> DEFINE Onward(me) == /\ proc' = [proc EXCEPT ![p] = me]
                         /\ me.event = proc[p].event /\ me.at = proc[p].at
                         /\ me.more = proc[p].more /\ me.over = proc[p].over
<1>1. ASSUME events' = events, read' = read, Syncing(p), NEW me, Onward(me) PROVE ReadInv'
  BY <1>1, OnwardReads
<1> HIDE DEF Onward
<1>2. CASE Load(p)
  <2>1. proc[p] \in SyncSession /\ events' = events /\ read' = read /\ Syncing(p)
    BY <1>2, Mine DEF Load, Syncing
  <2>2. PICK i \in proc[p].batch :
       proc' = [proc EXCEPT ![p] = [proc[p] EXCEPT !.pc = "write", !.next = i, !.again = FALSE,
                                                   !.row = rows[feed[i].tx]]]
    BY <1>2 DEF Load
  <2>3. Onward([proc[p] EXCEPT !.pc = "write", !.next = i, !.again = FALSE,
                               !.row = rows[feed[i].tx]])
    BY <2>1, <2>2 DEF SyncSession, Onward
  <2> QED
    BY <1>1, <2>1, <2>3
<1>3. CASE Write(p)
  <2>1. PICK pc \in {"notify", "fetch", "load"}, about \in Txs \cup {None}, tried \in SUBSET Txs :
          proc' = [proc EXCEPT ![p] = AfterWrite(proc[p], pc, about, tried)]
    BY <1>3, WriteFacts
  <2>2. proc[p] \in SyncSession /\ events' = events /\ read' = read /\ Syncing(p)
    BY <1>3, Mine DEF Write, Syncing
  <2>3. Onward(AfterWrite(proc[p], pc, about, tried))
    BY <2>1, <2>2, AfterWriteSession DEF Onward
  <2> QED
    BY <1>1, <2>2, <2>3
<1>4. CASE Conflict(p)
  <2>1. proc[p] \in SyncSession /\ events' = events /\ read' = read /\ Syncing(p)
    BY <1>4, Mine DEF Conflict, Syncing
  <2>2. Onward([proc[p] EXCEPT !.row = rows[feed[proc[p].next].tx], !.again = TRUE])
    BY <1>4, <2>1 DEF Conflict, SyncSession, Onward
  <2> QED
    BY <1>1, <2>1, <2>2
<1>5. CASE NextReady(p)
  <2>1. proc[p] \in SyncSession /\ events' = events /\ read' = read /\ Syncing(p)
    BY <1>5, Mine DEF NextReady, Syncing
  <2>2. PICK t \in proc[p].ready :
          proc' = [proc EXCEPT ![p] = [proc[p] EXCEPT !.pc = "notify", !.about = t, !.ready = @ \ {t}]]
    BY <1>5 DEF NextReady
  <2>3. Onward([proc[p] EXCEPT !.pc = "notify", !.about = t, !.ready = @ \ {t}])
    BY <2>1, <2>2 DEF SyncSession, Onward
  <2> QED
    BY <1>1, <2>1, <2>3
<1>6. CASE Notify(p)
  <2>1. PICK new \in SyncSession :
          /\ proc' = [proc EXCEPT ![p] = new] /\ new.at = proc[p].at /\ new.more = proc[p].more
          /\ new.event = proc[p].event /\ new.over = proc[p].over
    BY <1>6, NotifyFacts
  <2>2. events' = events /\ read' = read /\ Syncing(p)
    BY <1>6 DEF Notify, Syncing
  <2> QED
    BY <1>1, <2>1, <2>2 DEF Onward
<1>7. CASE Enqueue(p) \/ Send(p)
  <2>1. /\ proc[p] \in SyncSession /\ SessionOK(proc[p]) /\ proc[p].pc \in {"enqueue", "send"}
        /\ events' = events /\ read' = read /\ Syncing(p)
        /\ proc' = [proc EXCEPT ![p] = Resumed(proc[p])]
    BY <1>7, Mine DEF Enqueue, Send, Syncing
  <2>2. Onward(Resumed(proc[p]))
    BY <2>1, ResumedSession DEF Onward
  <2> QED
    BY <1>1, <2>1, <2>2
<1>8. CASE Mark(p)
  <2>1. events' = events /\ read' = read /\ proc' = [proc EXCEPT ![p] = Idle] /\ Idle.pc = "idle"
    BY <1>8 DEF Mark, Idle
  <2> QED
    BY <2>1, LeavingReads
<1> QED
  BY <1>2, <1>3, <1>4, <1>5, <1>6, <1>7, <1>8, FetchReads, SaveCursorReads, FinishReads DEF Step

LEMMA ReadStepInv == ShapeInv /\ ReadInv /\ [Next]_vars => ReadInv'
<1> SUFFICES ASSUME ShapeInv, ReadInv, [Next]_vars PROVE ReadInv'
  OBVIOUS
<1>1. CASE Update
  BY <1>1, SameRead DEF Update
<1>2. CASE Webhook
  BY <1>2, WebhookReads
<1>3. ASSUME NEW t \in Txs, MarkPersonal(t) \/ Post(t) \/ Reconcile(t) PROVE ReadInv'
  BY <1>3, SameRead DEF MarkPersonal, Post, Reconcile
<1>4. ASSUME NEW p \in Procs, Die(p) PROVE ReadInv'
  <2>1. events' = events /\ read' = read /\ proc' = [proc EXCEPT ![p] = Idle] /\ Idle.pc = "idle"
    BY <1>4 DEF Die, Idle
  <2> QED
    BY <2>1, LeavingReads
<1>5. ASSUME NEW p \in Workers, NEW t \in Txs, Deliver(p, t) PROVE ReadInv'
  <2>1. events' = events /\ read' = read /\ p \in Procs
    BY <1>5 DEF Deliver, Procs
  <2>2. CASE proc' = proc
    BY <2>1, <2>2, SameRead
  <2>3. CASE proc' = [proc EXCEPT ![p] = [pc |-> "mark", about |-> t]]
    BY <2>1, <2>3, LeavingReads
  <2> QED
    BY <1>5, <2>2, <2>3, DeliverFacts
<1>6. CASE UNCHANGED vars
  BY <1>6, SameRead DEF vars
<1> QED
  BY <1>1, <1>2, <1>3, <1>4, <1>5, <1>6, StepReads, FailReads, BeginReads DEF Next

\* A webhook event counts as processed only when a saved cursor has passed every update
\* it announced, however many syncs share it, fail or die.
THEOREM ProcessedHolds == Spec => []ProcessedIsRead
BY ReadInit, ReadStepInv, ShapeHolds, PTL DEF Spec, ReadInv

-----------------------------------------------------------------------------
(* Nobody is asked twice *)

KeepsSent == \A t \in Txs : rows[t].sent => rows'[t].sent

LEMMA ToldInit == Init => ToldInv
BY AbsentRow DEF Init, ToldInv, ToldByOutbox, ToldByClaim, Marked, Sends, Idle

LEMMA Counts ==
  ASSUME ShapeInv
  PROVE  /\ lapses \in Nat /\ \A t \in Txs : told[t] \in Nat
         /\ mode = "production" \/ mode = "development"
BY PlaidConstants DEF ShapeInv, TypeOK

LEMMA SameTold ==
  ASSUME ToldInv, mode' = mode, review' = review, told' = told, lapses' = lapses, proc' = proc,
         KeepsSent
  PROVE  ToldInv'
<1>1. \A t : Marked(t)' = Marked(t)
  BY DEF Marked
<1>2. \A p, t : Sends(p, t)' = Sends(p, t)
  BY DEF Sends
<1>3. CASE mode = "production"
  BY <1>1, <1>3 DEF ToldInv, ToldByOutbox
<1>4. CASE mode # "production"
  BY <1>1, <1>2, <1>4 DEF ToldInv, ToldByClaim, KeepsSent
<1> QED
  BY <1>3, <1>4

\* A step of one process that neither takes nor gives up a delivery, and sends nothing.
LEMMA QuietStep ==
  ASSUME ShapeInv, ToldInv, mode' = mode, review' = review, told' = told, KeepsSent,
         lapses' \in Nat, lapses <= lapses', NEW p \in Procs,
         NEW me, proc' = [proc EXCEPT ![p] = me], proc[p].pc # "mark",
         me.pc \notin {"mark", "send"}, me.pc = "enqueue" => mode = "production"
  PROVE  ToldInv'
<1>1. proc'[p] = me /\ \A q \in Procs \ {p} : proc'[q] = proc[q]
  BY DEF ShapeInv, TypeOK
<1>2. ASSUME NEW t PROVE Marked(t)' <=> Marked(t)
  BY <1>1 DEF Marked
<1>3. ASSUME NEW q \in Procs, NEW t, Sends(q, t)' PROVE Sends(q, t)
  BY <1>1, <1>3 DEF Sends
<1>4. CASE mode = "production"
  <2>1. \A q \in Procs : proc'[q].pc # "send"
    BY <1>1, <1>4 DEF ToldInv, ToldByOutbox
  <2>2. ASSUME NEW t \in Txs
        PROVE  /\ review[t] = "none" => told[t] = 0 /\ ~Marked(t)
               /\ told[t] <= lapses' + 1
               /\ review[t] = "due" /\ ~Marked(t) => told[t] <= lapses'
    BY <1>4, Counts DEF ToldInv, ToldByOutbox
  <2> QED
    BY <1>2, <1>4, <2>1, <2>2 DEF ToldInv, ToldByOutbox
<1>5. CASE mode # "production"
  <2>1. \A q \in Procs : proc'[q].pc # "enqueue"
    BY <1>1, <1>5 DEF ToldInv, ToldByClaim
  <2>2. \A t \in Txs : told[t] = 1 => rows'[t].sent
    BY <1>5 DEF ToldInv, ToldByClaim, KeepsSent
  <2>3. \A q \in Procs, t \in Txs : Sends(q, t)' => told[t] = 0 /\ rows'[t].sent
    BY <1>3, <1>5 DEF ToldInv, ToldByClaim, KeepsSent
  <2>4. \A q, r \in Procs, t \in Txs : Sends(q, t)' /\ Sends(r, t)' => q = r
    BY <1>3, <1>5 DEF ToldInv, ToldByClaim
  <2> QED
    BY <1>2, <1>5, <2>1, <2>2, <2>3, <2>4 DEF ToldInv, ToldByClaim
<1> QED
  BY <1>4, <1>5

LEMMA SameSent == ASSUME rows' = rows PROVE KeepsSent
BY DEF KeepsSent

LEMMA UserSent ==
  ASSUME ShapeInv, NEW t \in Txs, MarkPersonal(t) \/ Post(t) \/ Reconcile(t)
  PROVE  KeepsSent
<1>1. rows \in [Txs -> Row]
  BY DEF ShapeInv, TypeOK
<1>2. CASE MarkPersonal(t)
  BY <1>1, <1>2 DEF MarkPersonal, KeepsSent, Row
<1>3. CASE Post(t)
  BY <1>1, <1>3 DEF Post, KeepsSent, Row
<1>4. CASE Reconcile(t)
  BY <1>1, <1>4 DEF Reconcile, KeepsSent, Row
<1> QED
  BY <1>2, <1>3, <1>4

LEMMA WriteSent ==
  ASSUME ShapeInv, NEW p \in Procs, Write(p) PROVE KeepsSent
BY WriteFacts, AppliedRows DEF KeepsSent

LEMMA NotifyTold == ASSUME ShapeInv, ToldInv, NEW p \in Procs, Notify(p) PROVE ToldInv'
<1> DEFINE me == proc[p]
           t == me.about
<1>1. /\ mode' = mode /\ review' = review /\ told' = told /\ lapses' = lapses
  BY DEF Notify
<1>2. t \in Txs /\ me.pc = "notify" /\ rows \in [Txs -> Row]
  BY NotifyFacts DEF ShapeInv, TypeOK
<1>3. PICK new \in SyncSession :
        /\ proc' = [proc EXCEPT ![p] = new]
        /\ new.pc \in {"ready", "fetch", "load", "enqueue", "send"}
        /\ new.pc = "enqueue" => mode = "production"
        /\ new.pc = "send" => /\ mode = "development" /\ new.about = t /\ ~rows[t].sent
                              /\ rows' = [rows EXCEPT ![t].sent = TRUE]
        /\ rows' \in {rows, [rows EXCEPT ![t].sent = TRUE]}
  BY NotifyFacts
<1>4. KeepsSent
  <2>1. CASE rows' = [rows EXCEPT ![t].sent = TRUE]
    BY <1>2, <2>1 DEF KeepsSent, Row
  <2> QED
    BY <1>3, <2>1 DEF KeepsSent
<1>5. CASE new.pc # "send"
  <2>1. lapses' \in Nat /\ lapses <= lapses'
    BY <1>1, Counts
  <2> QED
    BY <1>1, <1>2, <1>3, <1>4, <1>5, <2>1, QuietStep
<1>6. CASE new.pc = "send"
  <2>1. mode # "production" /\ ToldByClaim /\ ~rows[t].sent /\ new.about = t
    BY <1>3, <1>6 DEF ToldInv
  <2>2. rows'[t].sent
    BY <1>2, <1>3, <1>6 DEF Row
  <2>3. told[t] = 0
    BY <1>2, <2>1, Counts DEF ToldByClaim
  <2>4. \A q \in Procs : ~Sends(q, t)
    BY <1>2, <2>1 DEF ToldByClaim
  <2>5. proc'[p] = new /\ \A q \in Procs \ {p} : proc'[q] = proc[q]
    BY <1>3 DEF ShapeInv, TypeOK
  <2>6. \A u \in Txs : ~Marked(u)'
    BY <1>6, <2>1, <2>5 DEF ToldByClaim, Marked
  <2>7. \A q \in Procs : proc'[q].pc # "enqueue"
    BY <1>6, <2>1, <2>5 DEF ToldByClaim
  <2>8. \A q \in Procs, u \in Txs : Sends(q, u)' => (q = p /\ u = t) \/ (u # t /\ Sends(q, u))
    BY <1>6, <2>1, <2>4, <2>5 DEF Sends
  <2>9. \A q \in Procs, u \in Txs : Sends(q, u)' => told[u] = 0 /\ rows'[u].sent
    BY <1>4, <2>1, <2>2, <2>3, <2>8 DEF ToldByClaim, KeepsSent
  <2>10. \A q, r \in Procs, u \in Txs : Sends(q, u)' /\ Sends(r, u)' => q = r
    BY <2>1, <2>8 DEF ToldByClaim
  <2>11. \A u \in Txs : told[u] = 1 => rows'[u].sent
    BY <1>4, <2>1 DEF ToldByClaim, KeepsSent
  <2>12. ToldByClaim'
    BY <1>1, <2>1, <2>6, <2>7, <2>9, <2>10, <2>11 DEF ToldByClaim
  <2> QED
    BY <1>1, <2>1, <2>12 DEF ToldInv
<1> QED
  BY <1>5, <1>6

LEMMA EnqueueTold == ASSUME ShapeInv, ToldInv, NEW p \in Procs, Enqueue(p) PROVE ToldInv'
<1>1. /\ mode' = mode /\ told' = told /\ lapses' = lapses
      /\ proc' = [proc EXCEPT ![p] = Resumed(proc[p])] /\ proc[p].pc = "enqueue"
  BY DEF Enqueue
<1>2. mode = "production" /\ ToldByOutbox
  BY <1>1 DEF ToldInv, ToldByClaim
<1>3. \A u \in Txs : review'[u] = IF u = proc[p].about /\ review[u] = "none" THEN "due" ELSE review[u]
  BY EnqueueFacts
<1>4. Resumed(proc[p]).pc \in {"ready", "fetch", "load"}
  BY EnqueueFacts, ResumedSession
<1>5. proc'[p] = Resumed(proc[p]) /\ \A q \in Procs \ {p} : proc'[q] = proc[q]
  BY <1>1 DEF ShapeInv, TypeOK
<1>6. \A u \in Txs : Marked(u)' <=> Marked(u)
  BY <1>1, <1>4, <1>5 DEF Marked
<1>7. \A q \in Procs : proc'[q].pc # "send"
  BY <1>2, <1>4, <1>5 DEF ToldByOutbox
<1>8. ASSUME NEW u \in Txs
      PROVE  /\ review'[u] = "none" => told[u] = 0 /\ ~Marked(u)
             /\ told[u] <= lapses + 1
             /\ review'[u] = "due" /\ ~Marked(u) => told[u] <= lapses
  BY <1>2, <1>3, Counts DEF ToldByOutbox
<1>9. ToldByOutbox'
  BY <1>1, <1>6, <1>7, <1>8 DEF ToldByOutbox
<1> QED
  BY <1>1, <1>2, <1>9 DEF ToldInv

LEMMA SendTold == ASSUME ShapeInv, ToldInv, NEW p \in Procs, Send(p) PROVE ToldInv'
<1> DEFINE t == proc[p].about
<1>1. /\ mode' = mode /\ review' = review /\ lapses' = lapses
      /\ proc' = [proc EXCEPT ![p] = Resumed(proc[p])] /\ proc[p].pc = "send"
  BY DEF Send
<1>2. mode # "production" /\ ToldByClaim
  BY <1>1 DEF ToldInv, ToldByOutbox
<1>3. proc[p] \in SyncSession /\ SessionOK(proc[p])
  BY <1>1, Mine
<1>4. t \in Txs
  BY <1>1, <1>3 DEF SessionOK
<1>5. Resumed(proc[p]).pc \in {"ready", "fetch", "load"}
  BY <1>1, <1>3, ResumedSession
<1>6. proc'[p] = Resumed(proc[p]) /\ \A q \in Procs \ {p} : proc'[q] = proc[q]
  BY <1>1 DEF ShapeInv, TypeOK
<1>7. Sends(p, t) /\ told[t] = 0 /\ rows[t].sent
  BY <1>1, <1>2, <1>4 DEF Sends, ToldByClaim
<1>8. \A q \in Procs, u \in Txs : Sends(q, u)' => u # t /\ Sends(q, u)
  BY <1>2, <1>4, <1>5, <1>6, <1>7 DEF Sends, ToldByClaim
<1>9. /\ told' \in [Txs -> Nat] /\ told'[t] \in {0, 1}
      /\ told'[t] = 1 => rows'[t].sent
      /\ \A u \in Txs \ {t} : told'[u] = told[u] /\ rows'[u] = rows[u]
  <2>1. CASE told' = [told EXCEPT ![t] = @ + 1] /\ rows' = rows
    BY <1>4, <1>7, <2>1 DEF ShapeInv, TypeOK
  <2>2. CASE told' = told /\ rows' = [rows EXCEPT ![t].sent = FALSE]
    BY <1>4, <1>7, <2>2 DEF ShapeInv, TypeOK
  <2> QED
    BY <2>1, <2>2 DEF Send
<1>10. \A u \in Txs : ~Marked(u)'
  BY <1>2, <1>5, <1>6 DEF ToldByClaim, Marked
<1>11. \A q \in Procs : proc'[q].pc # "enqueue"
  BY <1>2, <1>5, <1>6 DEF ToldByClaim
<1>12. \A u \in Txs : told'[u] <= 1 /\ (told'[u] = 1 => rows'[u].sent)
  BY <1>2, <1>9 DEF ToldByClaim
<1>13. \A q \in Procs, u \in Txs : Sends(q, u)' => told'[u] = 0 /\ rows'[u].sent
  BY <1>2, <1>8, <1>9 DEF ToldByClaim
<1>14. \A q, r \in Procs, u \in Txs : Sends(q, u)' /\ Sends(r, u)' => q = r
  BY <1>2, <1>8 DEF ToldByClaim
<1>15. ToldByClaim'
  BY <1>1, <1>2, <1>10, <1>11, <1>12, <1>13, <1>14 DEF ToldByClaim
<1> QED
  BY <1>1, <1>2, <1>15 DEF ToldInv

LEMMA DeliverTold ==
  ASSUME ShapeInv, ToldInv, NEW p \in Workers, NEW t \in Txs, Deliver(p, t) PROVE ToldInv'
<1>1. mode' = mode /\ rows' = rows
  BY DEF Deliver
<1>2. p \in Procs /\ proc[p] = Idle /\ Idle.pc = "idle" /\ review[t] = "due"
  BY DeliverFacts DEF Idle
<1>3. mode = "production" /\ ToldByOutbox
  BY <1>2 DEF ToldInv, ToldByClaim
<1>4. /\ lapses \in Nat /\ lapses' \in {lapses, lapses + 1}
      /\ lapses' = lapses => ~Marked(t)
  BY DeliverFacts, Counts
<1>5. told[t] <= lapses'
  BY <1>2, <1>3, <1>4, Counts DEF ToldByOutbox
<1>6. CASE review' = [review EXCEPT ![t] = "done"] /\ told' = told /\ proc' = proc
  <2>1. review'[t] = "done" /\ \A u \in Txs \ {t} : review'[u] = review[u]
    BY <1>6 DEF ShapeInv, TypeOK
  <2>2. \A u \in Txs : Marked(u)' = Marked(u)
    BY <1>6 DEF Marked
  <2>3. ASSUME NEW u \in Txs
        PROVE  /\ review'[u] = "none" => told[u] = 0 /\ ~Marked(u)
               /\ told[u] <= lapses' + 1
               /\ review'[u] = "due" /\ ~Marked(u) => told[u] <= lapses'
    BY <1>3, <1>4, <2>1, Counts DEF ToldByOutbox
  <2>4. ToldByOutbox'
    BY <1>3, <1>6, <2>2, <2>3 DEF ToldByOutbox
  <2> QED
    BY <1>1, <1>3, <2>4 DEF ToldInv
<1>7. CASE /\ told' = [told EXCEPT ![t] = @ + 1] /\ review' = review
           /\ proc' = [proc EXCEPT ![p] = [pc |-> "mark", about |-> t]]
  <2>1. told'[t] = told[t] + 1 /\ \A u \in Txs \ {t} : told'[u] = told[u]
    BY <1>7 DEF ShapeInv, TypeOK
  <2>2. /\ proc'[p].pc = "mark" /\ proc'[p].about = t
        /\ \A q \in Procs \ {p} : proc'[q] = proc[q]
    BY <1>2, <1>7 DEF ShapeInv, TypeOK
  <2>3. Marked(t)' /\ \A u \in Txs \ {t} : Marked(u)' <=> Marked(u)
    BY <1>2, <2>2 DEF Marked
  <2>4. \A q \in Procs : proc'[q].pc # "send"
    BY <1>3, <2>2 DEF ToldByOutbox
  <2>5. ASSUME NEW u \in Txs \ {t}
        PROVE  /\ review[u] = "none" => told[u] = 0 /\ ~Marked(u)
               /\ told[u] <= lapses' + 1
               /\ review[u] = "due" /\ ~Marked(u) => told[u] <= lapses'
    BY <1>3, <1>4, Counts DEF ToldByOutbox
  <2>6. told'[t] <= lapses' + 1
    BY <1>4, <1>5, <2>1, Counts
  <2>7. ASSUME NEW u \in Txs
        PROVE  /\ review[u] = "none" => told'[u] = 0 /\ ~Marked(u)'
               /\ told'[u] <= lapses' + 1
               /\ review[u] = "due" /\ ~Marked(u)' => told'[u] <= lapses'
    BY <1>2, <2>1, <2>3, <2>5, <2>6
  <2>8. ToldByOutbox'
    BY <1>7, <2>4, <2>7 DEF ToldByOutbox
  <2> QED
    BY <1>1, <1>3, <2>8 DEF ToldInv
<1> QED
  BY <1>6, <1>7, DeliverFacts

\* A delivery ends: its message is recorded, or its process has died.
LEMMA EndTold ==
  ASSUME ShapeInv, ToldInv, mode' = mode, told' = told, NEW p \in Procs,
         proc[p].pc = "mark", proc' = [proc EXCEPT ![p] = Idle],
         \/ lapses' = lapses /\ review' = [review EXCEPT ![proc[p].about] = "done"]
         \/ lapses' = lapses + 1 /\ review' = review
  PROVE  ToldInv'
<1> DEFINE t == proc[p].about
<1>1. t \in Txs
  BY ProcKinds DEF ShapeInv, TypeOK, Delivery
<1>2. Marked(t)
  BY DEF Marked
<1>3. mode = "production" /\ ToldByOutbox
  BY <1>1, <1>2 DEF ToldInv, ToldByClaim
<1>4. proc'[p].pc = "idle" /\ \A q \in Procs \ {p} : proc'[q] = proc[q]
  BY DEF ShapeInv, TypeOK, Idle
<1>5. \A u \in Txs : Marked(u)' => Marked(u)
  BY <1>4 DEF Marked
<1>6. \A u \in Txs \ {t} : Marked(u) => Marked(u)'
  BY <1>4 DEF Marked
<1>7. \A q \in Procs : proc'[q].pc # "send"
  BY <1>3, <1>4 DEF ToldByOutbox
<1>8. lapses \in Nat /\ \A u \in Txs : told[u] \in Nat
  BY Counts
<1>9. CASE lapses' = lapses /\ review' = [review EXCEPT ![t] = "done"]
  <2>1. review'[t] = "done" /\ \A u \in Txs \ {t} : review'[u] = review[u]
    BY <1>1, <1>9 DEF ShapeInv, TypeOK
  <2>2. ASSUME NEW u \in Txs
        PROVE  /\ review'[u] = "none" => told[u] = 0 /\ ~Marked(u)'
               /\ told[u] <= lapses' + 1
               /\ review'[u] = "due" /\ ~Marked(u)' => told[u] <= lapses'
    BY <1>3, <1>5, <1>6, <1>9, <2>1 DEF ToldByOutbox
  <2>3. ToldByOutbox'
    BY <1>7, <2>2 DEF ToldByOutbox
  <2> QED
    BY <1>3, <2>3 DEF ToldInv
<1>10. CASE lapses' = lapses + 1 /\ review' = review
  <2>1. ASSUME NEW u \in Txs
        PROVE  /\ review[u] = "none" => told[u] = 0 /\ ~Marked(u)'
               /\ told[u] <= lapses' + 1
               /\ review[u] = "due" /\ ~Marked(u)' => told[u] <= lapses'
    BY <1>3, <1>5, <1>8, <1>10 DEF ToldByOutbox
  <2>2. ToldByOutbox'
    BY <1>7, <1>10, <2>1 DEF ToldByOutbox
  <2> QED
    BY <1>3, <2>2 DEF ToldInv
<1> QED
  BY <1>9, <1>10

LEMMA ToldStep == ShapeInv /\ ToldInv /\ [Next]_vars => ToldInv'
<1> SUFFICES ASSUME ShapeInv, ToldInv, [Next]_vars PROVE ToldInv'
  OBVIOUS
<1> DEFINE Quiet(p, me) ==
      /\ mode' = mode /\ review' = review /\ told' = told /\ lapses' = lapses
      /\ proc' = [proc EXCEPT ![p] = me]
<1>1. ASSUME NEW p \in Procs, NEW me, Quiet(p, me), KeepsSent, proc[p].pc # "mark",
             me.pc \notin {"mark", "send", "enqueue"}
      PROVE  ToldInv'
  <2>1. lapses' \in Nat /\ lapses <= lapses'
    BY <1>1, Counts
  <2> QED
    BY <1>1, <2>1, QuietStep
<1> HIDE DEF Quiet
<1>2. CASE Update \/ Webhook
  BY <1>2, SameSent, SameTold DEF Update, Webhook
<1>3. ASSUME NEW t \in Txs, MarkPersonal(t) \/ Post(t) \/ Reconcile(t) PROVE ToldInv'
  BY <1>3, UserSent, SameTold DEF MarkPersonal, Post, Reconcile
<1>4. ASSUME NEW p \in Procs, Step(p) PROVE ToldInv'
  <2>1. CASE Fetch(p)
    <3>1. proc[p] \in SyncSession /\ SessionOK(proc[p]) /\ proc[p].pc = "fetch"
      BY <2>1, Mine DEF Fetch
    <3>2. Fetched(proc[p]).pc \in {"fetch", "load"}
      BY <3>1 DEF Fetched, SyncSession
    <3>3. Quiet(p, Fetched(proc[p])) /\ KeepsSent
      BY <2>1, SameSent DEF Fetch, Quiet
    <3> QED
      BY <1>1, <3>1, <3>2, <3>3
  <2>2. CASE Load(p)
    <3>1. proc[p] \in SyncSession /\ proc[p].pc = "load"
      BY <2>2, Mine DEF Load
    <3>2. PICK i \in proc[p].batch :
            proc' = [proc EXCEPT ![p] = [proc[p] EXCEPT !.pc = "write", !.next = i, !.again = FALSE,
                                                        !.row = rows[feed[i].tx]]]
      BY <2>2 DEF Load
    <3> DEFINE new == [proc[p] EXCEPT !.pc = "write", !.next = i, !.again = FALSE,
                                      !.row = rows[feed[i].tx]]
    <3>3. new.pc = "write" /\ Quiet(p, new) /\ KeepsSent
      BY <2>2, <3>1, <3>2, SameSent DEF Load, Quiet, SyncSession
    <3> HIDE DEF new
    <3> QED
      BY <1>1, <3>1, <3>3
  <2>3. CASE Write(p)
    <3>1. PICK pc \in {"notify", "fetch", "load"}, about \in Txs \cup {None}, tried \in SUBSET Txs :
            proc' = [proc EXCEPT ![p] = AfterWrite(proc[p], pc, about, tried)]
      BY <2>3, WriteFacts
    <3>2. proc[p] \in SyncSession /\ proc[p].pc = "write"
      BY <2>3, WriteFacts
    <3>3. AfterWrite(proc[p], pc, about, tried).pc = pc
      BY <3>2, AfterWriteSession
    <3>4. Quiet(p, AfterWrite(proc[p], pc, about, tried)) /\ KeepsSent
      BY <2>3, <3>1, WriteSent DEF Write, Quiet
    <3> QED
      BY <1>1, <3>2, <3>3, <3>4
  <2>4. CASE Conflict(p)
    <3> DEFINE new == [proc[p] EXCEPT !.row = rows[feed[proc[p].next].tx], !.again = TRUE]
    <3>1. proc[p] \in SyncSession /\ proc[p].pc = "write"
      BY <2>4, Mine DEF Conflict
    <3>2. new.pc = "write" /\ Quiet(p, new) /\ KeepsSent
      BY <2>4, <3>1, SameSent DEF Conflict, Quiet, SyncSession
    <3> HIDE DEF new
    <3> QED
      BY <1>1, <3>1, <3>2
  <2>5. CASE SaveCursor(p)
    <3> DEFINE due == {t \in Txs : Notifiable(rows[t])} \ proc[p].tried
               new == [proc[p] EXCEPT !.pc = "ready", !.tried = {}, !.over = TRUE, !.ready = due]
    <3>1. proc[p] \in SyncSession /\ proc[p].pc = "fetch"
      BY <2>5, Mine DEF SaveCursor
    <3>2. Quiet(p, new) /\ KeepsSent
      BY <2>5, SameSent DEF SaveCursor, Quiet
    <3> HIDE DEF due
    <3>3. new.pc = "ready"
      BY <3>1 DEF SyncSession
    <3> HIDE DEF new
    <3> QED
      BY <1>1, <3>1, <3>2, <3>3
  <2>6. CASE NextReady(p)
    <3>1. proc[p] \in SyncSession /\ proc[p].pc = "ready"
      BY <2>6, Mine DEF NextReady
    <3>2. PICK t \in proc[p].ready :
            proc' = [proc EXCEPT ![p] = [proc[p] EXCEPT !.pc = "notify", !.about = t, !.ready = @ \ {t}]]
      BY <2>6 DEF NextReady
    <3> DEFINE new == [proc[p] EXCEPT !.pc = "notify", !.about = t, !.ready = @ \ {t}]
    <3>3. new.pc = "notify" /\ Quiet(p, new) /\ KeepsSent
      BY <2>6, <3>1, <3>2, SameSent DEF NextReady, Quiet, SyncSession
    <3> HIDE DEF new
    <3> QED
      BY <1>1, <3>1, <3>3
  <2>7. CASE Finish(p)
    <3>1. proc[p].pc = "ready" /\ Idle.pc = "idle" /\ Quiet(p, Idle) /\ KeepsSent
      BY <2>7, SameSent DEF Finish, Idle, Quiet
    <3> QED
      BY <1>1, <3>1
  <2>8. CASE Mark(p)
    BY <2>8, EndTold DEF Mark
  <2> QED
    BY <1>4, <2>1, <2>2, <2>3, <2>4, <2>5, <2>6, <2>7, <2>8, NotifyTold, EnqueueTold, SendTold DEF Step
<1>5. ASSUME NEW p \in Procs, Fail(p) PROVE ToldInv'
  <2>1. proc[p].pc # "mark" /\ Idle.pc = "idle" /\ Quiet(p, Idle) /\ KeepsSent
    BY <1>5, SameSent DEF Fail, Syncing, Idle, Quiet
  <2> QED
    BY <1>1, <2>1
<1>6. ASSUME NEW p \in Procs, Die(p) PROVE ToldInv'
  <2>1. CASE proc[p].pc = "mark"
    BY <1>6, <2>1, EndTold DEF Die
  <2>2. CASE proc[p].pc # "mark"
    <3>1. Idle.pc = "idle" /\ Quiet(p, Idle) /\ KeepsSent
      BY <1>6, <2>2, SameSent DEF Die, Idle, Quiet
    <3> QED
      BY <1>1, <2>2, <3>1
  <2> QED
    BY <2>1, <2>2
<1>7. ASSUME NEW p \in Procs, NEW e, Begin(p, e) PROVE ToldInv'
  <2>1. proc[p].pc = "idle" /\ Begun(e).pc = "fetch" /\ Quiet(p, Begun(e)) /\ KeepsSent
    BY <1>7, BeginFacts, SameSent DEF Begin, Begun, Idle, Quiet
  <2> QED
    BY <1>1, <2>1
<1>8. CASE UNCHANGED vars
  BY <1>8, SameSent, SameTold DEF vars
<1> QED
  BY <1>2, <1>3, <1>4, <1>5, <1>6, <1>7, <1>8, DeliverTold DEF Next

LEMMA ToldHolds == Spec => []ToldInv
BY ToldInit, ToldStep, ShapeHolds, PTL DEF Spec

\* The user is asked at most once about a transaction, apart from deliveries that lapsed,
\* whatever syncs overlap, fail, die or are repeated.
THEOREM ToldOnceHolds == Spec => []ToldOnce
<1>1. ShapeInv /\ ToldInv => ToldOnce
  <2> SUFFICES ASSUME ShapeInv, ToldInv, NEW t \in Txs PROVE told[t] <= 1 + lapses
    BY DEF ToldOnce
  <2> QED
    BY Counts DEF ToldInv, ToldByOutbox, ToldByClaim
<1> QED
  BY <1>1, ShapeHolds, ToldHolds, PTL

-----------------------------------------------------------------------------
(* Rows keep up with the cursor, and what was replaced is gone *)

\* Rows that change only in ways a sync need not know of.
RowsSteady ==
  \A t \in Txs :
    /\ rows'[t].version = rows[t].version
    /\ rows'[t].status = "none" <=> rows[t].status = "none"
    /\ rows[t].status \in Gone => rows'[t].status \in Gone

LEMMA ShowsKept ==
  ASSUME ShapeInv, feed' = feed, RowsSteady, NEW i \in DOMAIN feed, Shows(i)
  PROVE  Shows(i)'
<1>1. feed[i].tx \in Txs
  BY Positions DEF ShapeInv, PlaidUpdate
<1> QED
  BY <1>1 DEF Shows, RowsSteady

LEMMA ReplacedInTxs ==
  ASSUME ShapeInv, NEW i \in DOMAIN feed, feed[i].replaces # None
  PROVE  /\ feed[i].tx \in Txs /\ feed[i].replaces \in Txs /\ feed[i].kind = "put"
         /\ Replaces(i, feed[i].replaces)
BY Positions DEF ShapeInv, PlaidUpdate, FeedOK, Replaces

LEMMA ReplacedKept ==
  ASSUME ShapeInv, feed' = feed, RowsSteady, ReplacedGoes
  PROVE  ReplacedGoes'
<1> SUFFICES ASSUME NEW i \in DOMAIN feed, feed[i].replaces # None, Exists(feed[i].tx)'
             PROVE  rows'[feed[i].replaces].status \in {"removed", "undoing"}
  BY DEF ReplacedGoes
<1>1. feed[i].tx \in Txs /\ feed[i].replaces \in Txs
  BY ReplacedInTxs
<1>2. Exists(feed[i].tx)
  BY <1>1 DEF Exists, RowsSteady
<1>3. rows[feed[i].replaces].status \in {"removed", "undoing"}
  BY <1>2 DEF ReplacedGoes
<1> QED
  BY <1>1, <1>3 DEF RowsSteady, Gone

LEMMA AppliesKept ==
  ASSUME ShapeInv, feed' = feed, cursor' = cursor, RowsSteady,
         NEW me \in SyncSession, SessionOK(me), AppliesAll(me)
  PROVE  AppliesAll(me)'
<1> SUFFICES ASSUME ~me.over PROVE AppliesAll(me)'
  BY DEF AppliesAll
<1>1. me.start \in Nat /\ me.at \in Nat /\ me.at <= Len(feed)
  BY DEF SyncSession, SessionOK
<1>2. ASSUME NEW i \in (me.start + 1)..me.at PROVE i \in me.batch \/ Shows(i)'
  <2>1. i \in DOMAIN feed
    BY <1>1, Positions DEF ShapeInv
  <2> QED
    BY <2>1, ShowsKept DEF AppliesAll
<1>3. ASSUME me.pc = "write"
      PROVE  LET now == rows'[feed[me.next].tx]
             IN /\ ComesFirst(me.next, me.batch)
                /\ me.row.version = now.version
                /\ me.row.status = "none" <=> now.status = "none"
                /\ me.row.status \in Gone => now.status \in Gone
  <2>1. me.next \in DOMAIN feed
    BY <1>1, <1>3, Positions DEF SessionOK, ShapeInv
  <2>2. feed[me.next].tx \in Txs
    BY <2>1, Positions DEF ShapeInv, PlaidUpdate
  <2> QED
    BY <1>3, <2>2 DEF AppliesAll, RowsSteady
<1>4. ComesFirst(me.next, me.batch)' = ComesFirst(me.next, me.batch)
  BY DEF ComesFirst
<1>5. /\ me.start = cursor
      /\ \A k \in me.batch : feed[k].kind = "put" => k..me.at \subseteq me.batch
  BY DEF AppliesAll
<1> QED
  BY <1>2, <1>3, <1>4, <1>5 DEF AppliesAll

\* A step that changes rows only in such ways, and one process.
LEMMA OneSteady ==
  ASSUME ShapeInv, SteadyInv, feed' = feed, cursor' = cursor, steady' = steady, RowsSteady,
         NEW p \in Procs, NEW me, proc' = [proc EXCEPT ![p] = me],
         steady => me.pc \in {"idle", "mark"} \/ (Syncing(p) /\ AppliesAll(me)')
  PROVE  SteadyInv'
<1> SUFFICES ASSUME steady PROVE SteadyInv'
  BY DEF SteadyInv
<1>1. proc'[p] = me /\ \A q \in Procs \ {p} : proc'[q] = proc[q]
  BY DEF ShapeInv, TypeOK
<1>2. \A q \in Procs : Syncing(q)' => Syncing(q)
  BY <1>1 DEF Syncing
<1>3. \A q, r \in Procs : Syncing(q)' /\ Syncing(r)' => q = r
  BY <1>2 DEF SteadyInv
<1>4. ASSUME NEW i \in 1..cursor PROVE Shows(i)'
  <2>1. i \in DOMAIN feed
    BY Positions DEF ShapeInv, TypeOK
  <2> QED
    BY <2>1, ShowsKept DEF SteadyInv
<1>5. ASSUME NEW q \in Procs, Syncing(q)' PROVE AppliesAll(proc[q])'
  <2>1. CASE q = p
    BY <1>1, <1>5, <2>1 DEF Syncing
  <2>2. CASE q # p
    <3>1. proc'[q] = proc[q] /\ Syncing(q)
      BY <1>1, <1>2, <1>5, <2>2
    <3>2. proc[q] \in SyncSession /\ SessionOK(proc[q]) /\ AppliesAll(proc[q])
      BY <3>1, Mine DEF Syncing, SteadyInv
    <3>3. ASSUME NEW other, other = proc[q] PROVE AppliesAll(other)'
      BY <3>2, <3>3, AppliesKept
    <3> QED
      BY <3>1, <3>3
  <2> QED
    BY <2>1, <2>2
<1>6. ReplacedGoes'
  BY ReplacedKept DEF SteadyInv
<1> QED
  BY <1>3, <1>4, <1>5, <1>6 DEF SteadyInv

LEMMA RowsOnly ==
  ASSUME ShapeInv, SteadyInv, feed' = feed, cursor' = cursor, steady' = steady, RowsSteady,
         proc' = proc
  PROVE  SteadyInv'
<1> SUFFICES ASSUME steady PROVE SteadyInv'
  BY DEF SteadyInv
<1>1. \A q, r \in Procs : Syncing(q)' /\ Syncing(r)' => q = r
  BY DEF SteadyInv, Syncing
<1>2. ASSUME NEW i \in 1..cursor PROVE Shows(i)'
  <2>1. i \in DOMAIN feed
    BY Positions DEF ShapeInv, TypeOK
  <2> QED
    BY <2>1, ShowsKept DEF SteadyInv
<1>3. ASSUME NEW q \in Procs, Syncing(q)' PROVE AppliesAll(proc[q])'
  <2>1. Syncing(q)
    BY <1>3 DEF Syncing
  <2>2. proc[q] \in SyncSession /\ SessionOK(proc[q]) /\ AppliesAll(proc[q])
    BY <2>1, Mine DEF Syncing, SteadyInv
  <2>3. ASSUME NEW other, other = proc[q] PROVE AppliesAll(other)'
    BY <2>2, <2>3, AppliesKept
  <2> QED
    BY <2>3
<1>4. ReplacedGoes'
  BY ReplacedKept DEF SteadyInv
<1> QED
  BY <1>1, <1>2, <1>3, <1>4 DEF SteadyInv

LEMMA SameSteady == ASSUME rows' = rows PROVE RowsSteady
BY DEF RowsSteady

LEMMA FlagSteady ==
  ASSUME ShapeInv, NEW t \in Txs,
         \/ \E sent \in BOOLEAN : rows' = [rows EXCEPT ![t].sent = sent]
         \/ \E queued \in BOOLEAN : rows' = [rows EXCEPT ![t].queued = queued]
         \/ \E sent, queued \in BOOLEAN : rows' = [rows EXCEPT ![t].sent = sent, ![t].queued = queued]
  PROVE  RowsSteady
<1>1. rows \in [Txs -> Row]
  BY DEF ShapeInv, TypeOK
<1>2. ASSUME NEW u \in Txs
      PROVE  rows'[u].version = rows[u].version /\ rows'[u].status = rows[u].status
  <2>1. CASE u # t
    BY <1>1, <2>1
  <2>2. CASE u = t
    BY <1>1, <2>2 DEF Row
  <2> QED
    BY <2>1, <2>2
<1> QED
  BY <1>2 DEF RowsSteady

LEMMA UserSteady ==
  ASSUME ShapeInv, NEW t \in Txs, MarkPersonal(t) \/ Post(t) \/ Reconcile(t)
  PROVE  RowsSteady
<1>1. rows \in [Txs -> Row]
  BY DEF ShapeInv, TypeOK
<1>2. CASE MarkPersonal(t)
  BY <1>1, <1>2 DEF MarkPersonal, RowsSteady, Row, Gone
<1>3. CASE Post(t)
  BY <1>1, <1>3 DEF Post, RowsSteady, Row, Gone
<1>4. CASE Reconcile(t)
  BY <1>1, <1>4 DEF Reconcile, RowsSteady, Row, Gone
<1> QED
  BY <1>2, <1>3, <1>4

\* A session that keeps its page, and does not write.
LEMMA OnwardApplies ==
  ASSUME ShapeInv, SteadyInv, steady, NEW p \in Procs, Syncing(p), feed' = feed, cursor' = cursor,
         RowsSteady, NEW me, me.pc # "write",
         me.start = proc[p].start, me.at = proc[p].at, me.batch = proc[p].batch,
         me.over = proc[p].over
  PROVE  AppliesAll(me)'
<1>1. proc[p] \in SyncSession /\ SessionOK(proc[p]) /\ AppliesAll(proc[p])
  BY Mine DEF Syncing, SteadyInv
<1>2. PICK old : old = proc[p]
  OBVIOUS
<1>3. AppliesAll(old)'
  BY <1>1, <1>2, AppliesKept
<1> QED
  BY <1>2, <1>3 DEF AppliesAll

LEMMA FetchSteady == ASSUME ShapeInv, SteadyInv, NEW p \in Procs, Fetch(p) PROVE SteadyInv'
<1> DEFINE me == proc[p]
           end == PageEnd(me.at)
           page == (me.at + 1)..end
           more == end < Len(feed)
<1>1. /\ me \in SyncSession /\ SessionOK(me) /\ me.pc = "fetch" /\ me.batch = {} /\ Syncing(p)
      /\ me.start \in Nat /\ me.at \in Nat /\ me.at <= Len(feed)
  BY Mine DEF Fetch, SessionOK, Syncing, SyncSession
<1>2. end \in Nat /\ me.at <= end
  BY <1>1, PageEndBounds DEF ShapeInv
<1>3. PICK new :
        /\ new = [me EXCEPT !.pc = IF page = {} THEN "fetch" ELSE "load",
                            !.at = end, !.more = more, !.batch = page]
        /\ proc' = [proc EXCEPT ![p] = new]
  BY DEF Fetch, Fetched
<1>4. feed' = feed /\ rows' = rows /\ cursor' = cursor /\ steady' = steady
  BY DEF Fetch
<1> HIDE DEF more
<1>5. /\ new.pc \in {"fetch", "load"} /\ new.start = me.start /\ new.at = end
      /\ new.batch = page /\ new.over = me.over
  BY <1>1, <1>3 DEF SyncSession
<1> HIDE DEF end
<1>6. ASSUME steady PROVE AppliesAll(new)
  <2>1. AppliesAll(me)
    BY <1>1, <1>6 DEF SteadyInv
  <2>2. ASSUME NEW i \in (new.start + 1)..new.at PROVE ~new.over => i \in new.batch \/ Shows(i)
    <3>1. i \in page \/ i \in (me.start + 1)..me.at
      BY <1>1, <1>2, <1>5
    <3> QED
      BY <1>1, <1>5, <2>1, <3>1 DEF AppliesAll
  <2>3. \A k \in new.batch : k..new.at \subseteq new.batch
    BY <1>1, <1>2, <1>5
  <2> QED
    BY <1>5, <2>1, <2>2, <2>3 DEF AppliesAll
<1>7. steady => AppliesAll(new)'
  BY <1>4, <1>6 DEF AppliesAll, Shows, ComesFirst
<1> QED
  BY <1>1, <1>3, <1>4, <1>7, SameSteady, OneSteady

LEMMA LoadSteady == ASSUME ShapeInv, SteadyInv, NEW p \in Procs, Load(p) PROVE SteadyInv'
<1> DEFINE me == proc[p]
<1>1. me \in SyncSession /\ SessionOK(me) /\ me.pc = "load" /\ Syncing(p)
  BY Mine DEF Load, Syncing
<1>0. PICK i \in me.batch :
        /\ ComesFirst(i, me.batch)
        /\ proc' = [proc EXCEPT ![p] = [me EXCEPT !.pc = "write", !.next = i, !.again = FALSE,
                                                 !.row = rows[feed[i].tx]]]
  BY DEF Load
<1>2. PICK new :
        /\ new = [me EXCEPT !.pc = "write", !.next = i, !.again = FALSE, !.row = rows[feed[i].tx]]
        /\ proc' = [proc EXCEPT ![p] = new]
  BY <1>0
<1>3. feed' = feed /\ rows' = rows /\ cursor' = cursor /\ steady' = steady
  BY DEF Load
<1>4. /\ new.next = i /\ new.row = rows[feed[i].tx] /\ new.start = me.start /\ new.at = me.at
      /\ new.batch = me.batch /\ new.over = me.over
  BY <1>1, <1>2 DEF SyncSession
<1>5. ASSUME steady PROVE AppliesAll(new)
  <2>1. AppliesAll(me)
    BY <1>1, <1>5 DEF SteadyInv
  <2> QED
    BY <1>0, <1>2, <1>4, <2>1 DEF AppliesAll
<1>6. steady => AppliesAll(new)'
  BY <1>3, <1>5 DEF AppliesAll, Shows, ComesFirst
<1> QED
  BY <1>1, <1>2, <1>3, <1>6, SameSteady, OneSteady

\* As long as syncs do not overlap, no insert fails.
LEMMA ConflictSteady ==
  ASSUME ShapeInv, SteadyInv, NEW p \in Procs, Conflict(p) PROVE SteadyInv'
<1>1. /\ proc[p] \in SyncSession /\ SessionOK(proc[p]) /\ proc[p].pc = "write" /\ Syncing(p)
      /\ steady' = steady
  BY Mine DEF Conflict, Syncing
<1>2. CASE steady
  <2>1. AppliesAll(proc[p]) /\ ~proc[p].over
    BY <1>1, <1>2 DEF SteadyInv, SessionOK
  <2>2. FALSE
    BY <1>1, <2>1 DEF AppliesAll, Conflict, Taken
  <2> QED
    BY <2>2
<1> QED
  BY <1>1, <1>2 DEF SteadyInv

LEMMA SaveCursorSteady ==
  ASSUME ShapeInv, SteadyInv, NEW p \in Procs, SaveCursor(p) PROVE SteadyInv'
<1> DEFINE me == proc[p]
           due == {t \in Txs : Notifiable(rows[t])} \ me.tried
<1>1. /\ me \in SyncSession /\ SessionOK(me) /\ me.pc = "fetch" /\ me.batch = {} /\ ~me.over
      /\ Syncing(p) /\ me.start \in Nat /\ me.at \in Nat
  BY Mine DEF SaveCursor, Syncing, SessionOK, SyncSession
<1>2. PICK new : /\ new = [me EXCEPT !.pc = "ready", !.tried = {}, !.over = TRUE, !.ready = due]
                 /\ proc' = [proc EXCEPT ![p] = new]
  BY DEF SaveCursor
<1>3. feed' = feed /\ rows' = rows /\ steady' = steady
  BY DEF SaveCursor
<1> HIDE DEF due
<1>4. new.over
  BY <1>1, <1>2 DEF SyncSession
<1> SUFFICES ASSUME steady PROVE SteadyInv'
  BY <1>3 DEF SteadyInv
<1>5. proc'[p] = new /\ \A q \in Procs \ {p} : proc'[q] = proc[q]
  BY <1>2 DEF ShapeInv, TypeOK
<1>6. \A q \in Procs : Syncing(q)' => q = p
  BY <1>1, <1>5 DEF SteadyInv, Syncing
<1>7. AppliesAll(new)'
  BY <1>4 DEF AppliesAll
<1>8. ASSUME NEW i \in 1..cursor' PROVE Shows(i)
  <2>1. AppliesAll(me) /\ \A j \in 1..cursor : Shows(j)
    BY <1>1 DEF SteadyInv
  <2>2. me.start = cursor /\ cursor' \in {me.at, cursor}
    BY <1>1, <2>1 DEF AppliesAll, SaveCursor
  <2>3. i \in 1..cursor \/ i \in (me.start + 1)..me.at
    BY <1>1, <2>2
  <2> QED
    BY <1>1, <2>1, <2>3 DEF AppliesAll
<1>9. \A i \in 1..cursor' : Shows(i)'
  BY <1>3, <1>8 DEF Shows
<1>10. ReplacedGoes'
  BY <1>3, SameSteady, ReplacedKept DEF SteadyInv
<1> QED
  BY <1>5, <1>6, <1>7, <1>9, <1>10 DEF SteadyInv

LEMMA BeginSteady ==
  ASSUME ShapeInv, SteadyInv, NEW p \in Procs, NEW e, Begin(p, e) PROVE SteadyInv'
<1> SUFFICES ASSUME steady' PROVE SteadyInv'
  BY DEF SteadyInv
<1>1. steady /\ \A q \in Procs : ~Syncing(q)
  BY DEF Begin
<1>2. feed' = feed /\ rows' = rows /\ cursor' = cursor
  BY DEF Begin
<1>3. PICK new : new = Begun(e)
  OBVIOUS
<1>4. proc'[p] = new /\ \A q \in Procs \ {p} : proc'[q] = proc[q]
  BY <1>3, BeginFacts DEF ShapeInv, TypeOK
<1>5. \A q \in Procs : Syncing(q)' => q = p
  BY <1>1, <1>4 DEF Syncing
<1>6. AppliesAll(new)'
  <2>1. new.start = cursor /\ new.at = cursor /\ new.batch = {} /\ new.pc = "fetch" /\ cursor \in Nat
    BY <1>3, Positions DEF Begun, ShapeInv, TypeOK
  <2> QED
    BY <1>2, <2>1 DEF AppliesAll
<1>7. \A i \in 1..cursor' : Shows(i)'
  BY <1>1, <1>2 DEF SteadyInv, Shows
<1>8. ReplacedGoes'
  BY <1>1, <1>2, SameSteady, ReplacedKept DEF SteadyInv
<1> QED
  BY <1>4, <1>5, <1>6, <1>7, <1>8 DEF SteadyInv

\* An update that Plaid adds replaces nothing new for a transaction that has a row.
LEMMA NewReplaces ==
  ASSUME ShapeInv, Update, NEW i \in DOMAIN feed' \ DOMAIN feed,
         feed'[i].replaces # None, Exists(feed'[i].tx)
  PROVE  \E k \in DOMAIN feed : /\ feed[k].tx = feed'[i].tx
                                /\ feed[k].replaces = feed'[i].replaces
<1>1. PICK t \in Txs :
       \/ \E pending \in BOOLEAN :
            /\ Updates(t) = {}
            /\ feed' = Append(feed, Put(t, pending, None))
       \/ \E p \in Txs \ {t} :
            /\ Updates(t) = {} /\ IsPending(p)
            /\ feed' = Append(Append(feed, Put(t, FALSE, p)), Drop(p))
       \/ \E j \in LatestBefore(t, Len(feed)) :
            /\ feed[j].kind = "put"
            /\ feed' = Append(feed, Put(t, FALSE, feed[j].replaces))
       \/ /\ Current(t)
          /\ feed' = Append(feed, Drop(t))
  BY DEF Update
<1>2. feed \in Seq(PlaidUpdate) /\ DOMAIN feed = 1..Len(feed) /\ Len(feed) \in Nat
  BY Positions DEF ShapeInv, TypeOK
<1>3. Updates(t) = {} => ~Exists(t)
  BY <1>2 DEF ShapeInv, RowOK, Exists, Updates
<1>4. ASSUME NEW x \in PlaidUpdate, feed' = Append(feed, x) PROVE feed'[i] = x
  BY <1>2, <1>4
<1>5. ASSUME NEW pending \in BOOLEAN, feed' = Append(feed, Put(t, pending, None)) PROVE FALSE
  <2> DEFINE x == Put(t, pending, None)
  <2>1. x \in PlaidUpdate /\ x.replaces = None /\ feed' = Append(feed, x)
    BY <1>5 DEF Put, PlaidUpdate
  <2> HIDE DEF x
  <2> QED
    BY <1>4, <2>1
<1>6. ASSUME NEW p \in Txs \ {t}, Updates(t) = {},
             feed' = Append(Append(feed, Put(t, FALSE, p)), Drop(p))
      PROVE  FALSE
  <2> DEFINE x == Put(t, FALSE, p)
             y == Drop(p)
             half == Append(feed, x)
  <2>1. /\ x \in PlaidUpdate /\ x.tx = t /\ y \in PlaidUpdate /\ y.replaces = None
        /\ feed' = Append(half, y)
    BY <1>6 DEF Put, Drop, PlaidUpdate
  <2> HIDE DEF x, y
  <2>2. /\ half \in Seq(PlaidUpdate) /\ Len(half) = Len(feed) + 1 /\ half[Len(feed) + 1] = x
    BY <1>2, <2>1
  <2> HIDE DEF half
  <2>3. /\ DOMAIN feed' = 1..(Len(feed) + 2) /\ feed'[Len(feed) + 2] = y
        /\ feed'[Len(feed) + 1] = half[Len(feed) + 1]
    BY <1>2, <2>1, <2>2
  <2>4. i = Len(feed) + 1 \/ i = Len(feed) + 2
    BY <1>2, <2>3
  <2> QED
    BY <1>3, <1>6, <2>1, <2>2, <2>3, <2>4
<1>7. ASSUME NEW j \in LatestBefore(t, Len(feed)),
             feed' = Append(feed, Put(t, FALSE, feed[j].replaces))
      PROVE  \E k \in DOMAIN feed : /\ feed[k].tx = feed'[i].tx
                                    /\ feed[k].replaces = feed'[i].replaces
  <2> DEFINE x == Put(t, FALSE, feed[j].replaces)
  <2>1. j \in DOMAIN feed /\ feed[j].tx = t /\ feed[j] \in PlaidUpdate
    BY <1>2, <1>7 DEF LatestBefore, Updates
  <2>2. x \in PlaidUpdate /\ x.tx = t /\ x.replaces = feed[j].replaces /\ feed' = Append(feed, x)
    BY <1>7, <2>1 DEF Put, PlaidUpdate
  <2> HIDE DEF x
  <2> QED
    BY <1>4, <2>1, <2>2
<1>8. ASSUME feed' = Append(feed, Drop(t)) PROVE FALSE
  <2> DEFINE x == Drop(t)
  <2>1. x \in PlaidUpdate /\ x.replaces = None /\ feed' = Append(feed, x)
    BY <1>8 DEF Drop, PlaidUpdate
  <2> HIDE DEF x
  <2> QED
    BY <1>4, <2>1
<1> QED
  BY <1>1, <1>5, <1>6, <1>7, <1>8

LEMMA UpdateSteady == ASSUME ShapeInv, SteadyInv, Update PROVE SteadyInv'
<1>1. /\ rows' = rows /\ cursor' = cursor /\ proc' = proc /\ steady' = steady
  BY DEF Update
<1>2. FeedGrows
  BY UpdateGrows
<1> SUFFICES ASSUME steady PROVE SteadyInv'
  BY <1>1 DEF SteadyInv
<1>3. DOMAIN feed = 1..Len(feed) /\ \A i \in DOMAIN feed : feed'[i] = feed[i]
  BY <1>2, Positions DEF FeedGrows, ShapeInv
<1>4. \A i \in DOMAIN feed : Shows(i) => Shows(i)'
  BY <1>1, <1>3 DEF Shows
<1>5. \A i \in 1..cursor' : Shows(i)'
  BY <1>1, <1>3, <1>4 DEF SteadyInv, ShapeInv, TypeOK
<1>6. ASSUME NEW q \in Procs, Syncing(q) PROVE AppliesAll(proc[q])'
  <2>1. proc[q] \in SyncSession /\ SessionOK(proc[q]) /\ AppliesAll(proc[q])
    BY <1>6, Mine DEF Syncing, SteadyInv
  <2>2. PICK me \in SyncSession : me = proc[q]
    BY <2>1
  <2>3. me.start \in Nat /\ me.at \in Nat /\ me.at <= Len(feed) /\ Len(feed) \in Nat
    BY <2>1, <2>2, Positions DEF SyncSession, SessionOK, ShapeInv
  <2>4. (me.start + 1)..me.at \subseteq DOMAIN feed /\ me.batch \subseteq (me.start + 1)..me.at
    BY <1>3, <2>1, <2>2, <2>3 DEF SessionOK
  <2>5. SessionOK(me) /\ AppliesAll(me)
    BY <2>1, <2>2
  <2>6. ASSUME ~me.over
        PROVE  /\ me.start = cursor
               /\ \A i \in (me.start + 1)..me.at : i \in me.batch \/ Shows(i)'
               /\ \A k \in me.batch : feed'[k].kind = "put" => k..me.at \subseteq me.batch
    BY <1>3, <1>4, <2>4, <2>5, <2>6 DEF AppliesAll
  <2>7. ASSUME ~me.over, me.pc = "write"
        PROVE  LET now == rows[feed'[me.next].tx]
               IN /\ ComesFirst(me.next, me.batch)'
                  /\ me.row.version = now.version
                  /\ me.row.status = "none" <=> now.status = "none"
                  /\ me.row.status \in Gone => now.status \in Gone
    <3>1. me.next \in me.batch /\ me.next \in DOMAIN feed /\ feed'[me.next] = feed[me.next]
      BY <1>3, <2>4, <2>5, <2>7 DEF SessionOK
    <3>2. ComesFirst(me.next, me.batch)'
      BY <1>3, <2>4, <2>5, <2>7, <3>1 DEF AppliesAll, ComesFirst
    <3> QED
      BY <2>5, <2>7, <3>1, <3>2 DEF AppliesAll
  <2>8. AppliesAll(me)'
    BY <1>1, <2>6, <2>7 DEF AppliesAll
  <2> QED
    BY <1>1, <2>2, <2>8
<1>7. ReplacedGoes'
  <2> SUFFICES ASSUME NEW i \in DOMAIN feed', feed'[i].replaces # None, Exists(feed'[i].tx)
               PROVE  rows[feed'[i].replaces].status \in {"removed", "undoing"}
    BY <1>1 DEF ReplacedGoes, Exists
  <2>1. PICK k \in DOMAIN feed : /\ feed[k].tx = feed'[i].tx
                                 /\ feed[k].replaces = feed'[i].replaces
    BY <1>3, NewReplaces
  <2> QED
    BY <2>1 DEF SteadyInv, ReplacedGoes
<1> QED
  BY <1>1, <1>5, <1>6, <1>7 DEF SteadyInv, Syncing

-----------------------------------------------------------------------------
(* What an update leaves in the rows, when its session has read them as they are *)

LEMMA FreshWrite ==
  ASSUME ShapeInv, NEW i \in DOMAIN feed, NEW row \in Row, NEW again \in BOOLEAN,
         RowOK(feed[i].tx, row), row.status # "none" => Exists(feed[i].tx),
         row.version = rows[feed[i].tx].version,
         row.status = "none" <=> rows[feed[i].tx].status = "none",
         row.status \in Gone => rows[feed[i].tx].status \in Gone,
         NEW new \in Row,
         new = IF feed[i].kind = "put" THEN Written(rows[feed[i].tx], row, Upserted(row, i, again))
               ELSE IF row.expense THEN Removed(rows[feed[i].tx])
               ELSE Written(rows[feed[i].tx], row, Removed(row))
  PROVE  /\ feed[i].kind = "put" => /\ new.version = i
                                    /\ row.status # "none" /\ ~row.expense =>
                                         new.status = rows[feed[i].tx].status
         /\ feed[i].kind = "drop" =>
              /\ new.version = rows[feed[i].tx].version /\ new.status \in Gone
              /\ rows[feed[i].tx].status = "none" <=> new.status = "none"
<1> DEFINE t == feed[i].tx
           now == rows[t]
<1>1. t \in Txs /\ now \in Row /\ feed[i].kind \in {"put", "drop"}
  BY Positions DEF ShapeInv, TypeOK, PlaidUpdate
<1>2. CASE feed[i].kind = "put"
  <2> DEFINE up == Upserted(row, i, again)
  <2>1. /\ up \in Row /\ up.version = i
        /\ up.status \in {row.status} \cup (IF row.status = "none" THEN {"ask"} ELSE {})
                         \cup (IF row.expense THEN {"reconcile"} ELSE {})
    BY UpsertedRow DEF RowOK, ShapeInv
  <2>2. /\ new.status = IF up.status # row.status THEN up.status ELSE now.status
        /\ new.version = IF up.version # row.version THEN up.version ELSE now.version
    BY <1>1, <1>2, <2>1, WrittenRow
  <2> HIDE DEF up
  <2> QED
    BY <1>2, <2>1, <2>2
<1>3. CASE feed[i].kind = "drop" /\ row.expense
  <2>1. new = Removed(now)
    BY <1>3
  <2> QED
    BY <1>1, <1>3, <2>1, RemovedRow DEF Gone
<1>4. CASE feed[i].kind = "drop" /\ ~row.expense
  <2> DEFINE gone == Removed(row)
  <2>1. /\ gone \in Row /\ gone.version = row.version
        /\ row.status = "none" => gone.status = "none"
        /\ row.status # "none" => gone.status = "removed"
    BY <1>4, RemovedRow
  <2>2. /\ new.status = IF gone.status # row.status THEN gone.status ELSE now.status
        /\ new.version = IF gone.version # row.version THEN gone.version ELSE now.version
    BY <1>1, <1>4, <2>1, WrittenRow
  <2> HIDE DEF gone
  <2> QED
    BY <1>4, <2>1, <2>2 DEF Gone
<1> QED
  BY <1>1, <1>2, <1>3, <1>4

\* The rows of the other transactions: one that is replaced is removed.
LEMMA OtherRows ==
  ASSUME ShapeInv, NEW i \in DOMAIN feed, NEW row, NEW again,
         NEW after, after = Applied(row, i, again),
         NEW u \in Txs, u # feed[i].tx
  PROVE  /\ after[u].version = rows[u].version
         /\ after[u].status = "none" <=> rows[u].status = "none"
         /\ rows[u].status \in Gone => after[u].status \in Gone
         /\ feed[i].kind = "put" /\ u = feed[i].replaces /\ Exists(u) =>
              after[u].status \in {"removed", "undoing"}
<1>1. rows[u] \in Row /\ rows \in [Txs -> Row] /\ feed[i].kind \in {"put", "drop"}
  BY Positions DEF ShapeInv, TypeOK, PlaidUpdate
<1>2. CASE feed[i].kind = "drop"
  <2>1. after[u] = rows[u]
    BY <1>1, <1>2 DEF Applied
  <2> QED
    BY <1>2, <2>1
<1>3. CASE feed[i].kind = "put"
  <2>1. after[u] = IF u = feed[i].replaces THEN Removed(rows[u]) ELSE rows[u]
    BY <1>1, <1>3 DEF Applied
  <2> QED
    BY <1>1, <2>1, RemovedRow DEF Gone, Exists
<1> QED
  BY <1>1, <1>2, <1>3

LEMMA WriteRows ==
  ASSUME ShapeInv, SteadyInv, steady, NEW p \in Procs, Write(p),
         NEW i, i = proc[p].next, NEW t, t = feed[i].tx
  PROVE  /\ i \in DOMAIN feed /\ t \in Txs
         /\ \A u \in Txs \ {t} :
              /\ rows'[u].version = rows[u].version
              /\ rows'[u].status = "none" <=> rows[u].status = "none"
              /\ rows[u].status \in Gone => rows'[u].status \in Gone
              /\ feed[i].kind = "put" /\ u = feed[i].replaces /\ Exists(u) =>
                   rows'[u].status \in {"removed", "undoing"}
         /\ feed[i].kind = "put" =>
              /\ rows'[t].version = i
              /\ Exists(t) /\ ~proc[p].row.expense => rows'[t].status = rows[t].status
         /\ feed[i].kind = "drop" =>
              /\ rows'[t].version = rows[t].version /\ rows'[t].status \in Gone
              /\ rows[t].status = "none" <=> rows'[t].status = "none"
<1> DEFINE me == proc[p]
           row == me.row
           again == me.again
<1>1. /\ SessionOK(me) /\ me.pc = "write" /\ i \in DOMAIN feed /\ t \in Txs
      /\ row \in Row /\ again \in BOOLEAN /\ RowOK(t, row)
      /\ row.status # "none" => Exists(t)
      /\ rows' = Applied(row, i, again) /\ rows \in [Txs -> Row]
  BY WriteFacts DEF ShapeInv, TypeOK
<1>2. AppliesAll(me) /\ ~me.over
  BY <1>1 DEF SteadyInv, Syncing, SessionOK
<1>3. /\ row.version = rows[t].version
      /\ row.status = "none" <=> rows[t].status = "none"
      /\ row.status \in Gone => rows[t].status \in Gone
  BY <1>1, <1>2 DEF AppliesAll
<1>4. PICK after : after = rows'
  OBVIOUS
<1>5. \A u \in Txs \ {t} :
        /\ after[u].version = rows[u].version
        /\ after[u].status = "none" <=> rows[u].status = "none"
        /\ rows[u].status \in Gone => after[u].status \in Gone
        /\ feed[i].kind = "put" /\ u = feed[i].replaces /\ Exists(u) =>
             after[u].status \in {"removed", "undoing"}
  <2> HIDE DEF me, row, again
  <2> QED
    BY <1>1, <1>4, OtherRows
<1>6. after \in [Txs -> Row]
  BY <1>4, WriteShape DEF ShapeInv, TypeOK
<1>7. after[t] = IF feed[i].kind = "put" THEN Written(rows[t], row, Upserted(row, i, again))
                 ELSE IF row.expense THEN Removed(rows[t]) ELSE Written(rows[t], row, Removed(row))
  <2>1. feed[i].kind \in {"put", "drop"}
    BY <1>1, Positions DEF ShapeInv, PlaidUpdate
  <2>2. CASE feed[i].kind = "drop"
    BY <1>1, <1>4, <2>2 DEF Applied
  <2>3. CASE feed[i].kind = "put"
    BY <1>1, <1>4, <2>3 DEF Applied
  <2> QED
    BY <2>1, <2>2, <2>3
<1>8. PICK new \in Row : new = after[t]
  BY <1>1, <1>6
<1>9. /\ feed[i].kind = "put" => /\ new.version = i
                                 /\ row.status # "none" /\ ~row.expense => new.status = rows[t].status
      /\ feed[i].kind = "drop" =>
           /\ new.version = rows[t].version /\ new.status \in Gone
           /\ rows[t].status = "none" <=> new.status = "none"
  <2> HIDE DEF me, row, again
  <2> QED
    BY <1>1, <1>3, <1>7, <1>8, FreshWrite
<1> QED
  BY <1>1, <1>3, <1>4, <1>5, <1>8, <1>9 DEF Exists

\* What showed before still shows, unless the update that is written takes it back; and
\* the update itself shows.
LEMMA WriteShows ==
  ASSUME ShapeInv, SteadyInv, steady, NEW p \in Procs, Write(p),
         NEW i, i = proc[p].next, NEW j \in DOMAIN feed,
         j = i \/ (Shows(j) /\ (feed[i].kind = "put" => j < i))
  PROVE  Shows(j)'
<1>1. PICK t : t = feed[i].tx
  OBVIOUS
<1>2. i \in DOMAIN feed /\ t \in Txs /\ feed' = feed
  BY <1>1, WriteRows DEF Write
<1>3. i \in Nat /\ j \in Nat /\ feed[i].kind \in {"put", "drop"} /\ feed[j].tx \in Txs
  BY <1>2, Positions DEF ShapeInv, PlaidUpdate
<1>4. \A u \in Txs \ {t} :
        /\ rows'[u].version = rows[u].version
        /\ rows[u].status \in Gone => rows'[u].status \in Gone
  BY <1>1, WriteRows
<1>5. /\ feed[i].kind = "put" => rows'[t].version = i
      /\ feed[i].kind = "drop" => rows'[t].version = rows[t].version /\ rows'[t].status \in Gone
  BY <1>1, WriteRows
<1>6. CASE feed[j].tx # t
  BY <1>1, <1>2, <1>3, <1>4, <1>6 DEF Shows
<1>7. CASE feed[j].tx = t /\ feed[i].kind = "drop"
  BY <1>1, <1>2, <1>3, <1>5, <1>7 DEF Shows
<1>8. CASE feed[j].tx = t /\ feed[i].kind = "put"
  <2>1. feed[j].kind = "put"
    BY <1>1, <1>2, <1>8 DEF ShapeInv, FeedOK
  <2>2. i >= j
    BY <1>3, <1>8
  <2> QED
    BY <1>2, <1>5, <1>8, <2>1, <2>2 DEF Shows
<1> QED
  BY <1>3, <1>6, <1>7, <1>8

LEMMA WriteReplaces ==
  ASSUME ShapeInv, SteadyInv, steady, NEW p \in Procs, Write(p) PROVE ReplacedGoes'
<1> DEFINE me == proc[p]
<1>0. PICK i, t : i = me.next /\ t = feed[i].tx
  OBVIOUS
<1>1. /\ me \in SyncSession /\ SessionOK(me) /\ me.pc = "write" /\ i \in me.batch
      /\ i \in DOMAIN feed /\ t \in Txs /\ feed' = feed /\ RowOK(t, me.row)
  BY <1>0, WriteFacts DEF Write
<1>2. AppliesAll(me) /\ ~me.over /\ ReplacedGoes /\ \A j \in 1..cursor : Shows(j)
  BY <1>1 DEF SteadyInv, Syncing, SessionOK
<1>3. \A u \in Txs \ {t} :
        /\ rows'[u].status = "none" <=> rows[u].status = "none"
        /\ rows[u].status \in Gone => rows'[u].status \in Gone
        /\ feed[i].kind = "put" /\ u = feed[i].replaces /\ Exists(u) =>
             rows'[u].status \in {"removed", "undoing"}
  BY <1>0, WriteRows
<1>4. /\ feed[i].kind = "put" => (Exists(t) /\ ~me.row.expense => rows'[t].status = rows[t].status)
      /\ feed[i].kind = "drop" =>
           /\ rows'[t].status \in Gone
           /\ rows[t].status = "none" <=> rows'[t].status = "none"
  BY <1>0, WriteRows
\* A transaction that was replaced stays removed: its earlier updates have no expense to follow.
<1>5. ASSUME NEW j \in DOMAIN feed, feed[j].replaces # None, Exists(feed[j].tx)
      PROVE  rows'[feed[j].replaces].status \in {"removed", "undoing"}
  <2> DEFINE q == feed[j].replaces
  <2>1. q \in Txs /\ Early(q) /\ rows[q].status \in {"removed", "undoing"}
    BY <1>2, <1>5, ReplacedInTxs DEF ReplacedGoes, Replaces
  <2>2. CASE q # t
    BY <1>3, <2>1, <2>2 DEF Gone
  <2>3. CASE q = t /\ feed[i].kind = "drop"
    BY <1>4, <2>1, <2>3 DEF Gone
  <2>4. CASE q = t /\ feed[i].kind = "put"
    <3>1. Exists(t) /\ me.row.status # "none"
      BY <1>0, <1>1, <1>2, <2>1, <2>4 DEF AppliesAll, Exists
    <3>2. ~me.row.expense
      BY <1>1, <2>1, <2>4, <3>1 DEF RowOK
    <3> QED
      BY <1>4, <2>1, <2>4, <3>1, <3>2
  <2>5. feed[i].kind \in {"put", "drop"}
    BY <1>1, Positions DEF ShapeInv, PlaidUpdate
  <2> QED
    BY <2>2, <2>3, <2>4, <2>5
\* The one that is replaced now had appeared earlier, and that update has been applied.
<1>6. ASSUME NEW j \in DOMAIN feed, feed[j].replaces # None, ~Exists(feed[j].tx),
             Exists(feed[j].tx)'
      PROVE  rows'[feed[j].replaces].status \in {"removed", "undoing"}
  <2> DEFINE q == feed[j].replaces
  <2>1. q \in Txs /\ feed[j].tx \in Txs /\ Replaces(j, q)
    BY <1>6, ReplacedInTxs
  <2>2. feed[j].tx = t /\ feed[i].kind = "put"
    <3>1. feed[j].tx = t
      BY <1>1, <1>3, <1>6, <2>1 DEF Exists
    <3>2. feed[i].kind \in {"put", "drop"}
      BY <1>1, Positions DEF ShapeInv, PlaidUpdate
    <3> QED
      BY <1>1, <1>4, <1>6, <3>1, <3>2 DEF Exists
  <2>3. feed[i].replaces = q
    <3>1. j = i \/ j < i \/ i < j
      BY <1>1, Positions DEF ShapeInv
    <3>2. feed[j].kind = "put"
      BY <2>1 DEF Replaces
    <3> QED
      BY <1>0, <1>1, <2>2, <3>1, <3>2 DEF ShapeInv, FeedOK
  <2>4. q # t /\ Replaces(i, q)
    BY <1>0, <1>1, <1>6, <2>3, ReplacedInTxs DEF Replaces
  <2>5. PICK k \in DOMAIN feed : k < i /\ feed[k].tx = q /\ feed[k].kind = "put"
    BY <2>4 DEF Replaces
  <2>6. k \notin me.batch
    <3>1. ComesFirst(i, me.batch)
      BY <1>0, <1>1, <1>2 DEF AppliesAll
    <3> QED
      BY <1>1, <2>2, <2>5, <3>1, Positions DEF ComesFirst, ShapeInv
  <2>7. Shows(k)
    <3>1. me.start = cursor /\ me.start \in Nat /\ me.at \in Nat /\ i <= me.at /\ k \in Nat /\ k >= 1
      BY <1>1, <1>2, <2>5, Positions DEF AppliesAll, SessionOK, SyncSession, ShapeInv
    <3>2. k \in 1..cursor \/ k \in (me.start + 1)..me.at
      BY <1>1, <2>5, <3>1, Positions DEF ShapeInv
    <3> QED
      BY <1>2, <2>6, <3>2 DEF AppliesAll
  <2>8. Exists(q)
    <3>1. rows[q].version >= k /\ k >= 1 /\ k \in Nat
      BY <2>5, <2>7, Positions DEF Shows, ShapeInv
    <3>2. RowOK(q, rows[q])
      BY <2>1, Parts
    <3> QED
      BY <3>1, <3>2, AbsentRow DEF RowOK, Exists
  <2> QED
    BY <1>3, <2>1, <2>2, <2>3, <2>4, <2>8
<1>7. \A j \in DOMAIN feed : feed[j].replaces # None /\ Exists(feed[j].tx)' =>
        rows'[feed[j].replaces].status \in {"removed", "undoing"}
  BY <1>5, <1>6
<1> QED
  BY <1>1, <1>7 DEF ReplacedGoes, Exists

LEMMA WriteSteady == ASSUME ShapeInv, SteadyInv, NEW p \in Procs, Write(p) PROVE SteadyInv'
<1> DEFINE me == proc[p]
<1>0. PICK i : i = me.next
  OBVIOUS
<1>1. /\ me \in SyncSession /\ SessionOK(me) /\ me.pc = "write" /\ Syncing(p)
      /\ i \in me.batch /\ i \in DOMAIN feed
  BY <1>0, WriteFacts DEF Syncing
<1>2. feed' = feed /\ cursor' = cursor /\ steady' = steady
  BY DEF Write
<1> SUFFICES ASSUME steady PROVE SteadyInv'
  BY <1>2 DEF SteadyInv
<1>3. AppliesAll(me) /\ ~me.over /\ \A j \in 1..cursor : Shows(j)
  BY <1>1 DEF SteadyInv, SessionOK
<1>4. /\ me.start = cursor /\ me.start \in Nat /\ me.at \in Nat /\ me.at <= Len(feed)
      /\ me.batch \subseteq (me.start + 1)..me.at
      /\ DOMAIN feed = 1..Len(feed) /\ Len(feed) \in Nat
  BY <1>1, <1>3, Positions DEF AppliesAll, SessionOK, SyncSession, ShapeInv
<1>5. PICK pc \in {"notify", "fetch", "load"}, about \in Txs \cup {None}, tried \in SUBSET Txs :
        proc' = [proc EXCEPT ![p] = AfterWrite(me, pc, about, tried)]
  BY WriteFacts
<1>6. PICK new : new = AfterWrite(me, pc, about, tried)
  OBVIOUS
<1>7. /\ new.pc = pc /\ new.batch = me.batch \ {i} /\ new.start = me.start /\ new.at = me.at
      /\ new.over = me.over
  <2> HIDE DEF me
  <2> QED
    BY <1>0, <1>1, <1>6, AfterWriteSession
<1>8. proc'[p] = new /\ \A q \in Procs \ {p} : proc'[q] = proc[q]
  BY <1>5, <1>6 DEF ShapeInv, TypeOK
<1>9. \A q \in Procs : Syncing(q)' => q = p
  BY <1>1, <1>8 DEF SteadyInv, Syncing
<1>10. ASSUME NEW j \in 1..cursor PROVE Shows(j)'
  <2>1. j \in DOMAIN feed /\ Shows(j) /\ j < i
    BY <1>1, <1>3, <1>4
  <2> QED
    BY <1>0, <2>1, WriteShows
<1>11. ASSUME NEW j \in (me.start + 1)..me.at, j \notin new.batch PROVE Shows(j)'
  <2>1. j \in DOMAIN feed
    BY <1>4
  <2>2. CASE j = i
    BY <1>0, <2>1, <2>2, WriteShows
  <2>3. CASE j # i
    <3>1. j \notin me.batch /\ Shows(j)
      BY <1>3, <1>7, <1>11, <2>3 DEF AppliesAll
    <3>2. ASSUME feed[i].kind = "put" PROVE j < i
      <4>1. i..me.at \subseteq me.batch
        BY <1>1, <1>3, <3>2 DEF AppliesAll
      <4> QED
        BY <1>1, <1>4, <3>1, <4>1
    <3> QED
      BY <1>0, <2>1, <3>1, <3>2, WriteShows
  <2> QED
    BY <2>2, <2>3
<1>12. ASSUME NEW k \in new.batch, feed[k].kind = "put" PROVE k..me.at \subseteq new.batch
  <2>1. k \in me.batch /\ k # i /\ k..me.at \subseteq me.batch
    BY <1>3, <1>7, <1>12 DEF AppliesAll
  <2>2. ComesFirst(i, me.batch)
    BY <1>0, <1>1, <1>3 DEF AppliesAll
  <2>3. i < k
    <3>1. IF feed[i].kind = feed[k].kind THEN i <= k ELSE feed[i].kind = "put"
      BY <2>1, <2>2 DEF ComesFirst
    <3>2. feed[i].kind = "put" => i..me.at \subseteq me.batch
      BY <1>1, <1>3 DEF AppliesAll
    <3>3. feed[i].kind = "put"
      BY <1>12, <3>1
    <3> QED
      BY <1>1, <1>4, <1>12, <2>1, <3>1, <3>3
  <2> QED
    BY <1>1, <1>4, <1>7, <2>1, <2>3
<1>13. AppliesAll(new)'
  <2>1. new.pc # "write"
    BY <1>7
  <2> QED
    BY <1>2, <1>4, <1>7, <1>11, <1>12, <2>1 DEF AppliesAll
<1>14. ReplacedGoes'
  BY WriteReplaces
<1> QED
  BY <1>2, <1>8, <1>9, <1>10, <1>13, <1>14 DEF SteadyInv

-----------------------------------------------------------------------------
LEMMA SteadyInit == Init => SteadyInv
<1> SUFFICES ASSUME Init PROVE SteadyInv
  OBVIOUS
<1>1. cursor = 0 /\ \A p \in Procs : ~Syncing(p)
  BY DEF Init, Syncing, Idle
<1>2. \A t \in Txs : ~Exists(t)
  BY AbsentRow DEF Init, Exists
<1>3. ReplacedGoes
  BY <1>2, InitShape, ReplacedInTxs DEF ReplacedGoes
<1> QED
  BY <1>1, <1>3 DEF SteadyInv

LEMMA LeavingSteady ==
  ASSUME ShapeInv, SteadyInv, feed' = feed, cursor' = cursor, steady' = steady, RowsSteady,
         NEW p \in Procs, proc' = [proc EXCEPT ![p] = Idle]
  PROVE  SteadyInv'
<1>1. Idle.pc = "idle"
  BY DEF Idle
<1> QED
  BY <1>1, OneSteady

LEMMA NotifyRows ==
  ASSUME ShapeInv, NEW p \in Procs, Notify(p) PROVE RowsSteady
BY NotifyFacts, SameSteady, FlagSteady

LEMMA StepSteady == ASSUME ShapeInv, SteadyInv, NEW p \in Procs, Step(p) PROVE SteadyInv'
<1> DEFINE Onward(me) == /\ proc' = [proc EXCEPT ![p] = me] /\ me.pc # "write"
                         /\ me.start = proc[p].start /\ me.at = proc[p].at
                         /\ me.batch = proc[p].batch /\ me.over = proc[p].over
<1>1. ASSUME feed' = feed, cursor' = cursor, steady' = steady, RowsSteady, Syncing(p),
             NEW me, Onward(me)
      PROVE  SteadyInv'
  <2>1. steady => AppliesAll(me)'
    BY <1>1, OnwardApplies
  <2> QED
    BY <1>1, <2>1, OneSteady
<1> HIDE DEF Onward
<1>2. CASE NextReady(p)
  <2>1. proc[p] \in SyncSession /\ Syncing(p)
    BY <1>2, Mine DEF NextReady, Syncing
  <2>2. PICK t \in proc[p].ready :
          proc' = [proc EXCEPT ![p] = [proc[p] EXCEPT !.pc = "notify", !.about = t, !.ready = @ \ {t}]]
    BY <1>2 DEF NextReady
  <2>3. Onward([proc[p] EXCEPT !.pc = "notify", !.about = t, !.ready = @ \ {t}])
    BY <2>1, <2>2 DEF SyncSession, Onward
  <2> QED
    BY <1>1, <1>2, <2>1, <2>3, SameSteady DEF NextReady
<1>3. CASE Notify(p)
  <2>1. PICK new \in SyncSession :
          /\ proc' = [proc EXCEPT ![p] = new]
          /\ new.pc \in {"ready", "fetch", "load", "enqueue", "send"}
          /\ new.start = proc[p].start /\ new.at = proc[p].at
          /\ new.batch = proc[p].batch /\ new.over = proc[p].over
    BY <1>3, NotifyFacts
  <2>2. Syncing(p) /\ Onward(new)
    BY <1>3, <2>1 DEF Notify, Syncing, Onward
  <2> QED
    BY <1>1, <1>3, <2>2, NotifyRows DEF Notify
<1>4. CASE Enqueue(p) \/ Send(p)
  <2>1. /\ proc[p] \in SyncSession /\ SessionOK(proc[p]) /\ proc[p].pc \in {"enqueue", "send"}
        /\ Syncing(p) /\ proc' = [proc EXCEPT ![p] = Resumed(proc[p])]
        /\ feed' = feed /\ cursor' = cursor /\ steady' = steady
    BY <1>4, Mine DEF Enqueue, Send, Syncing
  <2>2. Onward(Resumed(proc[p]))
    BY <2>1, ResumedSession DEF Onward
  <2>3. RowsSteady
    <3>1. proc[p].about \in Txs
      BY <2>1 DEF SessionOK
    <3> QED
      BY <1>4, <3>1, SameSteady, FlagSteady DEF Enqueue, Send
  <2> QED
    BY <1>1, <2>1, <2>2, <2>3
<1>5. CASE Finish(p)
  BY <1>5, SameSteady, LeavingSteady DEF Finish
<1>6. CASE Mark(p)
  <2>1. proc[p].about \in Txs
    BY <1>6, ProcKinds DEF Mark, ShapeInv, TypeOK, Delivery
  <2>2. RowsSteady
    BY <1>6, <2>1, FlagSteady DEF Mark
  <2> QED
    BY <1>6, <2>2, LeavingSteady DEF Mark
<1> QED
  BY <1>2, <1>3, <1>4, <1>5, <1>6, FetchSteady, LoadSteady, WriteSteady, ConflictSteady,
     SaveCursorSteady DEF Step

LEMMA SteadyStep == ShapeInv /\ SteadyInv /\ [Next]_vars => SteadyInv'
<1> SUFFICES ASSUME ShapeInv, SteadyInv, [Next]_vars PROVE SteadyInv'
  OBVIOUS
<1>1. CASE Webhook \/ UNCHANGED vars
  BY <1>1, SameSteady, RowsOnly DEF Webhook, vars
<1>2. ASSUME NEW t \in Txs, MarkPersonal(t) \/ Post(t) \/ Reconcile(t) PROVE SteadyInv'
  BY <1>2, UserSteady, RowsOnly DEF MarkPersonal, Post, Reconcile
<1>3. ASSUME NEW p \in Procs, Fail(p) \/ Die(p) PROVE SteadyInv'
  BY <1>3, SameSteady, LeavingSteady DEF Fail, Die
<1>4. ASSUME NEW p \in Workers, NEW t \in Txs, Deliver(p, t) PROVE SteadyInv'
  <2>1. feed' = feed /\ cursor' = cursor /\ steady' = steady /\ RowsSteady /\ p \in Procs
    BY <1>4, SameSteady DEF Deliver, Procs
  <2>2. CASE proc' = proc
    BY <2>1, <2>2, RowsOnly
  <2>3. CASE proc' = [proc EXCEPT ![p] = [pc |-> "mark", about |-> t]]
    BY <2>1, <2>3, OneSteady
  <2> QED
    BY <1>4, <2>2, <2>3, DeliverFacts
<1> QED
  BY <1>1, <1>2, <1>3, <1>4, UpdateSteady, StepSteady, BeginSteady DEF Next

LEMMA SteadyHolds == Spec => []SteadyInv
BY SteadyInit, SteadyStep, ShapeHolds, PTL DEF Spec

\* The cursor never runs ahead of the rows, although syncs fail, die and start again from
\* the old cursor, as long as they do not overlap.
THEOREM RowsHold == Spec => []RowsKeepUp
<1>1. ShapeInv /\ SteadyInv => RowsKeepUp
  <2> SUFFICES ASSUME ShapeInv, SteadyInv, steady, NEW t \in Txs, NEW i \in LatestBefore(t, cursor)
               PROVE  IF feed[i].kind = "put" THEN rows[t].version >= i
                      ELSE rows[t].status \in {"none", "removed", "undoing"}
    BY DEF RowsKeepUp, KeepsUp
  <2>1. i \in 1..cursor /\ feed[i].tx = t
    BY Positions DEF LatestBefore, Updates, ShapeInv, TypeOK
  <2> QED
    BY <2>1 DEF SteadyInv, Shows, Gone
<1> QED
  BY <1>1, ShapeHolds, SteadyHolds, PTL

\* A pending transaction and the settled one that replaced it are never both open, whatever
\* is read again after a failure, as long as syncs do not overlap.
THEOREM ReplacedHolds == Spec => []ReplacedIsGone
<1>1. SteadyInv => ReplacedIsGone
  BY DEF SteadyInv, ReplacedGoes, ReplacedIsGone, Exists
<1> QED
  BY <1>1, SteadyHolds, PTL

=============================================================================
