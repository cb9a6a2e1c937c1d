--------------------------- MODULE ReceiptsProofs ---------------------------
(***************************************************************************)
(* Proofs about Receipts, for any deliveries, processes, items, days and   *)
(* bounds: type correctness, that one delivery of an artifact is read,     *)
(* that an ignored receipt is unlearned, and that purchases are backed by  *)
(* the line they are of and counted in the last day of their item.         *)
(***************************************************************************)
EXTENDS Receipts, SequenceTheorems, FiniteSetTheorems, TLAPS

-----------------------------------------------------------------------------
(* What a transaction on a line sees, and what it keeps.                    *)

Days == {0, Day} \cup History
Row == [item : Items, active : BOOLEAN, user : BOOLEAN]
Book == [line : Lines, rows : Rows, last : [Items -> Days]]

OneActive(rows) == \A k, l \in Actives(rows) : k = l

\* No item was last bought before a purchase of it.
Counted(b) ==
  /\ \A i \in Items : b.last[i] >= bought[i]
  /\ \A k \in Actives(b.rows) : b.last[b.rows[k].item] >= Day

Sound(b) == b \in Book /\ OneActive(b.rows) /\ Counted(b)

\* A single purchase is of the item its line is matched to.
Backed(b) ==
  Len(b.rows) = 1 =>
    \A k \in Actives(b.rows) : b.line.match = "matched" /\ b.line.item = b.rows[k].item

\* An ignored line has only purchases that the user confirmed.
Quiet(b) == b.line.status = "ignored" => \A k \in Actives(b.rows) : b.rows[k].user

-----------------------------------------------------------------------------
(* The inductive invariant.                                                *)

Unread(line) == line.match = "none"

\* A receipt that was not read has no line and no purchase, and one receipt was read.
ReadOnce ==
  /\ \A d \in Deliveries : receipt[d].status \in {"absent"} \cup Failures => Unread(receipt[d])
  /\ \A d \in Deliveries : Unread(receipt[d]) => purchases[d] = <<>>
  /\ \A d, e \in Parsed : d = e

StoredOnce ==
  /\ stored \in Seq(Deliveries) /\ IsInjective(stored)
  /\ ToSet(stored) = {d \in Deliveries : receipt[d].status # "absent"}
  /\ spoilt \subseteq ToSet(stored)

BooksHold ==
  /\ bought \in [Items -> History]
  /\ receipt \in [Deliveries -> Lines] /\ purchases \in [Deliveries -> Rows]
  /\ last \in [Items -> Days] /\ \A i \in Items : last[i] >= bought[i]
  /\ \A d \in Deliveries : Sound(Now(d))
  /\ \A d \in Deliveries \ spoilt : Backed(Now(d)) /\ Quiet(Now(d))

Kinds == {"confirm", "auto", "ignore", "restore", "match", "unmatch", "reject", "decide", "undo"}
Ingesting == [pc : {"parse", "persist", "confirm"}, d : Deliveries]
Requesting == [pc : {"loaded"}, kind : Kinds, d : Deliveries, item : Decisions, line : Lines,
               rows : Rows, row : Nat]

\* A worker that holds the lock of the artifact is alone, and nothing was read yet.
HoldsLock(w) == Parsed = {} /\ \A v \in Workers : proc[v].pc = "persist" => v = w

\* A request acts on what it was allowed to load, and what it loaded has not gone since.
Proper(q) ==
  /\ Allowed(q.kind, q.line) /\ q.item \in Named(q.kind) /\ q.row \in Loaded(q.kind, q.rows)
  /\ q.line.status # "absent" /\ receipt[q.d].status # "absent"
  /\ Unread(q.line) => q.rows = <<>>
  /\ Unread(receipt[q.d]) => Unread(q.line)

WorkHolds(p) ==
  \/ proc[p] = Idle
  \/ /\ p \in Workers /\ proc[p] \in Ingesting
     /\ proc[p].pc = "persist" => HoldsLock(p)
  \/ proc[p] \in Requesting /\ Proper(proc[p])

IInv ==
  /\ proc = [p \in Procs |-> proc[p]]
  /\ ReadOnce /\ StoredOnce /\ BooksHold
  /\ \A p \in Procs : WorkHolds(p)

-----------------------------------------------------------------------------
(* Rows                                                                    *)

LEMMA RowsAreSeqs == Rows = Seq(Row)
BY DEF Rows, Row

LEMMA RowFields ==
  ASSUME NEW rows \in Rows, NEW k \in DOMAIN rows
  PROVE  /\ rows[k].item \in Items /\ rows[k].active \in BOOLEAN /\ rows[k].user \in BOOLEAN
         /\ k \in 1..Len(rows)
<1>1. rows \in Seq(Row)
  BY RowsAreSeqs
<1>2. k \in 1..Len(rows) /\ rows[k] \in Row
  BY <1>1, LenProperties
<1> QED
  BY <1>2 DEF Row

LEMMA Empty == <<>> \in Rows /\ Actives(<<>>) = {} /\ Len(<<>>) = 0
  BY RowsAreSeqs DEF Actives

\* A purchase is added after those there are.
LEMMA AddedRow ==
  ASSUME NEW rows \in Rows, NEW row \in Row, row.active
  PROVE  LET new == Append(rows, row)
         IN /\ new \in Rows /\ Len(new) = Len(rows) + 1
            /\ Actives(new) = Actives(rows) \cup {Len(rows) + 1}
            /\ Len(rows) + 1 \notin Actives(rows)
            /\ new[Len(rows) + 1] = row
            /\ \A k \in Actives(rows) : k \in DOMAIN rows /\ new[k] = rows[k]
<1> DEFINE new == Append(rows, row)
<1>1. /\ new \in Rows /\ Len(new) = Len(rows) + 1 /\ new[Len(rows) + 1] = row
      /\ \A k \in 1..Len(rows) : new[k] = rows[k]
  BY RowsAreSeqs
<1>2. DOMAIN rows = 1..Len(rows) /\ DOMAIN new = 1..(Len(rows) + 1) /\ Len(rows) \in Nat
  BY <1>1, RowsAreSeqs
<1>3. DOMAIN new = DOMAIN rows \cup {Len(rows) + 1} /\ Len(rows) + 1 \notin DOMAIN rows
  BY <1>2
<1> HIDE DEF new
<1>4. Actives(new) = Actives(rows) \cup {Len(rows) + 1}
  BY <1>1, <1>2, <1>3 DEF Actives
<1>5. Actives(rows) \subseteq DOMAIN rows
  BY DEF Actives
<1> QED
  BY <1>1, <1>2, <1>3, <1>4, <1>5 DEF new

\* One purchase is voided.
LEMMA VoidedRow ==
  ASSUME NEW rows \in Rows, NEW k \in DOMAIN rows
  PROVE  /\ Voided(rows, k) \in Rows
         /\ DOMAIN Voided(rows, k) = DOMAIN rows /\ Len(Voided(rows, k)) = Len(rows)
         /\ Actives(Voided(rows, k)) = Actives(rows) \ {k}
         /\ \A l \in DOMAIN rows : /\ Voided(rows, k)[l].item = rows[l].item
                                   /\ Voided(rows, k)[l].user = rows[l].user
<1>1. rows[k] \in Row /\ rows \in Seq(Row)
  BY RowsAreSeqs
<1>2. [rows[k] EXCEPT !.active = FALSE] \in Row
  BY <1>1 DEF Row
<1>3. Voided(rows, k) = [rows EXCEPT ![k] = [rows[k] EXCEPT !.active = FALSE]]
  BY DEF Voided
<1>4. Voided(rows, k) \in Rows /\ DOMAIN Voided(rows, k) = DOMAIN rows
  BY <1>1, <1>2, <1>3, ExceptSeq, RowsAreSeqs
<1>5. Len(Voided(rows, k)) = Len(rows)
  BY <1>1, <1>2, <1>3, ExceptSeq
<1>6. [rows[k] EXCEPT !.active = FALSE].active = FALSE
      /\ [rows[k] EXCEPT !.active = FALSE].item = rows[k].item
      /\ [rows[k] EXCEPT !.active = FALSE].user = rows[k].user
  BY <1>1 DEF Row
<1>7. \A l \in DOMAIN rows : Voided(rows, k)[l] = IF l = k THEN [rows[k] EXCEPT !.active = FALSE]
                                                 ELSE rows[l]
  BY <1>3
<1>8. Actives(Voided(rows, k)) = Actives(rows) \ {k}
  BY <1>4, <1>6, <1>7 DEF Actives
<1> QED
  BY <1>4, <1>5, <1>6, <1>7, <1>8

\* The purchase there is may be confirmed by the user.
LEMMA ConfirmedRows ==
  ASSUME NEW rows \in Rows, NEW user \in BOOLEAN, NEW known
  PROVE  LET new == Reconfirmed(rows, known, user)
         IN /\ new \in Rows /\ DOMAIN new = DOMAIN rows /\ Len(new) = Len(rows)
            /\ Actives(new) = Actives(rows)
            /\ \A k \in DOMAIN rows : new[k].item = rows[k].item /\ (rows[k].user => new[k].user)
<1> DEFINE Seen(k) == rows[k].user \/ (k \in known /\ user)
           new == [k \in DOMAIN rows |-> [rows[k] EXCEPT !.user = Seen(k)]]
<1>1. \A k \in DOMAIN rows : Seen(k) \in BOOLEAN /\ (rows[k].user => Seen(k))
  BY RowFields
<1>2. new = Reconfirmed(rows, known, user)
  BY DEF Reconfirmed
<1> HIDE DEF Seen
<1>3. \A k \in DOMAIN rows : rows[k] \in Row
  BY RowsAreSeqs
<1>4. \A k \in DOMAIN rows : /\ new[k] \in Row /\ new[k].item = rows[k].item
                             /\ new[k].active = rows[k].active /\ new[k].user = Seen(k)
  BY <1>1, <1>3 DEF Row
<1>5. DOMAIN new = DOMAIN rows /\ DOMAIN rows = 1..Len(rows) /\ Len(rows) \in Nat
  BY RowsAreSeqs
<1>6. new \in Rows /\ Len(new) = Len(rows)
  <2>1. new \in [1..Len(rows) -> Row]
    BY <1>4, <1>5
  <2>2. new \in Seq(Row)
    BY <2>1, <1>5, SeqDef
  <2>3. DOMAIN new = 1..Len(new) /\ Len(new) \in Nat
    BY <2>2, LenProperties
  <2>4. ASSUME NEW a \in Nat, NEW b \in Nat, 1..a = 1..b PROVE a = b
    BY <2>4
  <2>5. Len(new) = Len(rows)
    BY <2>3, <2>4, <1>5
  <2> QED
    BY <2>2, <2>5, RowsAreSeqs
<1> HIDE DEF new
<1>7. Actives(new) = Actives(rows)
  BY <1>4, <1>5 DEF Actives
<1> QED
  BY <1>1, <1>2, <1>4, <1>5, <1>6, <1>7

-----------------------------------------------------------------------------
(* Books                                                                   *)

LEMMA BookParts ==
  ASSUME NEW b \in Book
  PROVE  b.line \in Lines /\ b.rows \in Rows /\ b.last \in [Items -> Days]
  BY DEF Book

\* A book with another line, other rows or other days.
LEMMA LineSet ==
  ASSUME NEW b \in Book, NEW line \in Lines, NEW c, c = [b EXCEPT !.line = line]
  PROVE  c \in Book /\ c.line = line /\ c.rows = b.rows /\ c.last = b.last
  BY DEF Book

LEMMA RowsSet ==
  ASSUME NEW b \in Book, NEW rows \in Rows, NEW days \in [Items -> Days],
         NEW c, c = [line |-> b.line, rows |-> rows, last |-> days]
  PROVE  c \in Book /\ c.line = b.line /\ c.rows = rows /\ c.last = days
  BY DEF Book

\* Another line leaves purchases and days sound.
LEMMA SoundWith ==
  ASSUME NEW b, Sound(b), NEW line \in Lines
  PROVE  Sound([b EXCEPT !.line = line])
<1>1. b \in Book
  BY DEF Sound
<1>2. PICK c : c = [b EXCEPT !.line = line]
  OBVIOUS
<1>3. c \in Book /\ c.rows = b.rows /\ c.last = b.last
  BY <1>1, <1>2, LineSet
<1>4. Sound(c)
  BY <1>3 DEF Sound, Counted
<1> QED
  BY <1>2, <1>4

LEMMA DayTypes == Day \in Nat \ {0} /\ Days \subseteq Nat /\ 0 \in Days /\ Day \in Days
  BY ReceiptConstants DEF Days

\* The latest day is one of the days, not before that of another purchase or of an
\* active one.
LEMMA LatestIs ==
  ASSUME bought \in [Items -> History], NEW i \in Items, NEW rows
  PROVE  /\ Latest(i, rows) \in Days
         /\ Latest(i, rows) >= bought[i]
         /\ (\E k \in Actives(rows) : rows[k].item = i) => Latest(i, rows) >= Day
<1> DEFINE own == {Day : k \in {k \in Actives(rows) : rows[k].item = i}}
           all == {0, bought[i]} \cup own
<1>1. own \subseteq {Day} /\ ((\E k \in Actives(rows) : rows[k].item = i) => Day \in own)
  OBVIOUS
<1>2. bought[i] \in History
  OBVIOUS
<1>3. bought[i] \in Nat /\ Day \in Nat /\ bought[i] \in Days
  BY <1>2, ReceiptConstants DEF Days
<1> HIDE DEF own
<1>4. \E x \in all : \A y \in all : x >= y
  <2>1. all \subseteq {0, bought[i], Day} /\ 0 \in all /\ bought[i] \in all
    BY <1>1
  <2>2. CASE Day \in all /\ Day >= bought[i]
    <3>1. \A y \in all : Day >= y
      BY <2>1, <2>2, <1>3
    <3> QED
      BY <3>1, <2>2
  <2>3. CASE ~(Day \in all /\ Day >= bought[i])
    <3>1. \A y \in all : bought[i] >= y
      <4> SUFFICES ASSUME NEW y \in all PROVE bought[i] >= y
        OBVIOUS
      <4>1. y = 0 \/ y = bought[i] \/ (y = Day /\ ~(Day >= bought[i]))
        BY <2>1, <2>3
      <4> QED
        BY <4>1, <1>3
    <3> QED
      BY <3>1, <2>1
  <2> QED
    BY <2>2, <2>3
<1>5. Latest(i, rows) \in all /\ \A y \in all : Latest(i, rows) >= y
  BY <1>4 DEF Latest, Max, own
<1>6. all \subseteq Days /\ bought[i] \in all /\ ((\E k \in Actives(rows) : rows[k].item = i) => Day \in all)
  BY <1>1, <1>3, DayTypes
<1> QED
  BY <1>5, <1>6

\* What record leaves: the line as it was, all its purchases of the item, and one of them.
LEMMA Recorded ==
  ASSUME bought \in [Items -> History], NEW b, Sound(b), NEW i \in Items, NEW user \in BOOLEAN,
         NEW c \in Record(b, i, user)
  PROVE  /\ Sound(c) /\ c.line = b.line
         /\ \A k \in Actives(c.rows) : c.rows[k].item = i
         /\ \E k \in Actives(c.rows) : TRUE
<1> DEFINE known == Actives(b.rows)
           row == [item |-> i, active |-> TRUE, user |-> user]
           seen == Reconfirmed(b.rows, known, user)
           rows == IF known = {} THEN Append(b.rows, row) ELSE seen
           day == IF b.last[i] <= Day THEN Day ELSE b.last[i]
           days == [b.last EXCEPT ![i] = day]
<1>1. b \in Book /\ b.line \in Lines /\ b.rows \in Rows /\ b.last \in [Items -> Days]
  BY BookParts DEF Sound
<1>2. OneActive(b.rows) /\ Counted(b)
  BY DEF Sound
<1>3. (\A k \in known : b.rows[k].item = i) /\ c = [line |-> b.line, rows |-> rows, last |-> days]
  <2>1. \A k \in known : b.rows[k].item = i
    BY DEF Record
  <2>2. c = [b EXCEPT !.rows = rows, !.last[i] = day]
    BY DEF Record
  <2>3. b = [line |-> b.line, rows |-> b.rows, last |-> b.last]
    BY <1>1 DEF Book
  <2> HIDE DEF rows, day
  <2> QED
    BY <2>1, <2>2, <2>3, <1>1
<1>4. row \in Row /\ row.active /\ row.item = i
  BY DEF Row
<1> HIDE DEF row
<1>5. /\ seen \in Rows /\ Actives(seen) = known
      /\ \A k \in known : seen[k].item = i
  <2>1. known \subseteq DOMAIN b.rows
    BY DEF Actives
  <2> QED
    BY <2>1, <1>1, <1>3, ConfirmedRows
<1>6. known = {} => LET new == Append(b.rows, row) IN
                    /\ new \in Rows /\ Actives(new) = {Len(b.rows) + 1}
                    /\ new[Len(b.rows) + 1] = row
  BY <1>1, <1>4, AddedRow
<1> HIDE DEF seen
<1>7. /\ rows \in Rows /\ OneActive(rows)
      /\ \A k \in Actives(rows) : rows[k].item = i
      /\ \E k \in Actives(rows) : TRUE
  <2>1. CASE known = {}
    BY <2>1, <1>4, <1>6 DEF OneActive
  <2>2. CASE known # {}
    BY <2>2, <1>2, <1>5 DEF OneActive
  <2> QED
    BY <2>1, <2>2
<1>8. days \in [Items -> Days] /\ days[i] >= Day /\ \A j \in Items : days[j] >= b.last[j] /\ b.last[j] \in Nat
  <2>1. \A j \in Items : b.last[j] \in Days /\ b.last[j] \in Nat
    BY <1>1, DayTypes
  <2>2. day \in Days /\ day >= Day /\ day >= b.last[i]
    BY <2>1, DayTypes
  <2> QED
    BY <2>1, <2>2, <1>1, DayTypes
<1> HIDE DEF rows, days
<1>9. c \in Book /\ c.line = b.line /\ c.rows = rows /\ c.last = days
  BY <1>1, <1>3, <1>7, <1>8, RowsSet
<1>10. \A j \in Items : days[j] >= bought[j]
  <2> SUFFICES ASSUME NEW j \in Items PROVE days[j] >= bought[j]
    OBVIOUS
  <2>1. b.last[j] >= bought[j] /\ days[j] >= b.last[j] /\ b.last[j] \in Nat
    BY <1>2, <1>8 DEF Counted
  <2>2. days[j] \in Nat /\ bought[j] \in Nat
    BY <1>8, DayTypes, ReceiptConstants
  <2> QED
    BY <2>1, <2>2
<1>11. Counted(c)
  BY <1>7, <1>8, <1>9, <1>10 DEF Counted
<1>12. Sound(c)
  BY <1>7, <1>9, <1>11 DEF Sound
<1> QED
  BY <1>7, <1>9, <1>12

\* What undo leaves: no purchase.
LEMMA Undone ==
  ASSUME bought \in [Items -> History], NEW b, Sound(b), NEW k, NEW c \in Undo(b, k)
  PROVE  Sound(c) /\ c.line = b.line /\ Actives(c.rows) = {} /\ Len(c.rows) = Len(b.rows)
<1> DEFINE i == b.rows[k].item
           days == [b.last EXCEPT ![i] = Latest(i, b.rows)]
<1>1. b \in Book /\ b.line \in Lines /\ b.rows \in Rows /\ b.last \in [Items -> Days]
  BY BookParts DEF Sound
<1>2. k \in Actives(b.rows) /\ k \in DOMAIN b.rows
  BY DEF Undo, Actives
<1>3. c = [line |-> b.line, rows |-> Voided(b.rows, k), last |-> days]
  <2>1. c = [b EXCEPT !.rows = Voided(@, k), !.last[i] = Latest(i, b.rows)]
    BY <1>2 DEF Undo
  <2>2. b = [line |-> b.line, rows |-> b.rows, last |-> b.last]
    BY <1>1 DEF Book
  <2> QED
    BY <2>1, <2>2
<1>4. Voided(b.rows, k) \in Rows /\ Len(Voided(b.rows, k)) = Len(b.rows)
      /\ Actives(Voided(b.rows, k)) = {}
  <2>1. Actives(b.rows) = {k}
    BY <1>2 DEF Sound, OneActive
  <2> QED
    BY <2>1, <1>1, <1>2, VoidedRow
<1>5. i \in Items
  BY <1>1, <1>2, RowFields
<1>6. Latest(i, b.rows) \in Days /\ Latest(i, b.rows) >= bought[i]
  BY <1>5, LatestIs
<1>7. days \in [Items -> Days] /\ \A j \in Items : days[j] = IF j = i THEN Latest(i, b.rows) ELSE b.last[j]
  BY <1>1, <1>5, <1>6
<1>8. \A j \in Items : b.last[j] >= bought[j]
  BY DEF Sound, Counted
<1> HIDE DEF days, i
<1>9. c \in Book /\ c.line = b.line /\ c.rows = Voided(b.rows, k) /\ c.last = days
  BY <1>1, <1>3, <1>4, <1>7, RowsSet
<1>10. Counted(c)
  BY <1>4, <1>6, <1>7, <1>8, <1>9 DEF Counted
<1>11. Sound(c)
  BY <1>4, <1>9, <1>10 DEF Sound, OneActive
<1> QED
  BY <1>4, <1>9, <1>11

\* What correct leaves: a second purchase, the user's, and no other active one.
LEMMA Corrected ==
  ASSUME bought \in [Items -> History], NEW b, Sound(b), NEW k, NEW i \in Items,
         NEW c \in Correct(b, k, i)
  PROVE  /\ Sound(c) /\ c.line = b.line /\ Len(c.rows) # 1
         /\ \A l \in Actives(c.rows) : c.rows[l].user
<1> DEFINE old == Voided(b.rows, k)
           row == [item |-> i, active |-> TRUE, user |-> TRUE]
           rows == Append(old, row)
           days == [j \in Items |-> IF j \in {i, b.rows[k].item} THEN Latest(j, rows) ELSE b.last[j]]
<1>1. b \in Book /\ b.line \in Lines /\ b.rows \in Rows /\ b.last \in [Items -> Days]
  BY BookParts DEF Sound
<1>2. k \in Actives(b.rows) /\ k \in DOMAIN b.rows
  BY DEF Correct, Actives
<1>3. c = [line |-> b.line, rows |-> rows, last |-> days]
  <2>1. c = [b EXCEPT !.rows = rows,
                      !.last = [j \in Items |-> IF j \in {i, b.rows[k].item}
                                                THEN Latest(j, rows) ELSE @[j]]]
    BY <1>2 DEF Correct
  <2>2. b = [line |-> b.line, rows |-> b.rows, last |-> b.last]
    BY <1>1 DEF Book
  <2> QED
    BY <2>1, <2>2
<1>4. old \in Rows /\ Len(old) = Len(b.rows) /\ Actives(old) = {}
  <2>1. Actives(b.rows) = {k}
    BY <1>2 DEF Sound, OneActive
  <2> QED
    BY <2>1, <1>1, <1>2, VoidedRow
<1>5. row \in Row /\ row.active /\ row.user /\ row.item = i
  BY DEF Row
<1> HIDE DEF row, old
<1>6. /\ rows \in Rows /\ Len(rows) = Len(old) + 1 /\ Actives(rows) = {Len(old) + 1}
      /\ rows[Len(old) + 1] = row
  BY <1>4, <1>5, AddedRow
<1>7. Len(rows) # 1
  BY <1>1, <1>2, <1>4, <1>6, RowFields, RowsAreSeqs
<1> HIDE DEF rows
<1>8. days \in [Items -> Days]
  BY <1>1, LatestIs
<1>9. \A j \in Items : days[j] >= bought[j]
  BY LatestIs DEF Sound, Counted
<1>10. days[i] >= Day
  BY <1>5, <1>6, LatestIs
<1> HIDE DEF days
<1>11. c \in Book /\ c.line = b.line /\ c.rows = rows /\ c.last = days
  BY <1>1, <1>3, <1>6, <1>8, RowsSet
<1>12. Counted(c)
  BY <1>5, <1>6, <1>9, <1>10, <1>11 DEF Counted
<1>13. Sound(c)
  BY <1>6, <1>11, <1>12 DEF Sound, OneActive
<1> QED
  BY <1>5, <1>6, <1>7, <1>11, <1>13

-----------------------------------------------------------------------------
(* Lines                                                                   *)

LEMMA LineParts ==
  ASSUME NEW line \in Lines
  PROVE  /\ line.match \in {"none", "possible", "unmatched"} \cup Decided
         /\ line.item \in Decisions /\ line.learns \in Decisions
  BY DEF Lines

\* A book whose line alone has changed.
LEMMA SoundSame ==
  ASSUME NEW b, Sound(b), NEW c \in Book, c.rows = b.rows, c.last = b.last
  PROVE  Sound(c)
  BY DEF Sound, Counted

Matching(b, match, i) == [b EXCEPT !.line.match = match, !.line.item = i]
Provisional(b) == [b EXCEPT !.line.state = "provisional"]
Waiting(b) == [b EXCEPT !.line.retry = TRUE]
Retried(b) == [b EXCEPT !.line.retry = FALSE]
Statused(b, status) == [b EXCEPT !.line.status = status]

LEMMA LineMatched ==
  ASSUME NEW b, Sound(b), NEW match \in {"unmatched"} \cup Decided, NEW i \in Decisions,
         NEW c, c = Matching(b, match, i)
  PROVE  /\ Sound(c) /\ c.rows = b.rows /\ c.last = b.last
         /\ c.line.match = match /\ c.line.item = i /\ c.line.status = b.line.status
<1>1. b \in Book /\ b.line \in Lines
  BY BookParts DEF Sound
<1>2. PICK line : line = [b.line EXCEPT !.match = match, !.item = i]
  OBVIOUS
<1>3. line \in Lines
  BY <1>1, <1>2 DEF Lines
<1>4. c = [b EXCEPT !.line = line]
  BY <1>1, <1>2 DEF Matching, Book, Lines
<1>6. c \in Book /\ c.rows = b.rows /\ c.last = b.last /\ c.line = line
  BY <1>1, <1>3, <1>4, LineSet
<1>7. c.line.match = match /\ c.line.item = i /\ c.line.status = b.line.status
  BY <1>1, <1>2, <1>6 DEF Lines
<1> QED
  BY <1>6, <1>7, SoundSame

LEMMA LineDecided ==
  ASSUME NEW b, Sound(b), NEW i \in Decisions
  PROVE  LET c == Final(b, i)
         IN /\ Sound(c) /\ c.rows = b.rows /\ c.last = b.last
            /\ c.line.match = b.line.match /\ c.line.item = b.line.item
            /\ c.line.status = b.line.status /\ c.line.learns = i
<1>1. b \in Book /\ b.line \in Lines
  BY BookParts DEF Sound
<1>2. [b.line EXCEPT !.state = "final", !.learns = i] \in Lines
  BY <1>1 DEF Lines
<1>3. PICK c : c = Final(b, i)
  OBVIOUS
<1>4. c = [b EXCEPT !.line = [b.line EXCEPT !.state = "final", !.learns = i]]
  BY <1>1, <1>3 DEF Book, Lines, Final
<1>5. /\ c \in Book /\ c.rows = b.rows /\ c.last = b.last
      /\ c.line = [b.line EXCEPT !.state = "final", !.learns = i]
  BY <1>1, <1>2, <1>4, LineSet
<1>6. /\ c.line.match = b.line.match /\ c.line.item = b.line.item
      /\ c.line.status = b.line.status /\ c.line.learns = i
  BY <1>1, <1>5 DEF Lines
<1> QED
  BY <1>3, <1>5, <1>6, SoundSame

LEMMA LineProvisional ==
  ASSUME NEW b, Sound(b), NEW c, c = Provisional(b)
  PROVE  /\ Sound(c) /\ c.rows = b.rows /\ c.last = b.last
         /\ c.line.match = b.line.match /\ c.line.item = b.line.item
         /\ c.line.status = b.line.status
<1>1. b \in Book /\ b.line \in Lines
  BY BookParts DEF Sound
<1>2. [b.line EXCEPT !.state = "provisional"] \in Lines
  BY <1>1 DEF Lines
<1>3. c = [b EXCEPT !.line = [b.line EXCEPT !.state = "provisional"]]
  BY <1>1 DEF Provisional, Book, Lines
<1>4. c \in Book /\ c.rows = b.rows /\ c.last = b.last
      /\ c.line = [b.line EXCEPT !.state = "provisional"]
  BY <1>1, <1>2, <1>3, LineSet
<1>5. c.line.match = b.line.match /\ c.line.item = b.line.item /\ c.line.status = b.line.status
  BY <1>1, <1>4 DEF Lines
<1> QED
  BY <1>4, <1>5, SoundSame

LEMMA LineRetries ==
  ASSUME NEW b, Sound(b), NEW c \in {Waiting(b), Retried(b)}
  PROVE  /\ Sound(c) /\ c.rows = b.rows /\ c.last = b.last
         /\ c.line.match = b.line.match /\ c.line.item = b.line.item
         /\ c.line.status = b.line.status
<1>1. b \in Book /\ b.line \in Lines
  BY BookParts DEF Sound
<1>2. ASSUME NEW retry \in BOOLEAN, c = [b EXCEPT !.line = [b.line EXCEPT !.retry = retry]]
      PROVE  /\ Sound(c) /\ c.rows = b.rows /\ c.last = b.last
             /\ c.line.match = b.line.match /\ c.line.item = b.line.item
             /\ c.line.status = b.line.status
  <2>1. [b.line EXCEPT !.retry = retry] \in Lines
    BY <1>1 DEF Lines
  <2>2. c \in Book /\ c.rows = b.rows /\ c.last = b.last
        /\ c.line = [b.line EXCEPT !.retry = retry]
    BY <1>1, <1>2, <2>1, LineSet
  <2>3. /\ c.line.match = b.line.match /\ c.line.item = b.line.item
        /\ c.line.status = b.line.status
    BY <1>1, <2>2 DEF Lines
  <2> QED
    BY <2>2, <2>3, SoundSame
<1>3. Waiting(b) = [b EXCEPT !.line = [b.line EXCEPT !.retry = TRUE]]
  BY <1>1 DEF Waiting, Book, Lines
<1>4. Retried(b) = [b EXCEPT !.line = [b.line EXCEPT !.retry = FALSE]]
  BY <1>1 DEF Retried, Book, Lines
<1>5. \E retry \in BOOLEAN : c = [b EXCEPT !.line = [b.line EXCEPT !.retry = retry]]
  BY <1>3, <1>4, Zenon
<1> QED
  BY <1>2, <1>5

LEMMA LineStatus ==
  ASSUME NEW b, Sound(b), NEW status \in {"needs_review", "confirmed", "ignored"} \cup Failures,
         NEW c, c = Statused(b, status)
  PROVE  /\ Sound(c) /\ c.rows = b.rows /\ c.last = b.last
         /\ c.line.match = b.line.match /\ c.line.item = b.line.item
         /\ c.line.status = status /\ c.line.learns = b.line.learns
<1>1. b \in Book /\ b.line \in Lines
  BY BookParts DEF Sound
<1>2. [b.line EXCEPT !.status = status] \in Lines
  BY <1>1 DEF Lines
<1>3. c = [b EXCEPT !.line = [b.line EXCEPT !.status = status]]
  BY <1>1 DEF Statused, Book, Lines
<1>4. c \in Book /\ c.rows = b.rows /\ c.last = b.last
      /\ c.line = [b.line EXCEPT !.status = status]
  BY <1>1, <1>2, <1>3, LineSet
<1>5. /\ c.line.match = b.line.match /\ c.line.item = b.line.item
      /\ c.line.status = status /\ c.line.learns = b.line.learns
  BY <1>1, <1>4 DEF Lines
<1> QED
  BY <1>4, <1>5, SoundSame

\* Backed and Quiet look at the match and the status of the line, and at its purchases.
LEMMA BackedSame ==
  ASSUME NEW b, NEW c, c.rows = b.rows, c.line.match = b.line.match, c.line.item = b.line.item,
         Backed(b)
  PROVE  Backed(c)
  BY DEF Backed

LEMMA QuietSame ==
  ASSUME NEW b, NEW c, c.rows = b.rows, c.line.status = b.line.status, Quiet(b)
  PROVE  Quiet(c)
  BY DEF Quiet

-----------------------------------------------------------------------------
(* Classification                                                          *)

\* What was learned follows the decision, and the line with it.
LEMMA Learned ==
  ASSUME bought \in [Items -> History], NEW b, Sound(b), NEW c \in Learn(b)
  PROVE  /\ Sound(c) /\ c.line.status = b.line.status
         /\ Backed(b) => Backed(c)
         /\ b.line.match # "none" => c.line.match # "none"
<1>1. b.line.learns \in Decisions
  BY BookParts, LineParts DEF Sound
<1>2. CASE b.line.learns = None
  BY <1>2 DEF Learn
<1>3. CASE b.line.learns # None
  <2>1. b.line.learns \in Items
    BY <1>1, <1>3 DEF Decisions
  <2> PICK user \in BOOLEAN : user = FALSE
    OBVIOUS
  <2>2. PICK e \in Record(b, b.line.learns, user) : c = Matching(e, "matched", b.line.learns)
    BY <1>3 DEF Learn, Matching
  <2>3. /\ Sound(e) /\ e.line = b.line
        /\ \A k \in Actives(e.rows) : e.rows[k].item = b.line.learns
    BY <2>1, <2>2, Recorded
  <2>4. /\ Sound(c) /\ c.rows = e.rows /\ c.line.match = "matched"
        /\ c.line.item = b.line.learns /\ c.line.status = e.line.status
    <3>1. "matched" \in {"unmatched"} \cup Decided
      BY DEF Decided
    <3> QED
      BY <1>1, <2>2, <2>3, <3>1, LineMatched
  <2>5. Backed(c)
    BY <2>3, <2>4 DEF Backed
  <2> QED
    BY <2>3, <2>4, <2>5
<1> QED
  BY <1>2, <1>3

\* Classification keeps what is sound and backed, and leaves a receipt without a line.
LEMMA Classified ==
  ASSUME bought \in [Items -> History], NEW b, Sound(b), NEW c \in Classify(b)
  PROVE  /\ Sound(c) /\ c.line.status = b.line.status
         /\ Backed(b) => Backed(c)
         /\ b.line.match # "none" => c.line.match # "none"
         /\ b.line.match = "none" => c = b
<1>1. CASE b.line.match = "none"
  BY <1>1 DEF Classify
<1>2. CASE b.line.match # "none" /\ c = b
  BY <1>2
<1>3. CASE b.line.match # "none" /\ c \in Learn(b)
  BY <1>3, Learned
<1>4. CASE b.line.match # "none" /\ c = Provisional(b)
  BY <1>4, LineProvisional, BackedSame
<1>5. ASSUME b.line.match # "none", NEW i \in Decisions, c \in Learn(Final(b, i))
      PROVE  /\ Sound(c) /\ c.line.status = b.line.status
             /\ Backed(b) => Backed(c)
             /\ c.line.match # "none"
  <2>1. PICK f : f = Final(b, i)
    OBVIOUS
  <2>2. /\ Sound(f) /\ f.rows = b.rows /\ f.line.match = b.line.match
        /\ f.line.item = b.line.item /\ f.line.status = b.line.status
    BY <2>1, LineDecided
  <2>3. c \in Learn(f)
    BY <1>5, <2>1
  <2>4. /\ Sound(c) /\ c.line.status = f.line.status /\ (Backed(f) => Backed(c))
        /\ c.line.match # "none"
    BY <1>5, <2>2, <2>3, Learned
  <2> QED
    BY <2>2, <2>4, BackedSame
<1>6. \/ b.line.match = "none" \/ c = b \/ c \in Learn(b)
      \/ c = Provisional(b)
      \/ \E i \in Decisions : c \in Learn(Final(b, i))
  BY DEF Classify, Provisional
<1> QED
  BY <1>1, <1>2, <1>3, <1>4, <1>5, <1>6

LEMMA DeferredHolds ==
  ASSUME NEW b, Sound(b)
  PROVE  LET c == Deferred(b)
         IN /\ Sound(c) /\ c.rows = b.rows /\ c.last = b.last
            /\ c.line.match = b.line.match /\ c.line.item = b.line.item
            /\ c.line.status = b.line.status
<1>1. PICK c : c = Deferred(b)
  OBVIOUS
<1>2. c = b \/ c = Waiting(b)
  BY <1>1 DEF Deferred, Waiting
<1> QED
  BY <1>1, <1>2, LineRetries

-----------------------------------------------------------------------------
(* Requests                                                                *)

\* The purchase a request has loaded is one of those it has loaded, if there are any.
RowLoaded(q) == IF q.rows = <<>> THEN q.row = 0 ELSE q.row \in DOMAIN q.rows

LEMMA LoadedRow ==
  ASSUME NEW q \in Requesting, q.row \in Loaded(q.kind, q.rows),
         q.kind \in {"match", "unmatch", "reject", "decide"}
  PROVE  RowLoaded(q)
  BY DEF Loaded, RowLoaded

\* If the only purchase there is was loaded and is not active, none is.
LEMMA NoneActive ==
  ASSUME NEW q \in Requesting, RowLoaded(q), q.row \notin Actives(q.rows), Len(q.rows) = 1
  PROVE  Actives(q.rows) = {}
<1>1. q.rows \in Rows
  BY DEF Requesting
<1>2. DOMAIN q.rows = {1} /\ q.rows # <<>>
  BY <1>1, RowsAreSeqs, Empty
<1> QED
  BY <1>2 DEF RowLoaded, Actives

\* A confirmation.
LEMMA Confirmed ==
  ASSUME bought \in [Items -> History], NEW b, Sound(b), NEW user \in BOOLEAN,
         NEW c \in Confirm(b, user)
  PROVE  /\ Sound(c) /\ c.line.status = "confirmed" /\ c.line.match = b.line.match
         /\ Backed(b) => Backed(c)
         /\ b.line.match = "none" => c.rows = b.rows /\ c.last = b.last
<1>1. PICK e : e = Statused(b, "confirmed")
  OBVIOUS
<1>2. /\ Sound(e) /\ e.rows = b.rows /\ e.last = b.last /\ e.line.match = b.line.match
      /\ e.line.item = b.line.item /\ e.line.status = "confirmed"
  BY <1>1, LineStatus
<1>3. \/ c = e
      \/ b.line.match = "matched" /\ b.line.item # None /\ c \in Record(e, b.line.item, user)
  BY <1>1 DEF Confirm, Statused
<1>4. CASE c = e
  BY <1>2, <1>4, BackedSame
<1>5. CASE b.line.match = "matched" /\ b.line.item # None /\ c \in Record(e, b.line.item, user)
  <2>1. b.line.item \in Items
    BY <1>5, BookParts, LineParts DEF Sound, Decisions
  <2>2. /\ Sound(c) /\ c.line = e.line
        /\ \A k \in Actives(c.rows) : c.rows[k].item = b.line.item
    BY <1>2, <1>5, <2>1, Recorded
  <2>3. Backed(c)
    BY <1>2, <1>5, <2>2 DEF Backed
  <2> QED
    BY <1>2, <1>5, <2>2, <2>3
<1> QED
  BY <1>3, <1>4, <1>5

\* A line loses its item.
LEMMA UnmatchedHolds ==
  ASSUME bought \in [Items -> History], NEW b, Sound(b), NEW q \in Requesting, RowLoaded(q),
         NEW match \in {"unmatched", "rejected"}, NEW c \in Unmatched(b, q, match)
  PROVE  /\ Sound(c) /\ c.line.status = b.line.status /\ c.line.match = match
         /\ q.rows = b.rows => Backed(c) /\ (Quiet(b) => Quiet(c))
<1>1. match \in {"unmatched"} \cup Decided /\ None \in Decisions
  BY DEF Decided, Decisions
<1>2. PICK e : e = Matching(b, match, None)
  OBVIOUS
<1>3. /\ Sound(e) /\ e.rows = b.rows /\ e.line.match = match /\ e.line.status = b.line.status
  BY <1>1, <1>2, LineMatched
<1>4. CASE q.row \in Actives(q.rows)
  <2>1. c \in Undo(e, q.row)
    BY <1>2, <1>4 DEF Unmatched, Matching
  <2>2. Sound(c) /\ c.line = e.line /\ Actives(c.rows) = {}
    BY <1>3, <2>1, Undone
  <2> QED
    BY <1>3, <2>2 DEF Backed, Quiet
<1>5. CASE q.row \notin Actives(q.rows)
  <2>1. c = e
    BY <1>2, <1>5 DEF Unmatched, Matching
  <2>2. q.rows = b.rows => Backed(c)
    BY <1>3, <1>5, <2>1, NoneActive DEF Backed
  <2> QED
    BY <1>3, <2>1, <2>2, QuietSame
<1> QED
  BY <1>4, <1>5

\* A line is matched to an item.
LEMMA MatchedHolds ==
  ASSUME bought \in [Items -> History], NEW b, Sound(b), NEW q \in Requesting, RowLoaded(q),
         q.item \in Items, NEW c \in Matched(b, q)
  PROVE  /\ Sound(c) /\ c.line.status = b.line.status /\ c.line.match = "matched"
         /\ q.rows = b.rows /\ q.line = b.line => Backed(c) /\ (Quiet(b) => Quiet(c))
<1>1. "matched" \in {"unmatched"} \cup Decided /\ q.item \in Decisions
  BY DEF Decided, Decisions
<1>2. PICK e : e = Matching(b, "matched", q.item)
  OBVIOUS
<1>3. /\ Sound(e) /\ e.rows = b.rows /\ e.line.match = "matched" /\ e.line.item = q.item
      /\ e.line.status = b.line.status
  BY <1>1, <1>2, LineMatched
<1>4. \/ q.row \in Actives(q.rows) /\ q.rows[q.row].item = q.item /\ c = e
      \/ c \in Correct(e, q.row, q.item)
      \/ /\ q.row \notin Actives(q.rows) /\ q.line.status = "confirmed"
         /\ \E user \in BOOLEAN : c \in Record(e, q.item, user)
      \/ q.row \notin Actives(q.rows) /\ c = e
  BY <1>2, Zenon DEF Matched, Matching
<1>5. CASE q.row \in Actives(q.rows) /\ q.rows[q.row].item = q.item /\ c = e
  <2>1. q.rows = b.rows => Backed(c)
    BY <1>3, <1>5 DEF Backed, Sound, OneActive
  <2> QED
    BY <1>3, <1>5, <2>1, QuietSame
<1>6. CASE c \in Correct(e, q.row, q.item)
  <2>1. /\ Sound(c) /\ c.line = e.line /\ Len(c.rows) # 1
        /\ \A l \in Actives(c.rows) : c.rows[l].user
    BY <1>3, <1>6, Corrected
  <2> QED
    BY <1>3, <2>1 DEF Backed, Quiet
<1>7. CASE /\ q.row \notin Actives(q.rows) /\ q.line.status = "confirmed"
           /\ \E user \in BOOLEAN : c \in Record(e, q.item, user)
  <2>1. PICK user \in BOOLEAN : c \in Record(e, q.item, user)
    BY <1>7
  <2>2. Sound(c) /\ c.line = e.line /\ \A k \in Actives(c.rows) : c.rows[k].item = q.item
    BY <1>3, <2>1, Recorded
  <2> QED
    BY <1>3, <1>7, <2>2 DEF Backed, Quiet
<1>8. CASE q.row \notin Actives(q.rows) /\ c = e
  <2>1. q.rows = b.rows => Backed(c)
    BY <1>3, <1>8, NoneActive DEF Backed
  <2> QED
    BY <1>3, <1>8, <2>1, QuietSame
<1> QED
  BY <1>4, <1>5, <1>6, <1>7, <1>8

\* A receipt is ignored.
LEMMA IgnoredHolds ==
  ASSUME bought \in [Items -> History], NEW b, Sound(b), NEW q \in Requesting,
         q.row \in Loaded("ignore", q.rows), NEW c \in Ignore(b, q)
  PROVE  /\ Sound(c) /\ c.line.status = "ignored"
         /\ c.line.match = b.line.match \/ c.line.match = "rejected"
         /\ q.rows = <<>> => c.line.match = b.line.match /\ c.rows = b.rows /\ c.last = b.last
         /\ q.rows = b.rows => Quiet(c) /\ (Backed(b) => Backed(c))
<1>1. PICK e : e = Statused(b, "ignored")
  OBVIOUS
<1>2. /\ Sound(e) /\ e.rows = b.rows /\ e.last = b.last /\ e.line.match = b.line.match
      /\ e.line.item = b.line.item /\ e.line.status = "ignored"
  BY <1>1, LineStatus
<1>3. q.rows \in Rows
  BY DEF Requesting
<1>4. q.rows = <<>> => q.row = 0
  BY Empty DEF Loaded
<1>5. CASE q.row = 0
  <2>1. c = e
    BY <1>1, <1>5 DEF Ignore, Statused
  <2>2. \A k \in Actives(q.rows) : q.rows[k].user
    <3>1. Actives(q.rows) \subseteq DOMAIN q.rows /\ 0 \notin DOMAIN q.rows
      BY <1>3, RowFields DEF Actives
    <3> QED
      BY <1>5, <3>1 DEF Loaded
  <2>3. q.rows = b.rows => Quiet(c)
    BY <1>2, <2>1, <2>2 DEF Quiet
  <2> QED
    BY <1>2, <2>1, <2>3, BackedSame
<1>6. CASE q.row # 0
  <2>1. PICK f : f = Matching(e, "rejected", None)
    OBVIOUS
  <2>2. "rejected" \in {"unmatched"} \cup Decided /\ None \in Decisions
    BY DEF Decided, Decisions
  <2>3. Sound(f) /\ f.line.match = "rejected" /\ f.line.status = "ignored"
    BY <1>2, <2>1, <2>2, LineMatched
  <2>4. c \in Undo(f, q.row)
    BY <1>1, <1>6, <2>1 DEF Ignore, Statused, Matching
  <2>5. Sound(c) /\ c.line = f.line /\ Actives(c.rows) = {}
    BY <2>3, <2>4, Undone
  <2> QED
    BY <1>4, <1>6, <2>3, <2>5 DEF Backed, Quiet
<1> QED
  BY <1>5, <1>6

\* A receipt is restored: its line is taken as it is now.
LEMMA RestoredHolds ==
  ASSUME bought \in [Items -> History], NEW b, Sound(b), NEW d, receipt[d] \in Lines,
         NEW c \in Restore(b, d)
  PROVE  /\ Sound(c) /\ c.line.status = "needs_review"
         /\ receipt[d].match # "none" => c.line.match # "none"
         /\ receipt[d].match = "none" => c.line.match = "none" /\ c.rows = b.rows /\ c.last = b.last
         /\ b.rows = purchases[d] /\ Backed(Now(d)) => Backed(c)
<1>1. PICK line : line = [receipt[d] EXCEPT !.status = "needs_review"]
  OBVIOUS
<1>2. /\ line \in Lines /\ line.status = "needs_review" /\ line.match = receipt[d].match
      /\ line.item = receipt[d].item
  BY <1>1 DEF Lines
<1>3. PICK e : e = [b EXCEPT !.line = line]
  OBVIOUS
<1>4. Sound(e) /\ e.line = line /\ e.rows = b.rows /\ e.last = b.last
  BY <1>2, <1>3, LineSet, SoundWith DEF Sound
<1>5. (Classify(e) = {} /\ c = Deferred(e)) \/ c \in Classify(e)
  BY <1>1, <1>3 DEF Restore
<1>6. b.rows = purchases[d] /\ Backed(Now(d)) => Backed(e)
  BY <1>2, <1>4 DEF Backed, Now
<1>7. CASE c \in Classify(e)
  BY <1>2, <1>4, <1>6, <1>7, Classified
<1>8. CASE Classify(e) = {} /\ c = Deferred(e)
  BY <1>2, <1>4, <1>6, <1>8, DeferredHolds, BackedSame
<1> QED
  BY <1>5, <1>7, <1>8

\* A line is decided and its receipt confirmed.
LEMMA DecidedHolds ==
  ASSUME bought \in [Items -> History], NEW b, Sound(b), NEW q \in Requesting, RowLoaded(q),
         NEW c \in Decide(b, q)
  PROVE  /\ Sound(c) /\ c.line.status = "confirmed" /\ c.line.match # "none"
         /\ q.rows = b.rows /\ q.line = b.line => Backed(c)
<1>1. PICK user \in BOOLEAN : user = TRUE
  OBVIOUS
<1>2. PICK e : /\ e \in IF q.item = None THEN Unmatched(b, q, "rejected") ELSE Matched(b, q)
               /\ c \in Confirm(e, user)
  BY <1>1 DEF Decide
<1>3. /\ Sound(e) /\ e.line.match # "none"
      /\ q.rows = b.rows /\ q.line = b.line => Backed(e)
  <2>1. CASE q.item = None
    BY <1>2, <2>1, UnmatchedHolds
  <2>2. CASE q.item # None
    <3>1. q.item \in Items
      BY <2>2 DEF Requesting, Decisions
    <3> QED
      BY <1>2, <2>2, <3>1, MatchedHolds
  <2> QED
    BY <2>1, <2>2
<1> QED
  BY <1>2, <1>3, Confirmed

\* What a request makes of its receipt, whether or not the receipt is still what it loaded.
Expected(q, c) ==
  /\ Sound(c)
  /\ c.line.status \in {"absent"} \cup Failures => c.line.status = q.line.status
  /\ c.line.match = "none" => q.line.match = "none"
  /\ Unread(receipt[q.d]) => c.line.match = "none" /\ c.rows = <<>> /\ c.last = last
  /\ ~Stale(q) /\ Backed(Now(q.d)) /\ Quiet(Now(q.d)) => Backed(c) /\ Quiet(c)

LEMMA OutcomeExpected ==
  ASSUME BooksHold, ReadOnce, NEW q \in Requesting, Proper(q), NEW c \in Outcomes(q)
  PROVE  Expected(q, c)
<1> PICK b : b = [line |-> q.line, rows |-> purchases[q.d], last |-> last]
  OBVIOUS
<1>1. /\ q.d \in Deliveries /\ q.line \in Lines /\ q.rows \in Rows /\ q.kind \in Kinds
      /\ q.item \in Decisions /\ bought \in [Items -> History]
      /\ receipt[q.d] \in Lines /\ purchases[q.d] \in Rows
  BY DEF Requesting, BooksHold
<1>2. /\ Sound(b) /\ b.line = q.line /\ b.rows = purchases[q.d] /\ b.last = last
  <2>1. Sound(Now(q.d))
    BY <1>1 DEF BooksHold
  <2>2. Now(q.d) \in Book /\ b = [Now(q.d) EXCEPT !.line = q.line]
    BY <2>1 DEF Now, Sound
  <2> QED
    BY <1>1, <2>1, <2>2, SoundWith
<1>3. ~Stale(q) => /\ q.line = b.line /\ q.rows = b.rows /\ q.line = receipt[q.d]
                   /\ Backed(Now(q.d)) => Backed(b)
                   /\ Quiet(Now(q.d)) => Quiet(b)
  BY <1>2 DEF Stale, Now, Backed, Quiet
<1>4. Unread(receipt[q.d]) => /\ q.line.match = "none" /\ q.rows = <<>> /\ b.rows = <<>>
  BY <1>1, <1>2 DEF Proper, Unread, ReadOnce
<1>5. CASE q.kind = "confirm"
  <2>1. PICK user \in BOOLEAN : user = TRUE
    OBVIOUS
  <2>2. c \in Confirm(b, user)
    BY <1>5, <2>1 DEF Outcomes
  <2>3. /\ Sound(c) /\ c.line.status = "confirmed" /\ c.line.match = b.line.match
        /\ Backed(b) => Backed(c)
        /\ b.line.match = "none" => c.rows = b.rows /\ c.last = b.last
    BY <1>1, <1>2, <2>2, Confirmed
  <2> QED
    BY <1>2, <1>3, <1>4, <2>3 DEF Expected, Failures, Quiet
<1>6. CASE q.kind = "auto"
  <2>1. PICK user \in BOOLEAN : user = FALSE
    OBVIOUS
  <2>2. c \in Confirm(b, user)
    BY <1>6, <2>1 DEF Outcomes
  <2>3. /\ Sound(c) /\ c.line.status = "confirmed" /\ c.line.match = b.line.match
        /\ Backed(b) => Backed(c)
        /\ b.line.match = "none" => c.rows = b.rows /\ c.last = b.last
    BY <1>1, <1>2, <2>2, Confirmed
  <2> QED
    BY <1>2, <1>3, <1>4, <2>3 DEF Expected, Failures, Quiet
<1>7. CASE q.kind = "ignore"
  <2>1. c \in Ignore(b, q) /\ q.row \in Loaded("ignore", q.rows)
    BY <1>7 DEF Outcomes, Proper
  <2> QED
    BY <1>1, <1>2, <1>3, <1>4, <2>1, IgnoredHolds DEF Expected, Failures
<1>8. CASE q.kind = "restore"
  <2>1. c \in Restore(b, q.d)
    BY <1>8 DEF Outcomes
  <2>2. q.line.match # "none" => receipt[q.d].match # "none"
    BY DEF Proper, Unread
  <2> QED
    BY <1>1, <1>2, <1>3, <1>4, <2>1, <2>2, RestoredHolds DEF Expected, Failures, Quiet, Unread
<1>9. ASSUME q.kind \notin {"confirm", "auto", "ignore", "restore"}
      PROVE  q.line.match # "none" /\ ~Unread(receipt[q.d])
  BY <1>1, <1>9 DEF Proper, Allowed, Kinds, Unread
<1>10. CASE q.kind = "match"
  <2>1. c \in Matched(b, q) /\ q.item \in Items /\ RowLoaded(q)
    BY <1>10, LoadedRow DEF Outcomes, Proper, Named
  <2>2. /\ Sound(c) /\ c.line.status = b.line.status /\ c.line.match = "matched"
        /\ q.rows = b.rows /\ q.line = b.line => Backed(c) /\ (Quiet(b) => Quiet(c))
    BY <1>1, <1>2, <2>1, MatchedHolds
  <2> QED
    BY <1>2, <1>3, <1>9, <1>10, <2>2 DEF Expected
<1>11. CASE q.kind \in {"unmatch", "reject"}
  <2>1. RowLoaded(q) /\ \E match \in {"unmatched", "rejected"} : c \in Unmatched(b, q, match)
    BY <1>11, LoadedRow DEF Outcomes, Proper
  <2>2. /\ Sound(c) /\ c.line.status = b.line.status /\ c.line.match # "none"
        /\ q.rows = b.rows => Backed(c) /\ (Quiet(b) => Quiet(c))
    BY <1>1, <1>2, <2>1, UnmatchedHolds
  <2> QED
    BY <1>2, <1>3, <1>9, <1>11, <2>2 DEF Expected
<1>12. CASE q.kind = "decide"
  <2>1. RowLoaded(q) /\ c \in Decide(b, q)
    BY <1>12, LoadedRow DEF Outcomes, Proper
  <2>2. /\ Sound(c) /\ c.line.status = "confirmed" /\ c.line.match # "none"
        /\ q.rows = b.rows /\ q.line = b.line => Backed(c)
    BY <1>1, <1>2, <2>1, DecidedHolds
  <2> QED
    BY <1>2, <1>3, <1>9, <1>12, <2>2 DEF Expected, Failures, Quiet
<1>13. CASE q.kind = "undo"
  <2>1. c \in Undo(b, q.row)
    BY <1>13 DEF Outcomes
  <2>2. Sound(c) /\ c.line = b.line /\ Actives(c.rows) = {}
    BY <1>1, <1>2, <2>1, Undone
  <2> QED
    BY <1>2, <1>9, <1>13, <2>2 DEF Expected, Backed, Quiet
<1> QED
  BY <1>1, <1>5, <1>6, <1>7, <1>8, <1>10, <1>11, <1>12, <1>13 DEF Kinds

\* The line a session writes.
LEMMA WrittenLine ==
  ASSUME NEW q \in Requesting, receipt[q.d] \in Lines, NEW new \in Lines
  PROVE  /\ Written(q, new) \in Lines
         /\ Written(q, new).status = IF new.status = q.line.status THEN receipt[q.d].status
                                     ELSE new.status
         /\ Written(q, new).match = IF new.match = q.line.match THEN receipt[q.d].match
                                    ELSE new.match
         /\ q.line = receipt[q.d] => Written(q, new) = new
<1>1. q.line \in Lines
  BY DEF Requesting
<1>2. DOMAIN new = {"status", "match", "item", "state", "learns", "retry"}
  BY DEF Lines
<1>3. Written(q, new) =
        [status |-> IF new.status = q.line.status THEN receipt[q.d].status ELSE new.status,
         match |-> IF new.match = q.line.match THEN receipt[q.d].match ELSE new.match,
         item |-> IF new.item = q.line.item THEN receipt[q.d].item ELSE new.item,
         state |-> IF new.state = q.line.state THEN receipt[q.d].state ELSE new.state,
         learns |-> IF new.learns = q.line.learns THEN receipt[q.d].learns ELSE new.learns,
         retry |-> IF new.retry = q.line.retry THEN receipt[q.d].retry ELSE new.retry]
  BY <1>2 DEF Written
<1>4. Written(q, new) \in Lines
  BY <1>1, <1>3 DEF Lines
<1>5. q.line = receipt[q.d] => Written(q, new) = new
  BY <1>2 DEF Written, Lines
<1> QED
  BY <1>3, <1>4, <1>5

-----------------------------------------------------------------------------
(* What is put.                                                            *)

\* What may take the place of a receipt and its purchases.
Fits(d, c) ==
  /\ Sound(c)
  /\ c.line.status \in {"absent"} \cup Failures => Unread(c.line)
  /\ Unread(c.line) => Unread(receipt[d]) /\ c.rows = <<>> /\ c.last = last
  /\ Unread(receipt[d]) /\ ~Unread(c.line) => Parsed = {}

LEMMA NowParts ==
  ASSUME BooksHold, NEW d \in Deliveries
  PROVE  /\ Now(d) \in Book /\ Now(d).line = receipt[d] /\ Now(d).rows = purchases[d]
         /\ Now(d).last = last /\ Sound(Now(d))
  BY DEF BooksHold, Now, Sound

LEMMA PutParts ==
  ASSUME BooksHold, NEW d \in Deliveries, NEW c \in Book, Put(d, c)
  PROVE  /\ receipt' \in [Deliveries -> Lines] /\ purchases' \in [Deliveries -> Rows]
         /\ last' \in [Items -> Days] /\ last' = c.last
         /\ receipt'[d] = c.line /\ purchases'[d] = c.rows
         /\ \A e \in Deliveries \ {d} : receipt'[e] = receipt[e] /\ purchases'[e] = purchases[e]
  BY BookParts DEF BooksHold, Put

LEMMA BooksKept ==
  ASSUME BooksHold, ReadOnce, NEW d \in Deliveries, NEW c, Fits(d, c), Put(d, c), bought' = bought,
         spoilt \subseteq spoilt', d \notin spoilt' => Backed(c) /\ Quiet(c)
  PROVE  BooksHold' /\ ReadOnce'
<1>1. c \in Book /\ Sound(c)
  BY DEF Fits, Sound
<1>2. /\ receipt' \in [Deliveries -> Lines] /\ purchases' \in [Deliveries -> Rows]
      /\ last' \in [Items -> Days] /\ last' = c.last
      /\ receipt'[d] = c.line /\ purchases'[d] = c.rows
      /\ \A e \in Deliveries \ {d} : receipt'[e] = receipt[e] /\ purchases'[e] = purchases[e]
  BY <1>1, PutParts
<1>3. Now(d)' = c
  BY <1>1, <1>2 DEF Now, Book
<1>5. ASSUME NEW e \in Deliveries, e # d
      PROVE  Sound(Now(e))' /\ (Backed(Now(e)) => Backed(Now(e))') /\ (Quiet(Now(e)) => Quiet(Now(e))')
  <2>1. Sound(Now(e)) /\ Now(e) = [line |-> receipt[e], rows |-> purchases[e], last |-> last]
    BY <1>5 DEF BooksHold, Now
  <2>2. Now(e)' = [line |-> receipt[e], rows |-> purchases[e], last |-> c.last]
    BY <1>2, <1>5 DEF Now
  <2>3. (Backed(Now(e)) => Backed(Now(e))') /\ (Quiet(Now(e)) => Quiet(Now(e))')
    BY <2>1, <2>2 DEF Backed, Quiet
  <2>4. CASE c.last = last
    BY <2>1, <2>2, <2>4 DEF Sound, Counted
  <2>5. CASE c.last # last
    <3>1. ~Unread(c.line)
      BY <2>5 DEF Fits
    <3>2. Unread(receipt[e])
      BY <1>5, <3>1 DEF Fits, ReadOnce, Parsed, Unread
    <3>3. purchases[e] = <<>>
      BY <1>5, <3>2 DEF ReadOnce
    <3>4. Now(e)' \in Book
      BY <1>1, <1>5, <2>1, <2>2, BookParts DEF Book, Sound
    <3>5. Actives(<<>>) = {}
      BY Empty
    <3>6. Now(e)'.rows = <<>> /\ Now(e)'.last = c.last
      BY <2>2, <3>3
    <3>7. \A i \in Items : c.last[i] >= bought[i]
      BY <1>1 DEF Sound, Counted
    <3>8. Counted(Now(e))'
      BY <3>5, <3>6, <3>7 DEF Counted
    <3>9. OneActive(Now(e).rows)'
      BY <3>5, <3>6 DEF OneActive
    <3> QED
      BY <2>3, <3>4, <3>8, <3>9 DEF Sound
  <2> QED
    BY <2>3, <2>4, <2>5
<1>6. Sound(Now(d))'
  BY <1>1, <1>3 DEF Sound, Counted
<1>7. d \notin spoilt' => Backed(Now(d))' /\ Quiet(Now(d))'
  BY <1>3 DEF Backed, Quiet
<1>8. \A e \in Deliveries : Sound(Now(e))'
  BY <1>5, <1>6
<1>9. \A e \in Deliveries \ spoilt' : Backed(Now(e))' /\ Quiet(Now(e))'
  BY <1>5, <1>7 DEF BooksHold
<1>4. \A i \in Items : last'[i] >= bought'[i]
  BY <1>1, <1>2 DEF Sound, Counted
<1>10. BooksHold'
  BY <1>2, <1>4, <1>8, <1>9 DEF BooksHold
<1>11. ReadOnce'
  <2>1. \A e \in Deliveries : receipt'[e].status \in {"absent"} \cup Failures => Unread(receipt'[e])
    BY <1>2 DEF Fits, ReadOnce
  <2>2. \A e \in Deliveries : Unread(receipt'[e]) => purchases'[e] = <<>>
    BY <1>2 DEF Fits, ReadOnce
  <2>3. \A e, f \in Parsed' : e = f
    <3>1. Unread(c.line) => Parsed' \subseteq Parsed
      BY <1>2 DEF Parsed, Unread
    <3>2. ~Unread(c.line) /\ Unread(receipt[d]) => Parsed' \subseteq {d}
      BY <1>2 DEF Parsed, Unread, Fits
    <3>3. ~Unread(receipt[d]) => Parsed' \subseteq Parsed
      BY <1>2 DEF Parsed, Unread
    <3> QED
      BY <3>1, <3>2, <3>3 DEF ReadOnce
  <2> QED
    BY <2>1, <2>2, <2>3 DEF ReadOnce
<1> QED
  BY <1>10, <1>11

\* Nothing is put.
LEMMA BooksSame ==
  ASSUME BooksHold, ReadOnce, UNCHANGED <<bought, receipt, purchases, last>>, spoilt \subseteq spoilt'
  PROVE  BooksHold' /\ ReadOnce'
  BY DEF BooksHold, ReadOnce, Now, Sound, Counted, Backed, Quiet, Parsed, Unread

\* A receipt that was absent is stored.
LEMMA StoredMore ==
  ASSUME StoredOnce, NEW d \in Deliveries, receipt[d].status = "absent",
         stored' = Append(stored, d), receipt'[d].status # "absent", spoilt' = spoilt,
         \A e \in Deliveries \ {d} : receipt'[e] = receipt[e]
  PROVE  StoredOnce'
<1>1. stored \in Seq(Deliveries) /\ stored' \in Seq(Deliveries)
  BY DEF StoredOnce
<1>2. /\ Len(stored') = Len(stored) + 1 /\ stored'[Len(stored) + 1] = d /\ Len(stored) \in Nat
      /\ \A k \in 1..Len(stored) : stored'[k] = stored[k]
      /\ DOMAIN stored = 1..Len(stored) /\ DOMAIN stored' = 1..(Len(stored) + 1)
  BY <1>1
<1>3. DOMAIN stored' = DOMAIN stored \cup {Len(stored) + 1}
  BY <1>2
<1>4. ToSet(stored') = ToSet(stored) \cup {d}
  BY <1>2, <1>3 DEF ToSet
<1>5. d \notin ToSet(stored)
  BY DEF StoredOnce
<1>6. IsInjective(stored')
  BY <1>2, <1>3, <1>5 DEF StoredOnce, IsInjective, ToSet
<1>7. ToSet(stored') = {e \in Deliveries : receipt'[e].status # "absent"}
  BY <1>4 DEF StoredOnce
<1> QED
  BY <1>1, <1>4, <1>6, <1>7 DEF StoredOnce

LEMMA StoredSame ==
  ASSUME StoredOnce, stored' = stored,
         \A d \in Deliveries : receipt'[d].status = "absent" <=> receipt[d].status = "absent",
         spoilt' \subseteq {d \in Deliveries : receipt[d].status # "absent"}
  PROVE  StoredOnce'
  BY DEF StoredOnce, ToSet, IsInjective

-----------------------------------------------------------------------------
(* Processes                                                               *)

LEMMA Moves ==
  ASSUME IInv, NEW p \in Procs, NEW x, proc' = [proc EXCEPT ![p] = x]
  PROVE  /\ proc' = [r \in Procs |-> proc'[r]] /\ proc'[p] = x
         /\ \A r \in Procs \ {p} : proc'[r] = proc[r]
  BY DEF IInv

\* Receipts do not go, and no line does.
Remain ==
  \A d \in Deliveries : /\ receipt[d].status # "absent" => receipt'[d].status # "absent"
                        /\ Unread(receipt'[d]) => Unread(receipt[d])

\* A process goes on with what it was doing.
LEMMA WorkSame ==
  ASSUME NEW r, WorkHolds(r), proc'[r] = proc[r], Remain,
         r \in Workers /\ proc[r].pc = "persist" =>
           Parsed' = {} /\ \A v \in Workers : proc'[v].pc = "persist" => v = r
  PROVE  WorkHolds(r)'
<1>1. CASE proc[r] = Idle
  BY <1>1 DEF WorkHolds, Idle
<1>2. CASE r \in Workers /\ proc[r] \in Ingesting
  BY <1>2 DEF WorkHolds, HoldsLock, Ingesting, Requesting, Idle
<1>3. CASE proc[r] \in Requesting /\ Proper(proc[r])
  <2>1. proc[r].d \in Deliveries
    BY <1>3 DEF Requesting
  <2>2. Proper(proc[r])'
    BY <1>3, <2>1 DEF Proper, Remain
  <2> QED
    BY <1>3, <2>2 DEF WorkHolds, Requesting
<1> QED
  BY <1>1, <1>2, <1>3 DEF WorkHolds

\* One process goes on, no lock is taken and nothing is read.
LEMMA WorkMoved ==
  ASSUME IInv, NEW p \in Procs, NEW x, proc' = [proc EXCEPT ![p] = x], x.pc # "persist",
         Remain, Parsed' \subseteq Parsed, WorkHolds(p)'
  PROVE  proc' = [r \in Procs |-> proc'[r]] /\ \A r \in Procs : WorkHolds(r)'
<1>1. /\ proc' = [r \in Procs |-> proc'[r]] /\ proc'[p] = x
      /\ \A r \in Procs \ {p} : proc'[r] = proc[r]
  BY Moves
<1>2. ASSUME NEW r \in Procs, r # p PROVE WorkHolds(r)'
  <2>1. WorkHolds(r) /\ proc'[r] = proc[r]
    BY <1>1, <1>2 DEF IInv
  <2>2. ASSUME r \in Workers, proc[r].pc = "persist" PROVE HoldsLock(r)
    BY <2>1, <2>2 DEF WorkHolds, Idle, Requesting
  <2>3. r \in Workers /\ proc[r].pc = "persist" =>
           Parsed' = {} /\ \A v \in Workers : proc'[v].pc = "persist" => v = r
    BY <1>1, <2>2 DEF HoldsLock, Procs
  <2> QED
    BY <2>1, <2>3, WorkSame
<1> QED
  BY <1>1, <1>2

-----------------------------------------------------------------------------
(* Steps                                                                   *)

LEMMA InitIInv == ASSUME Init PROVE IInv
<1>1. \A d \in Deliveries : receipt[d] = Absent /\ purchases[d] = <<>>
  BY DEF Init
<1>2. /\ Absent.status = "absent" /\ Absent.match = "none"
      /\ Absent \in Lines
  BY DEF Absent, Lines, Decisions
<1>3. last = bought /\ bought \in [Items -> History] /\ spoilt = {} /\ stored = <<>>
  BY DEF Init
<1>4. last \in [Items -> Days] /\ receipt \in [Deliveries -> Lines]
      /\ purchases \in [Deliveries -> Rows]
  BY <1>1, <1>2, <1>3, Empty DEF Init, Days
<1>5. ASSUME NEW d \in Deliveries PROVE Sound(Now(d)) /\ Backed(Now(d)) /\ Quiet(Now(d))
  <2>1. Now(d) \in Book /\ Now(d).rows = <<>> /\ Now(d).last = bought
    BY <1>1, <1>3, <1>4 DEF Now, Book
  <2>2. \A i \in Items : bought[i] >= bought[i]
    <3> TAKE i \in Items
    <3>1. bought[i] \in Nat
      BY <1>3, ReceiptConstants
    <3> QED
      BY <3>1
  <2> QED
    BY <2>1, <2>2, Empty DEF Sound, Backed, Quiet, OneActive, Counted
<1>6. BooksHold
  <2>1. \A i \in Items : last[i] >= bought[i]
    <3> TAKE i \in Items
    <3>1. bought[i] \in Nat
      BY <1>3, ReceiptConstants
    <3> QED
      BY <1>3, <3>1
  <2> QED
    BY <1>3, <1>4, <1>5, <2>1 DEF BooksHold
<1>7. ReadOnce
  BY <1>1, <1>2 DEF ReadOnce, Parsed, Unread
<1>8. StoredOnce
  <2>1. ToSet(stored) = {} /\ IsInjective(stored) /\ stored \in Seq(Deliveries)
    BY <1>3 DEF ToSet, IsInjective
  <2> QED
    BY <1>1, <1>2, <1>3, <2>1 DEF StoredOnce
<1>9. proc = [p \in Procs |-> proc[p]] /\ \A p \in Procs : WorkHolds(p)
  BY DEF Init, WorkHolds
<1> QED
  BY <1>6, <1>7, <1>8, <1>9 DEF IInv

\* A step of a process that stores nothing.
LEMMA DataSame ==
  ASSUME IInv, UNCHANGED <<bought, receipt, stored, purchases, last, spoilt>>
  PROVE  BooksHold' /\ ReadOnce' /\ StoredOnce' /\ Remain /\ Parsed' = Parsed
<1>1. BooksHold' /\ ReadOnce'
  BY BooksSame DEF IInv
<1>2. StoredOnce'
  BY DEF IInv, StoredOnce
<1> QED
  BY <1>1, <1>2 DEF Remain, Parsed

LEMMA SameHolds == ASSUME IInv, UNCHANGED vars PROVE IInv'
<1>1. BooksHold' /\ ReadOnce' /\ StoredOnce' /\ Remain /\ Parsed' = Parsed
  BY DataSame DEF vars
<1>2. ASSUME NEW r \in Procs PROVE WorkHolds(r)'
  <2>1. WorkHolds(r) /\ proc' = proc
    BY <1>2 DEF IInv, vars
  <2>2. r \in Workers /\ proc[r].pc = "persist" => HoldsLock(r)
    BY <2>1 DEF WorkHolds, Idle, Requesting
  <2> QED
    BY <1>1, <2>1, <2>2, WorkSame DEF HoldsLock
<1> QED
  BY <1>1, <1>2 DEF IInv, vars

LEMMA IngestHolds ==
  ASSUME IInv, NEW w \in Workers, NEW d \in Deliveries, Ingest(w, d)
  PROVE  IInv'
<1>1. BooksHold' /\ ReadOnce' /\ StoredOnce' /\ Remain /\ Parsed' = Parsed
  BY DataSame DEF Ingest
<1>2. PICK x : x = [pc |-> "parse", d |-> d]
  OBVIOUS
<1>3. w \in Procs /\ proc' = [proc EXCEPT ![w] = x] /\ proc'[w] = x
  BY <1>2, Moves DEF Ingest, Procs
<1>4. x \in Ingesting /\ x.pc = "parse"
  BY <1>2 DEF Ingesting
<1>5. WorkHolds(w)'
  BY <1>3, <1>4 DEF WorkHolds
<1>6. proc' = [r \in Procs |-> proc'[r]] /\ \A r \in Procs : WorkHolds(r)'
  BY <1>1, <1>3, <1>4, <1>5, WorkMoved
<1> QED
  BY <1>1, <1>6 DEF IInv

\* A process that ends.
LEMMA Ends ==
  ASSUME IInv, NEW p \in Procs, proc' = [proc EXCEPT ![p] = Idle], Remain, Parsed' \subseteq Parsed
  PROVE  proc' = [r \in Procs |-> proc'[r]] /\ \A r \in Procs : WorkHolds(r)'
<1>1. proc'[p] = Idle /\ Idle.pc # "persist"
  BY Moves DEF Idle
<1>2. WorkHolds(p)'
  BY <1>1 DEF WorkHolds, Idle
<1> QED
  BY <1>1, <1>2, WorkMoved

LEMMA DieHolds == ASSUME IInv, NEW p \in Procs, Die(p) PROVE IInv'
<1>1. BooksHold' /\ ReadOnce' /\ StoredOnce' /\ Remain /\ Parsed' = Parsed
  BY DataSame DEF Die
<1>2. proc' = [r \in Procs |-> proc'[r]] /\ \A r \in Procs : WorkHolds(r)'
  BY <1>1, Ends DEF Die
<1> QED
  BY <1>1, <1>2 DEF IInv

\* What a worker does, by where it is.
LEMMA WorkerAt ==
  ASSUME IInv, NEW w \in Workers, proc[w].pc \in {"parse", "persist", "confirm"}
  PROVE  /\ w \in Procs /\ proc[w] \in Ingesting /\ proc[w].d \in Deliveries
         /\ proc[w].pc = "persist" => HoldsLock(w)
<1>1. w \in Procs /\ WorkHolds(w)
  BY DEF Procs, IInv
<1> QED
  BY <1>1 DEF WorkHolds, Idle, Ingesting, Requesting

LEMMA ParseFailsHolds == ASSUME IInv, NEW w \in Workers, ParseFails(w) PROVE IInv'
<1> DEFINE d == proc[w].d
<1>1. w \in Procs /\ d \in Deliveries
  BY WorkerAt DEF ParseFails
<1>2. CASE receipt[d].status # "absent"
  <2>1. BooksHold' /\ ReadOnce' /\ StoredOnce' /\ Remain /\ Parsed' = Parsed
    BY <1>2, DataSame DEF ParseFails
  <2>2. proc' = [r \in Procs |-> proc'[r]] /\ \A r \in Procs : WorkHolds(r)'
    BY <1>1, <2>1, Ends DEF ParseFails
  <2> QED
    BY <2>1, <2>2 DEF IInv
<1>3. CASE receipt[d].status = "absent"
  <2>1. PICK f \in Failures : receipt' = [receipt EXCEPT ![d].status = f]
    BY <1>3 DEF ParseFails
  <2>2. /\ stored' = Append(stored, d) /\ UNCHANGED <<bought, purchases, last, spoilt>>
        /\ proc' = [proc EXCEPT ![w] = Idle]
    BY <1>3 DEF ParseFails
  <2>3. PICK c : c = Statused(Now(d), f)
    OBVIOUS
  <2>4. BooksHold /\ ReadOnce /\ StoredOnce
    BY DEF IInv
  <2>5. /\ Sound(c) /\ c.rows = purchases[d] /\ c.last = last
        /\ c.line.match = receipt[d].match /\ c.line.status = f
    <3>1. f \in {"needs_review", "confirmed", "ignored"} \cup Failures
      OBVIOUS
    <3>2. /\ Sound(Now(d)) /\ Now(d).line = receipt[d] /\ Now(d).rows = purchases[d]
          /\ Now(d).last = last
      BY <1>1, <2>4, NowParts
    <3> QED
      BY <2>3, <3>1, <3>2, LineStatus
  <2>6. c.line = [receipt[d] EXCEPT !.status = f]
    BY <1>1, <2>3, <2>4, NowParts DEF Statused, Now
  <2>7. receipt[d].match = "none" /\ purchases[d] = <<>>
    BY <1>1, <1>3, <2>4 DEF ReadOnce, Unread
  <2>8. Fits(d, c)
    BY <2>5, <2>7 DEF Fits, Unread
  <2>9. Put(d, c)
    BY <2>1, <2>2, <2>4, <2>5, <2>6 DEF Put, BooksHold
  <2>10. Backed(c) /\ Quiet(c)
    BY <2>5, <2>7, Empty DEF Backed, Quiet
  <2>11. BooksHold' /\ ReadOnce'
    BY <1>1, <2>2, <2>4, <2>8, <2>9, <2>10, BooksKept
  <2>12. /\ receipt'[d] = c.line
         /\ \A e \in Deliveries \ {d} : receipt'[e] = receipt[e]
    BY <1>1, <2>4, <2>5, <2>9, PutParts DEF Sound
  <2>13. f # "absent"
    BY DEF Failures
  <2>14. StoredOnce'
    BY <1>1, <1>3, <2>2, <2>4, <2>5, <2>12, <2>13, StoredMore
  <2>15. Remain /\ Parsed' = Parsed
    BY <1>3, <2>5, <2>7, <2>12 DEF Remain, Parsed, Unread
  <2>16. proc' = [r \in Procs |-> proc'[r]] /\ \A r \in Procs : WorkHolds(r)'
    BY <1>1, <2>2, <2>15, Ends
  <2> QED
    BY <2>11, <2>14, <2>16 DEF IInv
<1> QED
  BY <1>2, <1>3

\* The lock is taken only when nothing was read.
LEMMA ClaimHolds == ASSUME IInv, NEW w \in Workers, Claim(w) PROVE IInv'
<1>1. BooksHold' /\ ReadOnce' /\ StoredOnce' /\ Remain /\ Parsed' = Parsed
  BY DataSame DEF Claim
<1>2. w \in Procs /\ proc[w] \in Ingesting /\ proc[w].d \in Deliveries
  BY WorkerAt DEF Claim
<1>3. CASE Existing(proc[w].d)
  <2>1. proc' = [proc EXCEPT ![w] = Idle]
    BY <1>3 DEF Claim
  <2> QED
    BY <1>1, <1>2, <2>1, Ends DEF IInv
<1>4. CASE ~Existing(proc[w].d)
  <2>1. PICK x : x = [proc[w] EXCEPT !.pc = "persist"]
    OBVIOUS
  <2>2. proc' = [proc EXCEPT ![w] = x] /\ x \in Ingesting /\ x.pc = "persist"
    BY <1>2, <1>4, <2>1 DEF Claim, Ingesting
  <2>3. /\ proc' = [r \in Procs |-> proc'[r]] /\ proc'[w] = x
        /\ \A r \in Procs \ {w} : proc'[r] = proc[r]
    BY <1>2, <2>2, Moves
  <2>4. Parsed = {}
    BY <1>4 DEF Existing, Parsed, IInv, ReadOnce, StoredOnce, Unread
  <2>5. \A v \in Workers : proc'[v].pc = "persist" => v = w
    BY <2>3 DEF Claim, Procs
  <2>6. WorkHolds(w)'
    BY <1>1, <2>2, <2>3, <2>4, <2>5 DEF WorkHolds, HoldsLock
  <2>7. ASSUME NEW r \in Procs, r # w PROVE WorkHolds(r)'
    <3>1. WorkHolds(r) /\ proc'[r] = proc[r]
      BY <2>3, <2>7 DEF IInv
    <3>2. ~(r \in Workers /\ proc[r].pc = "persist")
      BY DEF Claim
    <3> QED
      BY <1>1, <3>1, <3>2, WorkSame
  <2> QED
    BY <1>1, <2>3, <2>6, <2>7 DEF IInv
<1> QED
  BY <1>3, <1>4

\* The first receipt that is read, by the worker that has the lock.
LEMMA PersistHolds == ASSUME IInv, NEW w \in Workers, Persist(w) PROVE IInv'
<1> DEFINE d == proc[w].d
<1>1. w \in Procs /\ d \in Deliveries /\ HoldsLock(w) /\ proc[w].pc = "persist"
  BY WorkerAt DEF Persist
<1>2. CASE receipt[d].status # "absent"
  <2>1. BooksHold' /\ ReadOnce' /\ StoredOnce' /\ Remain /\ Parsed' = Parsed
    BY <1>2, DataSame DEF Persist
  <2>2. proc' = [r \in Procs |-> proc'[r]] /\ \A r \in Procs : WorkHolds(r)'
    BY <1>1, <1>2, <2>1, Ends DEF Persist
  <2> QED
    BY <2>1, <2>2 DEF IInv
<1>3. CASE receipt[d].status = "absent"
  <2>1. PICK m \in FirstMatches :
          LET b == [line |-> [Absent EXCEPT !.status = "needs_review", !.match = m.match,
                                            !.item = m.item],
                    rows |-> <<>>, last |-> last]
          IN /\ \/ \E c \in Classify(b) : Put(d, c) /\ UNCHANGED trouble
                \/ /\ trouble < MaxTrouble /\ trouble' = trouble + 1
                   /\ Put(d, Deferred(b))
             /\ stored' = Append(stored, d)
             /\ \E auto \in {FALSE, receipt'[d].match = "matched"} :
                  proc' = [proc EXCEPT ![w] = IF auto THEN [pc |-> "confirm", d |-> d]
                                              ELSE Idle]
    BY <1>3, Zenon DEF Persist
  <2>2. PICK line : line = [Absent EXCEPT !.status = "needs_review", !.match = m.match,
                                          !.item = m.item]
    OBVIOUS
  <2>3. PICK b : b = [line |-> line, rows |-> <<>>, last |-> last]
    OBVIOUS
  <2>4. /\ \/ \E c \in Classify(b) : Put(d, c)
           \/ Put(d, Deferred(b))
        /\ stored' = Append(stored, d)
        /\ \E x \in {[pc |-> "confirm", d |-> d], Idle} : proc' = [proc EXCEPT ![w] = x]
    <3>1. \/ \E c \in Classify(b) : Put(d, c)
          \/ Put(d, Deferred(b))
      BY <2>1, <2>2, <2>3
    <3>2. \E x \in {[pc |-> "confirm", d |-> d], Idle} : proc' = [proc EXCEPT ![w] = x]
      BY <2>1
    <3> QED
      BY <2>1, <3>1, <3>2
  <2>5. UNCHANGED <<bought, spoilt>>
    BY DEF Persist
  <2>6. BooksHold /\ ReadOnce /\ StoredOnce /\ bought \in [Items -> History]
    BY DEF IInv, BooksHold
  <2>7. m.match \in {"possible", "unmatched"} \cup Decided /\ m.item \in Decisions
    BY DEF FirstMatches, Decided, Decisions
  <2>8. line \in Lines /\ line.status = "needs_review" /\ line.match = m.match
    BY <2>2, <2>7 DEF Absent, Lines, Decisions
  <2>9. Sound(b) /\ b.line = line /\ b.rows = <<>> /\ Backed(b)
    <3>1. Sound(Now(d)) /\ Now(d).last = last /\ Now(d).line = receipt[d]
      BY <1>1, <2>6, NowParts
    <3>2. b \in Book /\ b.rows = <<>> /\ b.last = last /\ b.line = line
      BY <2>3, <2>6, <2>8, Empty DEF Book, BooksHold
    <3>3. Counted(b) /\ OneActive(b.rows)
      BY <3>1, <3>2, Empty DEF Sound, Counted, OneActive
    <3> QED
      BY <3>2, <3>3, Empty DEF Sound, Backed
  <2>10. PICK c : /\ Put(d, c) /\ Sound(c) /\ c.line.status = "needs_review"
                  /\ c.line.match # "none" /\ Backed(c)
    <3>1. b.line.match # "none" /\ b.line.status = "needs_review"
      BY <2>7, <2>8, <2>9 DEF Decided
    <3>2. CASE \E c \in Classify(b) : Put(d, c)
      BY <2>6, <2>9, <3>1, <3>2, Classified
    <3>3. CASE Put(d, Deferred(b))
      <4>1. PICK c : c = Deferred(b)
        OBVIOUS
      <4>2. /\ Sound(c) /\ c.rows = b.rows /\ c.line.match = b.line.match
            /\ c.line.item = b.line.item /\ c.line.status = b.line.status
        BY <2>9, <4>1, DeferredHolds
      <4>3. Put(d, c) /\ Backed(c)
        BY <2>9, <3>3, <4>1, <4>2, BackedSame
      <4> QED
        BY <3>1, <4>2, <4>3
    <3> QED
      BY <2>4, <3>2, <3>3
  <2>11. Fits(d, c) /\ Quiet(c)
    BY <1>1, <2>10 DEF Fits, Quiet, Failures, Unread, HoldsLock
  <2>12. BooksHold' /\ ReadOnce'
    BY <1>1, <2>5, <2>6, <2>10, <2>11, BooksKept
  <2>13. receipt'[d] = c.line /\ \A e \in Deliveries \ {d} : receipt'[e] = receipt[e]
    BY <1>1, <2>6, <2>10, PutParts DEF Sound
  <2>14. StoredOnce'
    BY <1>1, <1>3, <2>4, <2>5, <2>6, <2>10, <2>13, StoredMore
  <2>15. Remain
    BY <1>3, <2>10, <2>13, <2>6 DEF Remain, Unread
  <2>16. PICK x \in {[pc |-> "confirm", d |-> d], Idle} : proc' = [proc EXCEPT ![w] = x]
    BY <2>4
  <2>17. /\ proc' = [r \in Procs |-> proc'[r]] /\ proc'[w] = x
         /\ \A r \in Procs \ {w} : proc'[r] = proc[r]
    BY <1>1, <2>16, Moves
  <2>18. WorkHolds(w)'
    BY <1>1, <2>16, <2>17 DEF WorkHolds, Ingesting, Idle
  <2>19. ASSUME NEW r \in Procs, r # w PROVE WorkHolds(r)'
    <3>1. WorkHolds(r) /\ proc'[r] = proc[r]
      BY <2>17, <2>19 DEF IInv
    <3>2. ~(r \in Workers /\ proc[r].pc = "persist")
      BY <1>1, <2>19 DEF HoldsLock
    <3> QED
      BY <2>15, <3>1, <3>2, WorkSame
  <2> QED
    BY <2>12, <2>14, <2>17, <2>18, <2>19 DEF IInv
<1> QED
  BY <1>2, <1>3

\* A request loads what it is allowed to act on.
LEMMA LoadHolds ==
  ASSUME IInv, NEW p \in Procs, NEW kind \in Kinds, NEW d \in Deliveries,
         NEW i \in Named(kind), Load(p, kind, d, i)
  PROVE  IInv'
<1>1. BooksHold' /\ ReadOnce' /\ StoredOnce' /\ Remain /\ Parsed' = Parsed
  BY DataSame DEF Load
<1>2. Allowed(kind, receipt[d]) /\ UNCHANGED <<receipt, purchases>>
  BY DEF Load
<1>3. PICK k \in Loaded(kind, purchases[d]) :
        proc' = [proc EXCEPT ![p] = [pc |-> "loaded", kind |-> kind, d |-> d, item |-> i,
                                     line |-> receipt[d], rows |-> purchases[d], row |-> k]]
  BY DEF Load
<1>4. PICK q : q = [pc |-> "loaded", kind |-> kind, d |-> d, item |-> i,
                    line |-> receipt[d], rows |-> purchases[d], row |-> k]
  OBVIOUS
<1>5. receipt[d] \in Lines /\ purchases[d] \in Rows
  BY DEF IInv, BooksHold
<1>6. k \in Nat
  <2>1. DOMAIN purchases[d] \subseteq Nat
    BY <1>5, RowFields
  <2>2. Actives(purchases[d]) \subseteq DOMAIN purchases[d]
    BY DEF Actives
  <2>3. k = 0 \/ k \in DOMAIN purchases[d]
    BY <1>3, <2>2 DEF Loaded
  <2> QED
    BY <2>1, <2>3
<1>7. i \in Decisions
  BY DEF Named, Decisions
<1>8. q \in Requesting /\ q.pc = "loaded"
  BY <1>4, <1>5, <1>6, <1>7 DEF Requesting
<1>9. /\ receipt[d].status # "absent"
      /\ Unread(receipt[d]) => purchases[d] = <<>>
  <2>1. receipt[d].status = "absent" => receipt[d].match = "none"
    BY DEF IInv, ReadOnce, Unread
  <2> QED
    BY <1>2, <2>1 DEF Allowed, Kinds, IInv, ReadOnce
<1>10. Proper(q)'
  BY <1>2, <1>3, <1>4, <1>9 DEF Proper
<1>11. proc' = [proc EXCEPT ![p] = q] /\ proc'[p] = q
  BY <1>3, <1>4, Moves
<1>12. WorkHolds(p)'
  BY <1>8, <1>10, <1>11 DEF WorkHolds
<1>13. proc' = [r \in Procs |-> proc'[r]] /\ \A r \in Procs : WorkHolds(r)'
  BY <1>1, <1>8, <1>11, <1>12, WorkMoved
<1> QED
  BY <1>1, <1>13 DEF IInv

LEMMA RequestHolds == ASSUME IInv, NEW u \in Users, Request(u) PROVE IInv'
<1>1. PICK kind \in Kinds, d \in Deliveries :
        \E i \in Named(kind) : Load(u, kind, d, i)
  BY DEF Request, Kinds
<1> QED
  BY <1>1, LoadHolds DEF Procs

LEMMA LoadAutoHolds == ASSUME IInv, NEW w \in Workers, LoadAuto(w) PROVE IInv'
<1>1. w \in Procs /\ proc[w].d \in Deliveries
  BY WorkerAt DEF LoadAuto
<1>2. CASE Allowed("auto", receipt[proc[w].d])
  <2>1. Load(w, "auto", proc[w].d, None) /\ "auto" \in Kinds /\ None \in Named("auto")
    BY <1>2 DEF LoadAuto, Kinds, Named
  <2> QED
    BY <1>1, <2>1, LoadHolds
<1>3. CASE ~Allowed("auto", receipt[proc[w].d])
  <2>1. BooksHold' /\ ReadOnce' /\ StoredOnce' /\ Remain /\ Parsed' = Parsed
    BY <1>3, DataSame DEF LoadAuto
  <2>2. proc' = [r \in Procs |-> proc'[r]] /\ \A r \in Procs : WorkHolds(r)'
    BY <1>1, <1>3, <2>1, Ends DEF LoadAuto
  <2> QED
    BY <2>1, <2>2 DEF IInv
<1> QED
  BY <1>2, <1>3

\* A line that was read is put in its place, and nobody is at work on it.
LEMMA LineHolds ==
  ASSUME IInv, NEW d \in Deliveries, NEW c, Sound(c), Put(d, c),
         c.line.status = receipt[d].status, receipt[d].match # "none", c.line.match # "none",
         d \notin spoilt' => Backed(c) /\ Quiet(c), spoilt' \in {spoilt, spoilt \cup {d}},
         UNCHANGED <<bought, stored, proc>>
  PROVE  IInv'
<1>1. BooksHold /\ ReadOnce /\ StoredOnce
  BY DEF IInv
<1>2. receipt[d].status \notin {"absent"} \cup Failures
  BY <1>1 DEF ReadOnce, Unread
<1>3. Fits(d, c)
  BY <1>2 DEF Fits, Unread
<1>4. BooksHold' /\ ReadOnce'
  BY <1>1, <1>3, BooksKept
<1>5. receipt'[d] = c.line /\ \A e \in Deliveries \ {d} : receipt'[e] = receipt[e]
  BY <1>1, PutParts DEF Sound
<1>6. StoredOnce'
  BY <1>1, <1>2, <1>5, StoredSame DEF StoredOnce
<1>7. Remain /\ Parsed' = Parsed
  BY <1>2, <1>5 DEF Remain, Parsed, Unread
<1>8. ASSUME NEW r \in Procs PROVE WorkHolds(r)'
  <2>1. WorkHolds(r) /\ proc' = proc
    BY <1>8 DEF IInv
  <2>2. r \in Workers /\ proc[r].pc = "persist" => HoldsLock(r)
    BY <2>1 DEF WorkHolds, Idle, Requesting
  <2> QED
    BY <1>7, <2>1, <2>2, WorkSame DEF HoldsLock
<1> QED
  BY <1>4, <1>6, <1>8 DEF IInv

\* A request commits: the columns it has changed, and the purchases as it made them.
LEMMA CommitHolds == ASSUME IInv, NEW p \in Procs, Commit(p) PROVE IInv'
<1> DEFINE q == proc[p]
           d == q.d
<1>1. q \in Requesting /\ Proper(q) /\ d \in Deliveries
  BY DEF IInv, WorkHolds, Commit, Idle, Ingesting, Requesting
<1>2. BooksHold /\ ReadOnce /\ StoredOnce
  BY DEF IInv
<1>3. UNCHANGED <<bought, stored>> /\ proc' = [proc EXCEPT ![p] = Idle]
  BY DEF Commit
<1>4. CASE Outcomes(q) = {}
  <2>1. BooksHold' /\ ReadOnce' /\ StoredOnce' /\ Remain /\ Parsed' = Parsed
    BY <1>3, <1>4, DataSame DEF Commit
  <2>2. proc' = [r \in Procs |-> proc'[r]] /\ \A r \in Procs : WorkHolds(r)'
    BY <1>3, <2>1, Ends
  <2> QED
    BY <2>1, <2>2 DEF IInv
<1>5. CASE Outcomes(q) # {}
  <2>1. PICK c \in Outcomes(q) : Put(d, [c EXCEPT !.line = Written(q, @)])
    BY <1>5 DEF Commit
  <2>2. spoilt' = IF Stale(q) THEN spoilt \cup {d} ELSE spoilt
    BY <1>5 DEF Commit
  <2>3. Expected(q, c)
    BY <1>1, <1>2, OutcomeExpected
  <2>4. receipt[d] \in Lines /\ q.line \in Lines /\ c \in Book /\ c.line \in Lines /\ Sound(c)
    BY <1>1, <1>2, <2>3, BookParts DEF BooksHold, Expected, Sound, Requesting
  <2>5. PICK line : line = Written(q, c.line)
    OBVIOUS
  <2>6. /\ line \in Lines
        /\ line.status = IF c.line.status = q.line.status THEN receipt[d].status
                         ELSE c.line.status
        /\ line.match = IF c.line.match = q.line.match THEN receipt[d].match ELSE c.line.match
        /\ q.line = receipt[d] => line = c.line
    BY <1>1, <2>4, <2>5, WrittenLine
  <2>7. PICK e : e = [c EXCEPT !.line = line]
    OBVIOUS
  <2>8. Sound(e) /\ e.line = line /\ e.rows = c.rows /\ e.last = c.last
    BY <2>4, <2>6, <2>7, LineSet, SoundWith
  <2>9. Put(d, e)
    BY <2>1, <2>5, <2>7
  <2>10. /\ line.status \in {"absent"} \cup Failures => line.status = receipt[d].status
         /\ Unread(line) <=> Unread(receipt[d])
    BY <1>1, <2>3, <2>6 DEF Expected, Unread, Proper
  <2>11. Unread(receipt[d]) => c.rows = <<>> /\ c.last = last
    BY <2>3 DEF Expected
  <2>12. Fits(d, e)
    BY <1>1, <1>2, <2>8, <2>10, <2>11 DEF Fits, ReadOnce
  <2>13. d \notin spoilt' => Backed(e) /\ Quiet(e)
    <3> SUFFICES ASSUME d \notin spoilt' PROVE Backed(e) /\ Quiet(e)
      OBVIOUS
    <3>1. ~Stale(q) /\ d \notin spoilt
      BY <2>2
    <3>2. line = c.line /\ Backed(c) /\ Quiet(c)
      BY <1>1, <1>2, <2>3, <2>6, <3>1 DEF Stale, Expected, BooksHold
    <3> QED
      BY <2>8, <3>2, BackedSame, QuietSame
  <2>14. BooksHold' /\ ReadOnce'
    BY <1>1, <1>2, <1>3, <2>2, <2>9, <2>12, <2>13, BooksKept
  <2>15. receipt'[d] = line /\ \A f \in Deliveries \ {d} : receipt'[f] = receipt[f]
    BY <1>1, <1>2, <2>8, <2>9, PutParts DEF Sound
  <2>16. receipt[d].status # "absent" /\ line.status # "absent"
    BY <1>1, <2>10 DEF Proper
  <2>17. StoredOnce'
    BY <1>1, <1>2, <1>3, <2>2, <2>15, <2>16, StoredSame DEF StoredOnce
  <2>18. Remain /\ Parsed' = Parsed
    BY <2>10, <2>15, <2>16 DEF Remain, Parsed, Unread
  <2>19. proc' = [r \in Procs |-> proc'[r]] /\ \A r \in Procs : WorkHolds(r)'
    BY <1>3, <2>18, Ends
  <2> QED
    BY <2>14, <2>17, <2>19 DEF IInv
<1> QED
  BY <1>4, <1>5

\* A line that is live is on a receipt that was read and is not ignored.
LEMMA LiveLine ==
  ASSUME IInv, NEW d \in Deliveries, Live(d)
  PROVE  /\ Sound(Now(d)) /\ Now(d).line = receipt[d] /\ receipt[d].match # "none"
         /\ receipt[d].status # "ignored" /\ (d \notin spoilt => Backed(Now(d)))
         /\ bought \in [Items -> History]
  BY NowParts DEF IInv, BooksHold, Live

LEMMA RepairHolds == ASSUME IInv, NEW d \in Deliveries, Repair(d) PROVE IInv'
<1>1. Live(d) /\ UNCHANGED <<bought, stored, proc, spoilt>>
  BY DEF Repair
<1>2. /\ Sound(Now(d)) /\ Now(d).line = receipt[d] /\ receipt[d].match # "none"
      /\ receipt[d].status # "ignored" /\ (d \notin spoilt => Backed(Now(d)))
      /\ bought \in [Items -> History]
  BY <1>1, LiveLine
<1>3. PICK c \in Classify(Now(d)) : Put(d, Retried(c))
  BY DEF Repair, Retried
<1>4. PICK b : b = Now(d)
  OBVIOUS
<1>5. /\ Sound(c) /\ c.line.status = receipt[d].status /\ c.line.match # "none"
      /\ d \notin spoilt => Backed(c)
  BY <1>2, <1>3, <1>4, Classified
<1>6. PICK e : e = Retried(c)
  OBVIOUS
<1>7. /\ Sound(e) /\ e.rows = c.rows /\ e.line.match = c.line.match
      /\ e.line.item = c.line.item /\ e.line.status = c.line.status
  BY <1>5, <1>6, LineRetries
<1>8. d \notin spoilt' => Backed(e) /\ Quiet(e)
  BY <1>1, <1>2, <1>5, <1>7, BackedSame DEF Quiet
<1> QED
  BY <1>1, <1>2, <1>3, <1>5, <1>6, <1>7, <1>8, LineHolds

LEMMA FinalizeHolds == ASSUME IInv, NEW d \in Deliveries, Finalize(d) PROVE IInv'
<1>1. Live(d) /\ UNCHANGED <<bought, stored, proc>>
  BY DEF Finalize
<1>2. /\ Sound(Now(d)) /\ Now(d).line = receipt[d] /\ receipt[d].match # "none"
      /\ receipt[d].status # "ignored" /\ (d \notin spoilt => Backed(Now(d)))
      /\ bought \in [Items -> History]
  BY <1>1, LiveLine
<1>3. PICK i \in Decisions :
        LET f == Final(Now(d), i)
        IN IF Learn(f) # {} THEN (\E c \in Learn(f) : Put(d, c)) /\ UNCHANGED spoilt
           ELSE Put(d, [f EXCEPT !.line.item = i]) /\ spoilt' = spoilt \cup {d}
  BY DEF Finalize
<1>4. PICK f : f = Final(Now(d), i)
  OBVIOUS
<1>5. /\ Sound(f) /\ f.rows = Now(d).rows /\ f.line.match = receipt[d].match
      /\ f.line.item = receipt[d].item /\ f.line.status = receipt[d].status
  BY <1>2, <1>4, LineDecided
<1>6. CASE Learn(f) # {}
  <2>1. PICK c \in Learn(f) : Put(d, c) /\ UNCHANGED spoilt
    BY <1>3, <1>4, <1>6
  <2>2. /\ Sound(c) /\ c.line.status = f.line.status /\ (Backed(f) => Backed(c))
        /\ c.line.match # "none"
    BY <1>2, <1>5, <2>1, Learned
  <2>3. d \notin spoilt' => Backed(c) /\ Quiet(c)
    BY <1>2, <1>5, <2>1, <2>2, BackedSame DEF Quiet
  <2> QED
    BY <1>1, <1>2, <1>5, <2>1, <2>2, <2>3, LineHolds
<1>7. CASE Learn(f) = {}
  <2>1. PICK c : c = [f EXCEPT !.line.item = i]
    OBVIOUS
  <2>2. Put(d, c) /\ spoilt' = spoilt \cup {d}
    BY <1>3, <1>4, <1>7, <2>1
  <2>3. f \in Book /\ f.line \in Lines
    BY <1>5, BookParts DEF Sound
  <2>4. [f.line EXCEPT !.item = i] \in Lines
    BY <2>3 DEF Lines
  <2>5. c = [f EXCEPT !.line = [f.line EXCEPT !.item = i]]
    BY <2>1, <2>3 DEF Book, Lines
  <2>6. /\ c \in Book /\ c.rows = f.rows /\ c.last = f.last
        /\ c.line = [f.line EXCEPT !.item = i]
    BY <2>3, <2>4, <2>5, LineSet
  <2>7. Sound(c) /\ c.line.status = f.line.status /\ c.line.match = f.line.match
    BY <1>5, <2>3, <2>6, SoundSame DEF Lines
  <2> QED
    BY <1>1, <1>2, <1>5, <2>2, <2>7, LineHolds
<1> QED
  BY <1>6, <1>7

LEMMA NextHolds == ASSUME IInv, Next PROVE IInv'
<1>1. ASSUME NEW w \in Workers, Ingestion(w) PROVE IInv'
  BY <1>1, IngestHolds, ParseFailsHolds, ClaimHolds, PersistHolds, LoadAutoHolds DEF Ingestion
<1>2. ASSUME NEW p \in Procs, Commit(p) \/ Die(p) PROVE IInv'
  BY <1>2, CommitHolds, DieHolds
<1>3. ASSUME NEW d \in Deliveries, Repair(d) \/ Finalize(d) PROVE IInv'
  BY <1>3, RepairHolds, FinalizeHolds
<1> QED
  BY <1>1, <1>2, <1>3, RequestHolds DEF Next

THEOREM Inductive == Spec => []IInv
<1>1. IInv /\ [Next]_vars => IInv'
  BY NextHolds, SameHolds
<1> QED
  BY InitIInv, <1>1, PTL DEF Spec

-----------------------------------------------------------------------------
(* Results                                                                 *)

\* A set whose elements are all equal has at most one.
LEMMA AtMostOne ==
  ASSUME NEW S, \A x, y \in S : x = y
  PROVE  Cardinality(S) <= 1
<1>1. CASE S = {}
  BY <1>1, FS_EmptySet
<1>2. CASE S # {}
  <2>1. PICK x : S = {x}
    BY <1>2
  <2> QED
    BY <2>1, FS_Singleton
<1> QED
  BY <1>1, <1>2

\* Types: rows are well formed, a delivery is stored once, and a line has at most one
\* purchase that is not void.
THEOREM TypeCorrect == Spec => []TypeOK
<1>1. IInv => TypeOK
  <2> SUFFICES ASSUME IInv PROVE TypeOK
    OBVIOUS
  <2>1. \A d \in Deliveries : Cardinality(Actives(purchases[d])) <= 1
    <3> TAKE d \in Deliveries
    <3>1. OneActive(purchases[d])
      BY NowParts DEF IInv, Sound
    <3> QED
      BY <3>1, AtMostOne DEF OneActive
  <2>2. \A p \in Procs : proc[p].pc \in {"idle", "parse", "persist", "confirm", "loaded"}
    BY DEF IInv, WorkHolds, Idle, Ingesting, Requesting
  <2> QED
    BY <2>1, <2>2 DEF TypeOK, IInv, BooksHold, StoredOnce, Days
<1> QED
  BY <1>1, Inductive, PTL

\* However many deliveries carry an artifact and however their workers overlap or die,
\* at most one of them becomes a receipt with lines.
THEOREM ParsedOnce == Spec => []OneParsed
<1>1. IInv => OneParsed
  BY AtMostOne DEF IInv, ReadOnce, OneParsed
<1> QED
  BY <1>1, Inductive, PTL

\* An ignored receipt has no purchase that the user did not confirm, unless another
\* process wrote the receipt between the reads and the commit of a request.
THEOREM IgnoredStaysUnlearned == Spec => []IgnoredIsUnlearned
<1>1. IInv => IgnoredIsUnlearned
  <2> SUFFICES ASSUME IInv, NEW d \in Deliveries \ spoilt, receipt[d].status = "ignored",
                      NEW k \in Actives(purchases[d])
               PROVE  purchases[d][k].user
    BY DEF IgnoredIsUnlearned
  <2>1. Quiet(Now(d)) /\ Now(d).line = receipt[d] /\ Now(d).rows = purchases[d]
    BY NowParts DEF IInv, BooksHold
  <2> QED
    BY <2>1 DEF Quiet
<1> QED
  BY <1>1, Inductive, PTL

\* A purchase that is not void counts in the last day of its item, and a line's single
\* purchase is of the item the line is matched to.
THEOREM PurchasesStayBacked == Spec => []PurchasesAreBacked
<1>1. IInv => PurchasesAreBacked
  <2> SUFFICES ASSUME IInv PROVE PurchasesAreBacked
    OBVIOUS
  <2>1. \A d \in Deliveries : /\ Sound(Now(d)) /\ Now(d).line = receipt[d]
                              /\ Now(d).rows = purchases[d] /\ Now(d).last = last
                              /\ d \notin spoilt => Backed(Now(d))
    BY NowParts DEF IInv, BooksHold
  <2>2. \A i \in Items : last[i] >= bought[i]
    BY DEF IInv, BooksHold
  <2>3. ASSUME NEW d \in Deliveries, NEW k \in Actives(purchases[d])
        PROVE  LET i == purchases[d][k].item
               IN /\ last[i] >= Day
                  /\ d \notin spoilt /\ Len(purchases[d]) = 1 =>
                       receipt[d].match = "matched" /\ receipt[d].item = i
    BY <2>1, <2>3 DEF Sound, Counted, Backed
  <2> QED
    BY <2>2, <2>3 DEF PurchasesAreBacked
<1> QED
  BY <1>1, Inductive, PTL

=============================================================================
