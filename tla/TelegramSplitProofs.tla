------------------------ MODULE TelegramSplitProofs ------------------------
(***************************************************************************)
(* Proofs about TelegramSplit, for any transactions, friends, amounts,     *)
(* taps and workers: type correctness, that no split stays marked as being *)
(* submitted, that what is posted adds up, and that it is what was shown.  *)
(* The facts about sums and shares are those of ShareCalculator.           *)
(***************************************************************************)
EXTENDS TelegramSplit, SequenceTheorems, FiniteSetTheorems, TLAPS

-----------------------------------------------------------------------------
(* Selections of friends and typed values                                  *)

LEMMA SelectionParts ==
  ASSUME NEW c \in Selection
  PROVE  /\ c \in Seq(Friends) /\ Len(c) \in Nat /\ DOMAIN c = 1..Len(c)
         /\ \A i \in 1..Len(c) : c[i] \in Friends
         /\ \A i, j \in 1..Len(c) : c[i] = c[j] => i = j
         /\ ToSet(c) \subseteq Friends
<1>1. c \in Seq(Friends) /\ IsInjective(c)
  BY DEF Selection
<1>2. Len(c) \in Nat /\ DOMAIN c = 1..Len(c) /\ \A i \in 1..Len(c) : c[i] \in Friends
  BY <1>1, LenProperties
<1> QED
  BY <1>1, <1>2 DEF IsInjective, ToSet

LEMMA IsSelection ==
  ASSUME NEW c \in Seq(Friends), \A i, j \in 1..Len(c) : c[i] = c[j] => i = j
  PROVE  c \in Selection
<1>1. DOMAIN c = 1..Len(c)
  BY LenProperties
<1> QED
  BY <1>1 DEF Selection, IsInjective

LEMMA NobodySelected == <<>> \in Selection
<1>1. <<>> \in Seq(Friends) /\ Len(<<>>) = 0
  BY EmptySeq
<1>2. \A i, j \in 1..Len(<<>>) : i = j
  BY <1>1
<1> QED
  BY <1>1, <1>2, IsSelection

LEMMA OneSelected ==
  ASSUME NEW f \in Friends
  PROVE  <<f>> \in Selection
<1>1. <<f>> \in Seq(Friends) /\ Len(<<f>>) = 1
  OBVIOUS
<1>2. \A i, j \in 1..Len(<<f>>) : i = j
  BY <1>1
<1> QED
  BY <1>1, <1>2, IsSelection

LEMMA AppendSelects ==
  ASSUME NEW c \in Selection, NEW f \in Friends, f \notin ToSet(c)
  PROVE  Append(c, f) \in Selection
<1>1. /\ c \in Seq(Friends) /\ Len(c) \in Nat /\ DOMAIN c = 1..Len(c)
      /\ \A i, j \in 1..Len(c) : c[i] = c[j] => i = j
  BY SelectionParts
<1>2. /\ Append(c, f) \in Seq(Friends) /\ Len(Append(c, f)) = Len(c) + 1
      /\ \A i \in 1..Len(c) : Append(c, f)[i] = c[i]
      /\ Append(c, f)[Len(c) + 1] = f
  BY <1>1, AppendProperties
<1>3. \A i \in 1..Len(c) : c[i] # f
  BY <1>1 DEF ToSet
<1>4. ASSUME NEW i \in 1..Len(c) + 1, NEW j \in 1..Len(c) + 1, Append(c, f)[i] = Append(c, f)[j]
      PROVE  i = j
  <2>1. CASE i \in 1..Len(c) /\ j \in 1..Len(c)
    BY <1>1, <1>2, <1>4, <2>1
  <2>2. CASE i = Len(c) + 1 /\ j \in 1..Len(c)
    BY <1>2, <1>3, <1>4, <2>2
  <2>3. CASE j = Len(c) + 1 /\ i \in 1..Len(c)
    BY <1>2, <1>3, <1>4, <2>3
  <2> QED
    BY <1>1, <2>1, <2>2, <2>3
<1> QED
  BY <1>2, <1>4, IsSelection

\* Without the friend at i.
LEMMA RemoveSelects ==
  ASSUME NEW c \in Selection, NEW i \in DOMAIN c
  PROVE  RemoveAt(c, i) \in Selection
<1> DEFINE a == SubSeq(c, 1, i - 1)
           b == SubSeq(c, i + 1, Len(c))
<1>1. /\ c \in Seq(Friends) /\ Len(c) \in Nat /\ DOMAIN c = 1..Len(c) /\ i \in 1..Len(c)
      /\ \A k \in 1..Len(c) : c[k] \in Friends
      /\ \A k, j \in 1..Len(c) : c[k] = c[j] => k = j
  BY SelectionParts
<1>2. /\ a \in Seq(Friends) /\ Len(a) = i - 1 /\ \A k \in 1..i - 1 : a[k] = c[k]
  <2>1. \A k \in 1..i - 1 : c[k] \in Friends
    BY <1>1
  <2>2. /\ a \in Seq(Friends) /\ Len(a) = IF 1 <= i - 1 THEN i - 1 - 1 + 1 ELSE 0
        /\ \A k \in 1..i - 1 - 1 + 1 : a[k] = c[1 + k - 1]
    BY <1>1, <2>1, SubSeqProperties
  <2> QED
    BY <1>1, <2>2
<1>3. /\ b \in Seq(Friends) /\ Len(b) = Len(c) - i /\ \A k \in 1..Len(c) - i : b[k] = c[i + k]
  <2>1. \A k \in i + 1..Len(c) : c[k] \in Friends
    BY <1>1
  <2>2. /\ b \in Seq(Friends) /\ Len(b) = IF i + 1 <= Len(c) THEN Len(c) - (i + 1) + 1 ELSE 0
        /\ \A k \in 1..Len(c) - (i + 1) + 1 : b[k] = c[i + 1 + k - 1]
    BY <1>1, <2>1, SubSeqProperties
  <2> QED
    BY <1>1, <2>2
<1> HIDE DEF a, b
<1>4. /\ a \o b \in Seq(Friends) /\ Len(a \o b) = Len(c) - 1
      /\ \A k \in 1..Len(c) - 1 : (a \o b)[k] = IF k <= i - 1 THEN c[k] ELSE c[k + 1]
  <2>1. /\ a \o b \in Seq(Friends) /\ Len(a \o b) = Len(a) + Len(b)
        /\ \A k \in 1..Len(a) + Len(b) :
             (a \o b)[k] = IF k <= Len(a) THEN a[k] ELSE b[k - Len(a)]
    BY <1>2, <1>3, ConcatProperties
  <2>2. Len(a) + Len(b) = Len(c) - 1 /\ Len(a) = i - 1
    BY <1>1, <1>2, <1>3
  <2>3. ASSUME NEW k \in 1..Len(c) - 1
        PROVE  (a \o b)[k] = IF k <= i - 1 THEN c[k] ELSE c[k + 1]
    <3>1. (a \o b)[k] = IF k <= i - 1 THEN a[k] ELSE b[k - (i - 1)]
      BY <2>1, <2>2
    <3>2. CASE k <= i - 1
      BY <1>1, <1>2, <3>1, <3>2
    <3>3. CASE k > i - 1
      <4>1. k - (i - 1) \in 1..Len(c) - i /\ i + (k - (i - 1)) = k + 1
        BY <1>1, <3>3
      <4>2. b[k - (i - 1)] = c[k + 1]
        BY <1>3, <4>1
      <4> QED
        BY <1>1, <3>1, <3>3, <4>2
    <3>4. k <= i - 1 \/ k > i - 1
      BY <1>1
    <3> QED
      BY <3>2, <3>3, <3>4
  <2> QED
    BY <2>1, <2>2, <2>3
<1>5. ASSUME NEW k \in 1..Len(c) - 1, NEW j \in 1..Len(c) - 1, (a \o b)[k] = (a \o b)[j]
      PROVE  k = j
  <2> DEFINE at(n) == IF n <= i - 1 THEN n ELSE n + 1
  <2>1. at(k) \in 1..Len(c) /\ at(j) \in 1..Len(c)
    BY <1>1
  <2>3. (a \o b)[k] = c[at(k)] /\ (a \o b)[j] = c[at(j)]
    BY <1>4
  <2>4. c[at(k)] = c[at(j)]
    BY <1>5, <2>3
  <2>2. at(k) = at(j)
    BY <1>1, <2>1, <2>4
  <2> QED
    BY <1>1, <2>2
<1>6. a \o b \in Selection
  BY <1>4, <1>5, IsSelection
<1> QED
  BY <1>6 DEF RemoveAt, a, b

LEMMA ToggledSelects ==
  ASSUME NEW c \in Selection, NEW f \in Friends
  PROVE  Toggled(c, f) \in Selection /\ Added(c, f) \in Selection
<1>1. CASE f \notin ToSet(c)
  BY <1>1, AppendSelects DEF Toggled, Added
<1>2. CASE f \in ToSet(c)
  <2> DEFINE i == CHOOSE i \in DOMAIN c : c[i] = f
  <2>1. i \in DOMAIN c
    BY <1>2 DEF ToSet
  <2> HIDE DEF i
  <2>2. RemoveAt(c, i) \in Selection
    BY <2>1, RemoveSelects
  <2> QED
    BY <1>2, <2>2 DEF Toggled, Added, i
<1> QED
  BY <1>1, <1>2

\* A selection has no more members than there are friends.
LEMMA SelectionIsShort ==
  ASSUME NEW c \in Selection
  PROVE  Len(c) <= Cardinality(Friends) /\ Cardinality(Friends) \in Nat \ {0}
<1>1. IsFiniteSet(Friends) /\ Friends # {}
  BY TelegramConstants
<1>2. Cardinality(Friends) \in Nat /\ Cardinality(Friends) # 0
  BY <1>1, FS_CardinalityType, FS_EmptySet
<1>3. c \in Injection(1..Len(c), Friends)
  BY LenProperties DEF Selection, Injection
<1>4. IsFiniteSet(1..Len(c)) /\ Cardinality(1..Len(c)) <= Cardinality(Friends)
  BY <1>1, <1>3, FS_Injection
<1>5. Len(c) \in Nat
  BY SelectionParts
<1>6. Cardinality(1..Len(c)) = IF 1 > Len(c) THEN 0 ELSE Len(c) - 1 + 1
  BY <1>5, FS_Interval
<1> QED
  BY <1>2, <1>4, <1>5, <1>6

Entry == [user : Friends \cup {Me}, value : Cents]

LEMMA IsInput ==
  ASSUME NEW n \in 0..Cardinality(Friends) + 1, NEW c \in [1..n -> Entry],
         \A i, j \in 1..n : c[i].user = c[j].user => i = j
  PROVE  c \in Inputs
<1>1. IsInjective(Users(c))
  BY DEF IsInjective, Users, Column
<1> QED
  BY <1>1 DEF Inputs, Entry

LEMMA InputParts ==
  ASSUME NEW c \in Inputs
  PROVE  /\ c \in Seq(Entry) /\ Len(c) \in Nat /\ DOMAIN c = 1..Len(c)
         /\ \A i \in 1..Len(c) : c[i] \in Entry
         /\ \A i, j \in 1..Len(c) : c[i].user = c[j].user => i = j
<1>1. PICK n \in 0..Cardinality(Friends) + 1 : c \in [1..n -> Entry] /\ IsInjective(Users(c))
  BY DEF Inputs, Entry
<1>2. Cardinality(Friends) \in Nat
  BY NobodySelected, SelectionIsShort
<1>3. n \in Nat
  BY <1>2
<1>4. c \in Seq(Entry) /\ Len(c) = n /\ DOMAIN c = 1..n
  BY <1>1, <1>3
<1> QED
  BY <1>1, <1>3, <1>4 DEF IsInjective, Users, Column

LEMMA NothingTyped == <<>> \in Inputs
<1>1. Cardinality(Friends) \in Nat
  BY NobodySelected, SelectionIsShort
<1>2. <<>> \in [1..0 -> Entry]
  OBVIOUS
<1>3. 0 \in 0..Cardinality(Friends) + 1 /\ 1..0 = {}
  BY <1>1
<1> DEFINE c == <<>>
<1> HIDE DEF c
<1>4. c \in Inputs
  BY <1>2, <1>3, IsInput DEF c
<1> QED
  BY <1>4 DEF c

LEMMA TwoTyped ==
  ASSUME NEW f \in Friends, NEW v \in Cents
  PROVE  <<[user |-> f, value |-> v], [user |-> Me, value |-> v]>> \in Inputs
<1> DEFINE c == <<[user |-> f, value |-> v], [user |-> Me, value |-> v]>>
<1>1. Cardinality(Friends) \in Nat \ {0}
  BY NobodySelected, SelectionIsShort
<1>2. c \in [1..2 -> Entry]
  BY DEF Entry
<1>3. \A i, j \in 1..2 : c[i].user = c[j].user => i = j
  BY TelegramConstants
<1>4. 2 \in 0..Cardinality(Friends) + 1
  BY <1>1
<1> HIDE DEF c
<1>5. c \in Inputs
  BY <1>2, <1>3, <1>4, IsInput
<1> QED
  BY <1>5 DEF c

-----------------------------------------------------------------------------
(* The pending split                                                       *)

LEMMA TypedIsInput ==
  ASSUME NEW s \in PendingSplits, NEW tap \in Tap, tap.kind = "values"
  PROVE  Typed(s, tap) \in Inputs
<1> DEFINE c == s.chosen
           n == Len(c)
           a == [i \in DOMAIN c |-> [user |-> c[i], value |-> tap.each]]
           m == <<[user |-> Me, value |-> tap.me]>>
<1>1. /\ c \in Selection /\ n \in Nat /\ DOMAIN c = 1..n /\ \A i \in 1..n : c[i] \in Friends
      /\ \A i, j \in 1..n : c[i] = c[j] => i = j
  BY SelectionParts DEF PendingSplits
<1>2. tap.each \in Cents /\ tap.me \in Cents \cup {None}
  BY DEF Tap
<1>3. n <= Cardinality(Friends) /\ Cardinality(Friends) \in Nat
  BY <1>1, SelectionIsShort
<1>4. a \in [1..n -> Entry] /\ \A i \in 1..n : a[i].user = c[i]
  BY <1>1, <1>2 DEF Entry
<1>5. a \in Seq(Entry) /\ Len(a) = n
  BY <1>1, <1>4
<1> HIDE DEF a, m, n, c
<1>6. CASE s.payer /\ tap.me # None
  <2>1. m \in Seq(Entry) /\ Len(m) = 1 /\ m[1].user = Me
    BY <1>2, <1>6 DEF Entry, m
  <2> DEFINE r == a \o m
  <2>2. /\ r \in Seq(Entry) /\ Len(r) = Len(a) + Len(m)
        /\ \A i \in 1..Len(a) + Len(m) : r[i] = IF i <= Len(a) THEN a[i] ELSE m[i - Len(a)]
    BY <1>5, <2>1, ConcatProperties
  <2> HIDE DEF r
  <2>3. Len(r) = n + 1 /\ \A i \in 1..n + 1 : r[i] = IF i <= n THEN a[i] ELSE m[i - n]
    BY <1>5, <2>1, <2>2
  <2>4. r \in [1..n + 1 -> Entry]
    BY <2>2, <2>3, LenProperties
  <2>5. \A i \in 1..n + 1 : r[i].user = IF i <= n THEN c[i] ELSE Me
    <3> SUFFICES ASSUME NEW i \in 1..n + 1
                 PROVE  r[i].user = IF i <= n THEN c[i] ELSE Me
      OBVIOUS
    <3>1. i \in 1..n \/ i = n + 1
      BY <1>1
    <3>2. CASE i \in 1..n
      BY <1>1, <1>4, <2>3, <3>2
    <3>3. CASE i = n + 1
      <4>1. i - n = 1 /\ ~(i <= n)
        BY <1>1, <3>3
      <4> QED
        BY <2>1, <2>3, <4>1
    <3> QED
      BY <3>1, <3>2, <3>3
  <2>6. ASSUME NEW i \in 1..n + 1, NEW j \in 1..n + 1, r[i].user = r[j].user
        PROVE  i = j
    <3>1. Me \notin Friends
      BY TelegramConstants
    <3>2. /\ i \in 1..n \/ (i = n + 1 /\ ~(i <= n))
          /\ j \in 1..n \/ (j = n + 1 /\ ~(j <= n))
      BY <1>1
    <3>3. CASE i \in 1..n /\ j \in 1..n
      <4>1. c[i] = c[j]
        BY <1>1, <2>5, <2>6, <3>3
      <4> QED
        BY <1>1, <3>3, <4>1
    <3>4. CASE i \in 1..n /\ j = n + 1 /\ ~(j <= n)
      <4>1. c[i] = Me
        BY <1>1, <2>5, <2>6, <3>4
      <4> QED
        BY <1>1, <3>1, <3>4, <4>1
    <3>5. CASE i = n + 1 /\ ~(i <= n) /\ j \in 1..n
      <4>1. c[j] = Me
        BY <1>1, <2>5, <2>6, <3>5
      <4> QED
        BY <1>1, <3>1, <3>5, <4>1
    <3> QED
      BY <3>2, <3>3, <3>4, <3>5
  <2>7. n + 1 \in 0..Cardinality(Friends) + 1
    BY <1>1, <1>3
  <2>8. r \in Inputs
    BY <2>4, <2>6, <2>7, IsInput
  <2> QED
    BY <1>6, <2>8 DEF Typed, a, m, c, r
<1>7. CASE ~(s.payer /\ tap.me # None)
  <2>1. a \o <<>> = a
    BY <1>5, ConcatEmptySeq
  <2>2. n \in 0..Cardinality(Friends) + 1
    BY <1>1, <1>3
  <2>3. \A i, j \in 1..n : a[i].user = a[j].user => i = j
    BY <1>1, <1>4
  <2>4. a \in Inputs
    BY <1>4, <2>2, <2>3, IsInput
  <2> QED
    BY <1>7, <2>1, <2>4 DEF Typed, a, c
<1> QED
  BY <1>6, <1>7

LEMMA PendingType ==
  ASSUME NEW t \in Txs, NEW m \in Modes
  PROVE  /\ Pending(t, m) \in PendingSplits
         /\ Pending(t, m).tx = t /\ Pending(t, m).chosen = <<>> /\ Pending(t, m).custom = <<>>
         /\ Pending(t, m).customValue = "equal" /\ ~Pending(t, m).busy
<1>1. <<>> \in Selection /\ <<>> \in Inputs
  BY NobodySelected, NothingTyped
<1>2. None \in {None, "people"} /\ "equal" \in SplitValues
  BY DEF SplitValues
<1> QED
  BY <1>1, <1>2 DEF Pending, PendingSplits

\* What a handler changes in place is a pending split again.
LEMMA EditedType ==
  ASSUME NEW s \in PendingSplits \cup {None}, NEW tap \in Tap
  PROVE  Edited(s, tap) \in PendingSplits \cup {None} /\ (s \in PendingSplits => Edited(s, tap) \in PendingSplits)
<1>1. CASE tap.kind = "people"
  <2> DEFINE t == IF Concerns(s, tap) THEN s ELSE Pending(tap.tx, "none")
  <2>1. tap.tx \in Txs
    BY <1>1 DEF Tap
  <2>2. t \in PendingSplits
    BY <2>1, PendingType DEF Concerns, Modes
  <2>3. Edited(s, tap) = [t EXCEPT !.mode = "value", !.target = "people"]
    BY <1>1 DEF Edited
  <2> HIDE DEF t
  <2>4. [t EXCEPT !.mode = "value", !.target = "people"] \in PendingSplits
    BY <2>2 DEF PendingSplits, Modes
  <2> QED
    BY <2>3, <2>4
<1>2. CASE tap.kind \in {"equal", "shares", "exact"} /\ Concerns(s, tap)
  <2>1. s \in PendingSplits
    BY <1>2 DEF Concerns
  <2>2. Edited(s, tap) = [s EXCEPT !.value = tap.kind,
                            !.mode = IF s.target = "people" THEN "select" ELSE @]
    BY <1>2 DEF Edited
  <2> QED
    BY <1>2, <2>1, <2>2 DEF PendingSplits, Modes, SplitValues
<1>3. CASE tap.kind = "payer" /\ Concerns(s, tap)
  <2>1. s \in PendingSplits
    BY <1>3 DEF Concerns
  <2>2. Edited(s, tap) = [s EXCEPT !.payer = ~@]
    BY <1>3 DEF Edited
  <2> QED
    BY <2>1, <2>2 DEF PendingSplits
<1>4. CASE tap.kind = "toggle" /\ Concerns(s, tap)
  <2>1. s \in PendingSplits /\ tap.friend \in Friends
    BY <1>4 DEF Concerns, Tap
  <2>2. Toggled(s.chosen, tap.friend) \in Selection /\ Added(s.chosen, tap.friend) \in Selection
    BY <2>1, ToggledSelects DEF PendingSplits
  <2>3. Edited(s, tap) = IF s.mode = "select" THEN [s EXCEPT !.chosen = Toggled(@, tap.friend)]
                         ELSE [s EXCEPT !.chosen = Added(@, tap.friend), !.mode = "summary"]
    BY <1>4 DEF Edited
  <2> QED
    BY <2>1, <2>2, <2>3 DEF PendingSplits, Modes
<1>5. CASE tap.kind = "done" /\ Concerns(s, tap) /\ ~s.busy /\ s.chosen # <<>>
  <2>1. s \in PendingSplits
    BY <1>5 DEF Concerns
  <2>2. Edited(s, tap) = [s EXCEPT !.mode = IF s.value = "equal" THEN "summary" ELSE "values"]
    BY <1>5 DEF Edited
  <2> QED
    BY <2>1, <2>2 DEF PendingSplits, Modes
<1>6. CASE tap.kind = "values" /\ Understood(s, tap)
  <2> DEFINE typed == [s EXCEPT !.custom = Typed(s, tap), !.customValue = s.value]
  <2>1. s \in PendingSplits
    BY <1>6 DEF Understood
  <2>2. Typed(s, tap) \in Inputs
    BY <1>6, <2>1, TypedIsInput
  <2>3. typed \in PendingSplits
    BY <2>1, <2>2 DEF PendingSplits
  <2>4. Edited(s, tap) = [typed EXCEPT !.mode = IF Preview(typed) # Refused THEN "preview" ELSE @]
    BY <1>6 DEF Edited
  <2> HIDE DEF typed
  <2> QED
    BY <2>3, <2>4 DEF PendingSplits, Modes
<1>7. CASE /\ tap.kind # "people"
           /\ ~(tap.kind \in {"equal", "shares", "exact"} /\ Concerns(s, tap))
           /\ ~(tap.kind = "payer" /\ Concerns(s, tap))
           /\ ~(tap.kind = "toggle" /\ Concerns(s, tap))
           /\ ~(tap.kind = "done" /\ Concerns(s, tap) /\ ~s.busy /\ s.chosen # <<>>)
           /\ ~(tap.kind = "values" /\ Understood(s, tap))
  <2>1. Edited(s, tap) = s
    BY <1>7 DEF Edited
  <2> QED
    BY <2>1
<1> QED
  BY <1>1, <1>2, <1>3, <1>4, <1>5, <1>6, <1>7

-----------------------------------------------------------------------------
(* Type correctness                                                        *)

Statuses == {"ask", "personal", "posting", "posted", "undoing"}

\* What a row is, whatever its op and its flags are.
RowOK(r) ==
  \E p, o, d : r \in [status : Statuses, pending : p, amount : Amounts, op : o, done : d]

RowsOK(rows) == rows = [t \in Txs |-> rows[t]] /\ \A t \in Txs : RowOK(rows[t])

\* A worker that handles an update, from the load to the mark.
Handles(w) == proc[w].pc \in {"act", "clear", "flush", "complete"}

ProcOK(w) ==
  /\ proc[w].pc \in {"idle", "act", "clear", "flush", "complete", "ack"}
  /\ proc[w].pc # "idle" => proc[w].n \in 1..MaxTaps
  /\ Handles(w) => taps[proc[w].n] \in Tap
  /\ At(w, "act") =>
       /\ RowsOK(proc[w].txs) /\ \A t \in Txs : proc[w].txs[t].amount = txs[t].amount
       /\ Tapped(w).kind \in {"confirm", "custom"} =>
            /\ memory[w] \in PendingSplits /\ memory[w].tx = Tapped(w).tx
            /\ memory[w] # None /\ ~memory[w].busy
       /\ Tapped(w).kind \in {"split", "confirm", "custom", "cancel", "personal", "undo"}
  /\ At(w, "flush") => proc[w].old \in PendingSplits \cup {None}

UpdateRow ==
  [state : {"none", "processing", "queued", "processed", "failed"}, lease : BOOLEAN]

DeliveryOK ==
  /\ taps \in [1..MaxTaps -> Tap \cup {None}]
  /\ update \in [1..MaxTaps -> UpdateRow]
  /\ event \in [1..MaxTaps -> {"none", "due", "done"}]
  /\ web \in [1..MaxTaps -> {"idle", "claimed", "answered", "lost"}]
  /\ died \subseteq 1..MaxTaps /\ muted \in BOOLEAN /\ steady \in BOOLEAN
  /\ trouble \in 0..MaxTrouble

SplitOK ==
  /\ session \in PendingSplits \cup {None}
  /\ memory \in [Workers -> PendingSplits \cup {None}]

ProcsOK == proc = [w \in Workers |-> proc[w]] /\ \A w \in Workers : ProcOK(w)

TypeInv == DeliveryOK /\ SplitOK /\ RowsOK(txs) /\ ProcsOK

LEMMA TypeInvTypes == TypeInv => TypeOK
<1> SUFFICES ASSUME TypeInv PROVE TypeOK
  OBVIOUS
<1>1. {session} \cup {memory[w] : w \in Workers} \subseteq PendingSplits \cup {None}
  BY DEF TypeInv, SplitOK
<1>2. \A w \in Workers : proc[w].pc \in {"idle", "act", "clear", "flush", "complete", "ack"}
  BY DEF TypeInv, ProcsOK, ProcOK
<1>3. \A t \in Txs : txs[t].status \in Statuses
  BY DEF TypeInv, RowsOK, RowOK
<1> QED
  BY <1>1, <1>2, <1>3 DEF TypeOK, TypeInv, DeliveryOK, UpdateRow, Statuses

\* What a session starts as.
LEMMA FirstSplits ==
  ASSUME NEW t \in Txs, NEW c \in Cents
  PROVE  \A s \in {Selecting(t), [Selecting(t) EXCEPT !.mode = "summary"],
                   [Selecting(t) EXCEPT !.mode = "values", !.value = "shares"], Previewed(t, c)} :
           s \in PendingSplits /\ ~s.busy
<1> DEFINE f == CHOOSE f \in Friends : TRUE
           p == Pending(t, "select")
           s == [p EXCEPT !.target = "people", !.chosen = <<f>>]
           two == <<[user |-> f, value |-> c], [user |-> Me, value |-> c]>>
<1>1. f \in Friends
  BY TelegramConstants
<1> HIDE DEF f
<1>2. <<f>> \in Selection /\ <<f>>[1] = f
  BY <1>1, OneSelected
<1>3. p \in PendingSplits /\ ~p.busy
  BY PendingType DEF Modes
<1> HIDE DEF p
<1>4. s \in PendingSplits /\ ~s.busy /\ s.chosen = <<f>>
  BY <1>2, <1>3 DEF PendingSplits
<1>5. Selecting(t) = s
  BY DEF Selecting, s, p, f
<1> HIDE DEF s
<1>6. two \in Inputs
  BY <1>1, TwoTyped
<1>7. Previewed(t, c) = [s EXCEPT !.mode = "preview", !.value = "shares", !.customValue = "shares",
                                  !.custom = two]
  BY <1>2, <1>4, <1>5 DEF Previewed
<1> HIDE DEF two
<1>8. Previewed(t, c) \in PendingSplits /\ ~Previewed(t, c).busy
  BY <1>4, <1>6, <1>7 DEF PendingSplits, Modes, SplitValues
<1>9. /\ [s EXCEPT !.mode = "summary"] \in PendingSplits /\ ~[s EXCEPT !.mode = "summary"].busy
      /\ [s EXCEPT !.mode = "values", !.value = "shares"] \in PendingSplits
      /\ ~[s EXCEPT !.mode = "values", !.value = "shares"].busy
  BY <1>4 DEF PendingSplits, Modes, SplitValues
<1> QED
  BY <1>4, <1>5, <1>8, <1>9

LEMMA InitType == Init => TypeInv /\ ~muted /\ steady /\ posts = {} /\ (session # None => ~session.busy)
<1> SUFFICES ASSUME Init
             PROVE  TypeInv /\ ~muted /\ steady /\ posts = {} /\ (session # None => ~session.busy)
  OBVIOUS
<1>1. MaxTaps \in Nat /\ MaxTrouble \in Nat
  BY TelegramConstants
<1>2. DeliveryOK
  <2>1. taps = [n \in 1..MaxTaps |-> None] /\ taps \in [1..MaxTaps -> Tap \cup {None}]
    BY DEF Init
  <2>2. update \in [1..MaxTaps -> UpdateRow]
    BY DEF Init, UpdateRow
  <2>3. event \in [1..MaxTaps -> {"none", "due", "done"}]
    BY DEF Init
  <2>4. web \in [1..MaxTaps -> {"idle", "claimed", "answered", "lost"}]
    BY DEF Init
  <2>5. died = {} /\ trouble = 0
    BY DEF Init
  <2>6. muted \in BOOLEAN /\ steady \in BOOLEAN
    BY Zenon DEF Init
  <2> QED
    BY <1>1, <2>1, <2>2, <2>3, <2>4, <2>5, <2>6 DEF DeliveryOK
<1>3. session \in PendingSplits \cup {None} /\ (session # None => ~session.busy)
  <2>1. PICK t \in Txs, c \in Cents :
          session \in {None, Selecting(t), [Selecting(t) EXCEPT !.mode = "summary"],
                       [Selecting(t) EXCEPT !.mode = "values", !.value = "shares"],
                       Previewed(t, c)}
    BY DEF Init
  <2> QED
    BY <2>1, FirstSplits
<1>4. SplitOK
  BY <1>3 DEF Init, SplitOK
<1>5. RowsOK(txs)
  <2>1. PICK t \in Txs, a \in Amounts, late \in BOOLEAN :
          txs = [u \in Txs |-> [status |-> "ask", pending |-> late /\ u = t, amount |-> a,
                                op |-> None, done |-> FALSE]]
    BY DEF Init
  <2>2. \A u \in Txs : RowOK(txs[u])
    BY <2>1 DEF RowOK, Statuses
  <2> QED
    BY <2>1, <2>2 DEF RowsOK
<1>6. ProcsOK
  BY DEF Init, ProcsOK, ProcOK, Idle, Handles, At
<1> QED
  BY <1>2, <1>3, <1>4, <1>5, <1>6 DEF Init, TypeInv

-----------------------------------------------------------------------------
(* Every step keeps the types.                                             *)

\* A worker whose own state is left alone, and the update it handles.
Untouched(w) ==
  /\ proc'[w] = proc[w] /\ memory'[w] = memory[w]
  /\ Handles(w) => taps'[proc[w].n] = taps[proc[w].n]

SameAmounts == \A t \in Txs : txs'[t].amount = txs[t].amount

LEMMA UntouchedOK ==
  ASSUME TypeInv, SameAmounts, NEW w \in Workers, Untouched(w)
  PROVE  ProcOK(w)'
<1>1. ProcOK(w)
  BY DEF TypeInv, ProcsOK
<1>2. CASE ~Handles(w)
  BY <1>1, <1>2 DEF ProcOK, Untouched, Handles, At
<1>3. CASE Handles(w)
  <2>1. /\ proc'[w] = proc[w] /\ memory'[w] = memory[w]
        /\ taps'[proc[w].n] = taps[proc[w].n]
    BY <1>3 DEF Untouched
  <2> QED
    BY <1>1, <2>1 DEF ProcOK, Handles, At, Tapped, SameAmounts
<1> QED
  BY <1>2, <1>3

LEMMA Preserved ==
  ASSUME TypeInv, DeliveryOK', SplitOK', RowsOK(txs)', SameAmounts,
         proc' = [w \in Workers |-> proc'[w]],
         \A w \in Workers : Untouched(w) \/ ProcOK(w)'
  PROVE  TypeInv'
BY UntouchedOK DEF TypeInv, ProcsOK

LEMMA WebType ==
  ASSUME TypeInv, NEW n \in 1..MaxTaps,
         Deliver(n) \/ Queue(n) \/ WebDies(n) \/ Redeliver(n) \/ LeaseExpires(n)
  PROVE  TypeInv' /\ UNCHANGED <<taps, session, memory, txs, proc, shown, posts, muted, steady>>
<1>1. UNCHANGED <<taps, session, memory, txs, proc, shown, posts, muted, steady>>
  BY DEF Deliver, Queue, WebDies, Redeliver, LeaseExpires, history
<1>2. MaxTrouble \in Nat
  BY TelegramConstants
<1>3. DeliveryOK
  BY DEF TypeInv
<1>4. update' \in [1..MaxTaps -> UpdateRow]
  <2>1. update \in [1..MaxTaps -> UpdateRow] /\ update[n] \in UpdateRow
    BY <1>3 DEF DeliveryOK
  <2>2. ASSUME NEW r \in UpdateRow PROVE [update EXCEPT ![n] = r] \in [1..MaxTaps -> UpdateRow]
    BY <2>1
  <2>3. /\ [state |-> "queued", lease |-> FALSE] \in UpdateRow
        /\ [state |-> "processing", lease |-> TRUE] \in UpdateRow
        /\ [update[n] EXCEPT !.lease = FALSE] \in UpdateRow
    BY <2>1 DEF UpdateRow
  <2>4. \/ update' = [update EXCEPT ![n] = [state |-> "queued", lease |-> FALSE]]
        \/ update' = [update EXCEPT ![n] = [state |-> "processing", lease |-> TRUE]]
        \/ update' = [update EXCEPT ![n].lease = FALSE]
        \/ update' = update
    BY DEF Deliver, Queue, Queued, WebDies, Redeliver, LeaseExpires
  <2>5. [update EXCEPT ![n].lease = FALSE] = [update EXCEPT ![n] = [update[n] EXCEPT !.lease = FALSE]]
    OBVIOUS
  <2> QED
    BY <2>1, <2>2, <2>3, <2>4, <2>5
<1>5. event' \in [1..MaxTaps -> {"none", "due", "done"}]
  BY <1>3 DEF DeliveryOK, Deliver, Queue, Queued, WebDies, Redeliver, LeaseExpires
<1>6. web' \in [1..MaxTaps -> {"idle", "claimed", "answered", "lost"}]
  BY <1>3 DEF DeliveryOK, Deliver, Queue, Queued, WebDies, Redeliver, LeaseExpires
<1>7. died' \subseteq 1..MaxTaps
  BY <1>3 DEF DeliveryOK, Deliver, Queue, WebDies, Redeliver, LeaseExpires, history
<1>8. trouble' \in 0..MaxTrouble
  <2>1. trouble' = trouble \/ (trouble < MaxTrouble /\ trouble' = trouble + 1)
    BY DEF Deliver, Queue, WebDies, Redeliver, LeaseExpires
  <2> QED
    BY <1>2, <1>3, <2>1 DEF DeliveryOK
<1>9. DeliveryOK'
  BY <1>1, <1>3, <1>4, <1>5, <1>6, <1>7, <1>8 DEF DeliveryOK
<1>10. SplitOK' /\ RowsOK(txs)' /\ SameAmounts /\ proc' = [w \in Workers |-> proc'[w]]
  BY <1>1 DEF TypeInv, SplitOK, ProcsOK, SameAmounts
<1>11. \A w \in Workers : Untouched(w)
  BY <1>1 DEF Untouched
<1> QED
  BY <1>1, <1>9, <1>10, <1>11, Preserved

\* A row that changes, but not in its amount.
LEMMA RowChanges ==
  ASSUME NEW x, RowOK(x)
  PROVE  /\ RowOK([x EXCEPT !.pending = FALSE])
         /\ [x EXCEPT !.pending = FALSE].amount = x.amount
         /\ RowOK([x EXCEPT !.status = "posted", !.done = TRUE])
         /\ [x EXCEPT !.status = "posted", !.done = TRUE].amount = x.amount
         /\ \A st \in Statuses : /\ RowOK([x EXCEPT !.status = st])
                                 /\ [x EXCEPT !.status = st].amount = x.amount
         /\ \A o : /\ RowOK([x EXCEPT !.op = o, !.status = "posting"])
                    /\ [x EXCEPT !.op = o, !.status = "posting"].amount = x.amount
<1>1. PICK p, q, d : x \in [status : Statuses, pending : p, amount : Amounts, op : q, done : d]
  BY DEF RowOK
<1>2. /\ [x EXCEPT !.pending = FALSE]
            \in [status : Statuses, pending : {FALSE}, amount : Amounts, op : q, done : d]
      /\ [x EXCEPT !.pending = FALSE].amount = x.amount
  BY <1>1
<1>3. /\ [x EXCEPT !.status = "posted", !.done = TRUE]
            \in [status : Statuses, pending : p, amount : Amounts, op : q, done : {TRUE}]
      /\ [x EXCEPT !.status = "posted", !.done = TRUE].amount = x.amount
  BY <1>1 DEF Statuses
<1>4. ASSUME NEW st \in Statuses
      PROVE  /\ [x EXCEPT !.status = st]
                   \in [status : Statuses, pending : p, amount : Amounts, op : q, done : d]
             /\ [x EXCEPT !.status = st].amount = x.amount
  BY <1>1
<1>5. ASSUME NEW o
      PROVE  /\ [x EXCEPT !.op = o, !.status = "posting"]
                   \in [status : Statuses, pending : p, amount : Amounts, op : {o}, done : d]
             /\ [x EXCEPT !.op = o, !.status = "posting"].amount = x.amount
  BY <1>1 DEF Statuses
<1>6. RowOK([x EXCEPT !.pending = FALSE]) /\ RowOK([x EXCEPT !.status = "posted", !.done = TRUE])
  BY <1>2, <1>3 DEF RowOK
<1>7. \A st \in Statuses : RowOK([x EXCEPT !.status = st])
  BY <1>4 DEF RowOK
<1>8. \A o : RowOK([x EXCEPT !.op = o, !.status = "posting"])
  BY <1>5 DEF RowOK
<1> QED
  BY <1>2, <1>3, <1>4, <1>5, <1>6, <1>7, <1>8

LEMMA RowType ==
  ASSUME TypeInv, NEW t \in Txs, BankSettles(t) \/ Execute(t)
  PROVE  /\ TypeInv' /\ SameAmounts
         /\ UNCHANGED <<taps, session, memory, proc, shown, posts, muted, steady>>
<1>1. UNCHANGED <<taps, update, event, web, session, memory, proc, shown, posts, died, muted,
                  steady, trouble>>
  BY DEF BankSettles, Execute, history
<1>2. RowsOK(txs)
  BY DEF TypeInv
<1>3. PICK r : txs' = [txs EXCEPT ![t] = r] /\ RowOK(r) /\ r.amount = txs[t].amount
  <2>1. RowOK(txs[t])
    BY <1>2 DEF RowsOK
  <2>2. CASE BankSettles(t)
    BY <2>1, <2>2, RowChanges DEF BankSettles
  <2>3. CASE Execute(t)
    BY <2>1, <2>3, RowChanges DEF Execute
  <2> QED
    BY <2>2, <2>3
<1>4. RowsOK(txs)' /\ SameAmounts
  BY <1>2, <1>3 DEF RowsOK, SameAmounts
<1>5. DeliveryOK' /\ SplitOK' /\ proc' = [w \in Workers |-> proc'[w]]
  BY <1>1 DEF TypeInv, DeliveryOK, SplitOK, ProcsOK
<1>6. \A w \in Workers : Untouched(w)
  BY <1>1 DEF Untouched
<1> QED
  BY <1>1, <1>4, <1>5, <1>6, Preserved

LEMMA LoadedType ==
  ASSUME TypeInv, NEW w \in Workers
  PROVE  Loaded(w) \in PendingSplits \cup {None}
BY DEF TypeInv, SplitOK, Loaded

\* What a handler finds when it confirms is what it has loaded.
LEMMA ConfirmsLoaded ==
  ASSUME NEW tap, NEW s, Acts(tap, s), tap.kind \in {"confirm", "custom"}
  PROVE  /\ ~Resolved(tap, txs) /\ Loads(tap) /\ Edited(s, tap) = s
         /\ s # None /\ s.tx = tap.tx /\ ~s.busy
BY DEF Acts, Loads, Resolved, Edited, Concerns

LEMMA ActsOn ==
  ASSUME NEW tap, NEW s, Acts(tap, s)
  PROVE  tap.kind \in {"split", "confirm", "custom", "cancel", "personal", "undo"}
BY DEF Acts

LEMMA BeginType ==
  ASSUME TypeInv, NEW w \in Workers, NEW n \in 1..MaxTaps, NEW tap \in Tap,
         taps[n] # None => tap = taps[n], Begin(w, n, tap), Overlaps,
         UNCHANGED <<event, web, session, txs, shown, posts, died, muted>>
  PROVE  TypeInv'
<1> DEFINE old == Loaded(w)
           m == IF ~Loads(tap) THEN memory[w] ELSE IF Resolved(tap, txs) THEN old ELSE Edited(old, tap)
           q == IF Acts(tap, old) THEN [pc |-> "act", n |-> n, txs |-> txs]
                ELSE IF Loads(tap) THEN [pc |-> "flush", n |-> n, old |-> old]
                ELSE [pc |-> "complete", n |-> n]
<1>1. /\ taps' = [taps EXCEPT ![n] = tap]
      /\ update' = [update EXCEPT ![n] = [state |-> "processing", lease |-> TRUE]]
      /\ memory' = [memory EXCEPT ![w] = m]
      /\ proc' = [proc EXCEPT ![w] = q]
  BY DEF Begin
<1>2. steady' \in BOOLEAN
  BY Zenon DEF Begin
<1>3. trouble' \in 0..MaxTrouble
  <2>1. trouble \in 0..MaxTrouble /\ MaxTrouble \in Nat
    BY TelegramConstants DEF TypeInv, DeliveryOK
  <2> QED
    BY <2>1 DEF Overlaps
<1>4. DeliveryOK'
  BY <1>1, <1>2, <1>3 DEF TypeInv, DeliveryOK, UpdateRow
<1>5. old \in PendingSplits \cup {None}
  BY LoadedType
<1>6. m \in PendingSplits \cup {None}
  BY <1>5, EditedType DEF TypeInv, SplitOK
<1>7. Acts(tap, old) => /\ tap.kind \in {"split", "confirm", "custom", "cancel", "personal", "undo"}
                        /\ tap.kind \in {"confirm", "custom"} =>
                             /\ m = old /\ old # None /\ old.tx = tap.tx /\ ~old.busy
  BY ActsOn, ConfirmsLoaded
<1> HIDE DEF m, old
<1>8. SplitOK'
  BY <1>1, <1>6 DEF TypeInv, SplitOK
<1>9. RowsOK(txs)' /\ SameAmounts
  BY DEF TypeInv, SameAmounts
<1>10. proc' = [v \in Workers |-> proc'[v]] /\ \A v \in Workers : proc'[v] = IF v = w THEN q ELSE proc[v]
  <2>1. proc = [v \in Workers |-> proc[v]]
    BY DEF TypeInv, ProcsOK
  <2> HIDE DEF q
  <2> QED
    BY <1>1, <2>1
<1>11. taps'[n] = tap /\ memory'[w] = m /\ proc'[w] = q
  BY <1>1, <1>10 DEF TypeInv, DeliveryOK, SplitOK
<1>12. ProcOK(w)'
  <2>1. CASE Acts(tap, old)
    <3>1. proc'[w] = [pc |-> "act", n |-> n, txs |-> txs]
      BY <1>11, <2>1
    <3>2. Handles(w)' /\ At(w, "act")' /\ ~At(w, "flush")' /\ Tapped(w)' = tap
      BY <1>11, <3>1 DEF Handles, At, Tapped
    <3>3. RowsOK(proc'[w].txs) /\ \A t \in Txs : proc'[w].txs[t].amount = txs'[t].amount
      BY <3>1 DEF TypeInv
    <3>4. tap.kind \in {"confirm", "custom"} => memory'[w] \in PendingSplits /\ memory'[w].tx = tap.tx
                                               /\ memory'[w] # None /\ ~memory'[w].busy
      BY <1>5, <1>7, <1>11, <2>1
    <3> QED
      BY <1>7, <1>11, <2>1, <3>1, <3>2, <3>3, <3>4 DEF ProcOK
  <2>2. CASE ~Acts(tap, old) /\ Loads(tap)
    <3>1. proc'[w] = [pc |-> "flush", n |-> n, old |-> old]
      BY <1>11, <2>2
    <3> QED
      BY <1>5, <1>11, <3>1 DEF ProcOK, Handles, At
  <2>3. CASE ~Acts(tap, old) /\ ~Loads(tap)
    <3>1. proc'[w] = [pc |-> "complete", n |-> n]
      BY <1>11, <2>3
    <3> QED
      BY <1>11, <3>1 DEF ProcOK, Handles, At
  <2> QED
    BY <2>1, <2>2, <2>3
<1>13. ASSUME NEW v \in Workers, v # w PROVE Untouched(v)
  <2>1. proc'[v] = proc[v] /\ memory'[v] = memory[v]
    BY <1>1, <1>10, <1>13 DEF TypeInv, SplitOK
  <2>2. Handles(v) => taps'[proc[v].n] = taps[proc[v].n]
    <3> SUFFICES ASSUME Handles(v) PROVE taps'[proc[v].n] = taps[proc[v].n]
      OBVIOUS
    <3>1. proc[v].n \in 1..MaxTaps /\ taps[proc[v].n] \in Tap
      BY DEF TypeInv, ProcsOK, ProcOK, Handles
    <3>2. taps[proc[v].n] # None
      BY <3>1, NoneIsNoTap
    <3> QED
      BY <1>1, <3>1, <3>2 DEF TypeInv, DeliveryOK
  <2> QED
    BY <2>1, <2>2 DEF Untouched
<1> QED
  BY <1>4, <1>8, <1>9, <1>10, <1>12, <1>13, Preserved

LEMMA TakeType ==
  ASSUME TypeInv, NEW w \in Workers, NEW n \in 1..MaxTaps, Take(w, n)
  PROVE  TypeInv'
<1>1. UNCHANGED <<event, web, session, txs, shown, posts, died, muted>> /\ Overlaps
  BY DEF Take
<1>2. CASE \E tap \in IF taps[n] = None THEN Tap ELSE {taps[n]} : Begin(w, n, tap)
  <2>1. PICK tap \in IF taps[n] = None THEN Tap ELSE {taps[n]} : Begin(w, n, tap)
    BY <1>2
  <2>2. taps[n] \in Tap \cup {None}
    BY DEF TypeInv, DeliveryOK
  <2>3. tap \in Tap /\ (taps[n] # None => tap = taps[n])
    BY <2>1, <2>2
  <2> QED
    BY <1>1, <2>1, <2>3, BeginType
<1>3. CASE proc' = [proc EXCEPT ![w] = [pc |-> "ack", n |-> n]] /\ UNCHANGED <<taps, update, memory, steady>>
  <2>1. trouble' \in 0..MaxTrouble
    <3>1. trouble \in 0..MaxTrouble /\ MaxTrouble \in Nat
      BY TelegramConstants DEF TypeInv, DeliveryOK
    <3> QED
      BY <1>1, <3>1 DEF Overlaps
  <2>2. DeliveryOK' /\ SplitOK' /\ RowsOK(txs)' /\ SameAmounts
    BY <1>1, <1>3, <2>1 DEF TypeInv, DeliveryOK, SplitOK, SameAmounts
  <2>3. proc' = [v \in Workers |-> proc'[v]]
        /\ \A v \in Workers : proc'[v] = IF v = w THEN [pc |-> "ack", n |-> n] ELSE proc[v]
    BY <1>3 DEF TypeInv, ProcsOK
  <2>4. ProcOK(w)'
    BY <2>3 DEF ProcOK, Handles, At
  <2>5. \A v \in Workers \ {w} : Untouched(v)
    BY <1>3, <2>3 DEF Untouched
  <2> QED
    BY <2>2, <2>3, <2>4, <2>5, Preserved
<1> QED
  BY <1>2, <1>3 DEF Take

\* A worker that goes on to q with the update that it handles, or leaves it.
LEMMA GoesOn ==
  ASSUME TypeInv, NEW w \in Workers, NEW q, proc' = [proc EXCEPT ![w] = q],
         DeliveryOK', SplitOK', RowsOK(txs)', SameAmounts,
         \/ q.pc = "idle"
         \/ q.pc = "ack" /\ q.n = proc[w].n /\ proc[w].pc # "idle"
         \/ q.pc \in {"clear", "complete"} /\ q.n = proc[w].n /\ Handles(w) /\ taps' = taps
         \/ /\ q.pc = "flush" /\ q.n = proc[w].n /\ Handles(w) /\ taps' = taps
            /\ q.old \in PendingSplits \cup {None},
         \A v \in Workers \ {w} : memory'[v] = memory[v],
         \A v \in Workers \ {w} : Handles(v) => taps'[proc[v].n] = taps[proc[v].n]
  PROVE  TypeInv'
<1>1. ProcOK(w)
  BY DEF TypeInv, ProcsOK
<1>2. proc' = [v \in Workers |-> proc'[v]] /\ \A v \in Workers : proc'[v] = IF v = w THEN q ELSE proc[v]
  <2>1. proc = [v \in Workers |-> proc[v]]
    BY DEF TypeInv, ProcsOK
  <2> QED
    BY <2>1
<1>3. proc'[w] = q
  BY <1>2
<1>4. ProcOK(w)'
  <2>1. CASE q.pc = "idle"
    BY <1>3, <2>1 DEF ProcOK, Handles, At
  <2>2. CASE q.pc = "ack" /\ q.n = proc[w].n /\ proc[w].pc # "idle"
    BY <1>1, <1>3, <2>2 DEF ProcOK, Handles, At
  <2>3. CASE q.pc \in {"clear", "complete"} /\ q.n = proc[w].n /\ Handles(w) /\ taps' = taps
    <3>1. q.n \in 1..MaxTaps /\ taps[q.n] \in Tap
      BY <1>1, <2>3 DEF ProcOK, Handles
    <3> QED
      BY <1>3, <2>3, <3>1 DEF ProcOK, Handles, At
  <2>4. CASE /\ q.pc = "flush" /\ q.n = proc[w].n /\ Handles(w) /\ taps' = taps
             /\ q.old \in PendingSplits \cup {None}
    <3>1. q.n \in 1..MaxTaps /\ taps[q.n] \in Tap
      BY <1>1, <2>4 DEF ProcOK, Handles
    <3> QED
      BY <1>3, <2>4, <3>1 DEF ProcOK, Handles, At
  <2> QED
    BY <2>1, <2>2, <2>3, <2>4
<1>5. \A v \in Workers \ {w} : Untouched(v)
  BY <1>2 DEF Untouched
<1> QED
  BY <1>2, <1>4, <1>5, Preserved

LEMMA ActingTap ==
  ASSUME TypeInv, NEW w \in Workers, Handles(w)
  PROVE  /\ proc[w].n \in 1..MaxTaps /\ Tapped(w) \in Tap /\ proc[w].pc # "idle"
         /\ At(w, "act") /\ Tapped(w).kind \in {"split", "confirm", "custom", "cancel", "personal", "undo"}
              => Tapped(w).tx \in Txs
         /\ At(w, "act") /\ Tapped(w).kind \in {"confirm", "custom"}
              => /\ memory[w] \in PendingSplits /\ memory[w].tx = Tapped(w).tx /\ memory[w].tx \in Txs
                 /\ memory[w] # None /\ ~memory[w].busy
<1>1. ProcOK(w)
  BY DEF TypeInv, ProcsOK
<1>2. proc[w].n \in 1..MaxTaps /\ Tapped(w) \in Tap /\ proc[w].pc # "idle"
  BY <1>1 DEF ProcOK, Handles, Tapped
<1>3. Tapped(w).kind \in {"split", "confirm", "custom", "cancel", "personal", "undo"} => Tapped(w).tx \in Txs
  BY <1>2 DEF Tap
<1>4. At(w, "act") /\ Tapped(w).kind \in {"confirm", "custom"}
              => /\ memory[w] \in PendingSplits /\ memory[w].tx = Tapped(w).tx
                 /\ memory[w] # None /\ ~memory[w].busy
  BY <1>1 DEF ProcOK
<1> QED
  BY <1>2, <1>3, <1>4

LEMMA SplitType ==
  ASSUME TypeInv, NEW w \in Workers, Split(w)
  PROVE  TypeInv'
<1> DEFINE new == Pending(Tapped(w).tx, "target")
           q == [pc |-> "flush", n |-> proc[w].n, old |-> new]
<1>1. /\ At(w, "act") /\ Handles(w) /\ session' = new /\ memory' = [memory EXCEPT ![w] = new]
      /\ Tapped(w).kind = "split"
      /\ UNCHANGED <<taps, update, event, web, txs, died, muted, steady, trouble>>
  BY DEF Split, At, Handles
<1>2. proc' = [proc EXCEPT ![w] = q]
  BY DEF Split, Flushes
<1>3. new \in PendingSplits
  BY <1>1, ActingTap, PendingType DEF Modes
<1> HIDE DEF new
<1>4. DeliveryOK' /\ SplitOK' /\ RowsOK(txs)' /\ SameAmounts
  BY <1>1, <1>3 DEF TypeInv, DeliveryOK, SplitOK, SameAmounts
<1>5. \A v \in Workers \ {w} : memory'[v] = memory[v] /\ taps' = taps
  BY <1>1 DEF TypeInv, SplitOK
<1>6. q.pc = "flush" /\ q.n = proc[w].n /\ q.old \in PendingSplits \cup {None}
  BY <1>3
<1> HIDE DEF q
<1> QED
  BY <1>1, <1>2, <1>4, <1>5, <1>6, GoesOn

\* A row of the transactions is replaced.
LEMMA RowsChange ==
  ASSUME TypeInv, NEW t \in Txs, NEW r, RowOK(r), r.amount = txs[t].amount,
         txs' = [txs EXCEPT ![t] = r]
  PROVE  RowsOK(txs)' /\ SameAmounts
<1>1. RowsOK(txs)
  BY DEF TypeInv
<1> QED
  BY <1>1 DEF RowsOK, SameAmounts

LEMMA EndsType ==
  ASSUME TypeInv, NEW w \in Workers, Handles(w), NEW pc \in {"clear", "complete"}, Ends(w, pc),
         RowsOK(txs)', SameAmounts, session' \in PendingSplits \cup {None},
         NEW m \in PendingSplits \cup {None}, memory' = [memory EXCEPT ![w] = m],
         update' \in [1..MaxTaps -> UpdateRow], UNCHANGED <<taps, event, web, died, muted, steady, trouble>>
  PROVE  TypeInv'
<1> DEFINE q == [pc |-> pc, n |-> proc[w].n]
<1>1. proc' = [proc EXCEPT ![w] = q]
  BY DEF Ends
<1>2. DeliveryOK' /\ SplitOK'
  BY DEF TypeInv, DeliveryOK, SplitOK
<1>3. \A v \in Workers \ {w} : memory'[v] = memory[v] /\ taps' = taps
  BY DEF TypeInv, SplitOK
<1>4. q.pc \in {"clear", "complete"} /\ q.n = proc[w].n
  OBVIOUS
<1> HIDE DEF q
<1> QED
  BY <1>1, <1>2, <1>3, <1>4, GoesOn

\* Memory and the rows of the updates that stay as they are.
LEMMA SameMemory ==
  ASSUME TypeInv, NEW w \in Workers
  PROVE  /\ memory[w] \in PendingSplits \cup {None} /\ memory = [memory EXCEPT ![w] = memory[w]]
         /\ update \in [1..MaxTaps -> UpdateRow] /\ session \in PendingSplits \cup {None}
BY DEF TypeInv, DeliveryOK, SplitOK

LEMMA ConfirmType ==
  ASSUME TypeInv, NEW w \in Workers, Confirm(w)
  PROVE  TypeInv' /\ SameAmounts
<1>1. /\ At(w, "act") /\ Handles(w) /\ Tapped(w).kind \in {"confirm", "custom"} /\ Ends(w, "clear")
      /\ UNCHANGED <<taps, update, event, web, session, memory, shown, died, muted, steady, trouble>>
  BY DEF Confirm, At, Handles
<1>2. Tapped(w).tx \in Txs
  BY <1>1, ActingTap
<1>3. RowOK(txs[Tapped(w).tx])
  BY <1>2 DEF TypeInv, RowsOK
<1>4. PICK r : txs' = [txs EXCEPT ![Tapped(w).tx] = r] /\ RowOK(r) /\ r.amount = txs[Tapped(w).tx].amount
  <2> DEFINE row == txs[Tapped(w).tx]
  <2>1. PICK shares \in {Shares(w)} \ {Refused} :
          txs' = [txs EXCEPT ![Tapped(w).tx] =
            IF row.op = None THEN [row EXCEPT !.op = shares, !.status = "posting"]
            ELSE [row EXCEPT !.status = IF row.done THEN "posted" ELSE "posting"]]
    BY DEF Confirm
  <2>2. RowOK([row EXCEPT !.op = shares, !.status = "posting"])
        /\ [row EXCEPT !.op = shares, !.status = "posting"].amount = row.amount
    BY <1>3, RowChanges
  <2>3. \A st \in Statuses : RowOK([row EXCEPT !.status = st]) /\ [row EXCEPT !.status = st].amount = row.amount
    BY <1>3, RowChanges
  <2>4. (IF row.done THEN "posted" ELSE "posting") \in Statuses
    BY DEF Statuses
  <2> QED
    BY <2>1, <2>2, <2>3, <2>4
<1>5. RowsOK(txs)' /\ SameAmounts
  BY <1>2, <1>4, RowsChange
<1> QED
  BY <1>1, <1>5, SameMemory, EndsType

\* A worker that flushes s next.
LEMMA FlushesType ==
  ASSUME TypeInv, NEW w \in Workers, Handles(w), NEW s \in PendingSplits \cup {None}, Flushes(w, s),
         session' \in PendingSplits \cup {None}, NEW m \in PendingSplits \cup {None}, memory' = [memory EXCEPT ![w] = m],
         muted' \in BOOLEAN, steady' \in BOOLEAN, trouble' \in 0..MaxTrouble,
         UNCHANGED <<taps, update, event, web, txs, died>>
  PROVE  TypeInv'
<1> DEFINE q == [pc |-> "flush", n |-> proc[w].n, old |-> s]
<1>1. proc' = [proc EXCEPT ![w] = q]
  BY DEF Flushes
<1>2. DeliveryOK' /\ SplitOK' /\ RowsOK(txs)' /\ SameAmounts
  BY DEF TypeInv, DeliveryOK, SplitOK, SameAmounts
<1>3. \A v \in Workers \ {w} : memory'[v] = memory[v] /\ taps' = taps
  BY DEF TypeInv, SplitOK
<1>4. q.pc = "flush" /\ q.n = proc[w].n /\ q.old \in PendingSplits \cup {None}
  OBVIOUS
<1> HIDE DEF q
<1> QED
  BY <1>1, <1>2, <1>3, <1>4, GoesOn

\* The marks of a run, and trouble that has grown.
LEMMA Marks ==
  ASSUME TypeInv
  PROVE  /\ muted \in BOOLEAN /\ steady \in BOOLEAN /\ trouble \in 0..MaxTrouble
         /\ trouble < MaxTrouble /\ trouble' = trouble + 1 => trouble' \in 0..MaxTrouble
<1>1. MaxTrouble \in Nat
  BY TelegramConstants
<1>2. muted \in BOOLEAN /\ steady \in BOOLEAN
  BY Zenon DEF TypeInv, DeliveryOK
<1>3. trouble \in 0..MaxTrouble
  BY DEF TypeInv, DeliveryOK
<1> QED
  BY <1>1, <1>2, <1>3

LEMMA RefuseType ==
  ASSUME TypeInv, NEW w \in Workers, Refuse(w)
  PROVE  TypeInv'
<1>1. /\ At(w, "act") /\ Handles(w) /\ Tapped(w).kind \in {"confirm", "custom"}
      /\ UNCHANGED <<taps, update, event, web, txs, shown, posts, died>>
  BY DEF Refuse, At, Handles
<1>2. memory[w] \in PendingSplits
  BY <1>1, ActingTap
<1>3. RowsOK(txs)' /\ SameAmounts
  BY <1>1 DEF TypeInv, SameAmounts
<1>4. CASE Ends(w, "clear") /\ UNCHANGED <<session, memory, muted, steady, trouble>>
  BY <1>1, <1>3, <1>4, SameMemory, EndsType
<1>5. CASE /\ trouble < MaxTrouble /\ trouble' = trouble + 1
           /\ muted' = TRUE /\ steady' = FALSE
           /\ memory' = [memory EXCEPT ![w].busy = TRUE]
           /\ Flushes(w, [memory[w] EXCEPT !.busy = TRUE])
           /\ UNCHANGED session
  <2> DEFINE m == [memory[w] EXCEPT !.busy = TRUE]
  <2>1. m \in PendingSplits
    BY <1>2 DEF PendingSplits
  <2>2. memory' = [memory EXCEPT ![w] = m] /\ Flushes(w, m)
    BY <1>5
  <2> HIDE DEF m
  <2>3. session' \in PendingSplits \cup {None}
    BY <1>5, SameMemory
  <2>4. muted' \in BOOLEAN /\ steady' \in BOOLEAN /\ trouble' \in 0..MaxTrouble
    BY <1>5, Marks
  <2> QED
    BY <1>1, <2>1, <2>2, <2>3, <2>4, FlushesType
<1>6. CASE /\ session' = memory[w] /\ Flushes(w, memory[w])
           /\ UNCHANGED <<memory, muted, steady, trouble>>
  <2>1. muted' \in BOOLEAN /\ steady' \in BOOLEAN /\ trouble' \in 0..MaxTrouble
    BY <1>6, Marks
  <2> QED
    BY <1>1, <1>2, <1>6, <2>1, SameMemory, FlushesType
<1> QED
  BY <1>4, <1>5, <1>6 DEF Refuse

LEMMA SettleType ==
  ASSUME TypeInv, NEW w \in Workers, Settle(w)
  PROVE  TypeInv' /\ SameAmounts
<1>1. /\ At(w, "act") /\ Handles(w) /\ Ends(w, "clear")
      /\ UNCHANGED <<taps, update, event, web, session, memory, shown, posts, died, muted, steady, trouble>>
  BY DEF Settle, At, Handles
<1>2. ASSUME txs' = txs PROVE RowsOK(txs)' /\ SameAmounts
  BY <1>2 DEF TypeInv, SameAmounts
<1>3. ASSUME \E st \in Statuses : txs' = [txs EXCEPT ![Tapped(w).tx].status = st] /\ Tapped(w).tx \in Txs
      PROVE  RowsOK(txs)' /\ SameAmounts
  <2>1. PICK st \in Statuses : txs' = [txs EXCEPT ![Tapped(w).tx].status = st] /\ Tapped(w).tx \in Txs
    BY <1>3
  <2>2. RowOK(txs[Tapped(w).tx])
    BY <2>1 DEF TypeInv, RowsOK
  <2> QED
    BY <2>1, <2>2, RowChanges, RowsChange
<1>4. txs' = txs \/ \E st \in Statuses : txs' = [txs EXCEPT ![Tapped(w).tx].status = st] /\ Tapped(w).tx \in Txs
  <2>1. Tapped(w).kind \in {"personal", "undo"} => Tapped(w).tx \in Txs
    BY <1>1, ActingTap
  <2> QED
    BY <2>1 DEF Settle, Statuses
<1>5. RowsOK(txs)' /\ SameAmounts
  BY <1>2, <1>3, <1>4 DEF TypeInv
<1> QED
  BY <1>1, <1>5, SameMemory, EndsType

LEMMA CannotUndoType ==
  ASSUME TypeInv, NEW w \in Workers, CannotUndo(w)
  PROVE  TypeInv'
<1>1. /\ Handles(w) /\ Ends(w, "complete")
      /\ UNCHANGED <<taps, update, event, web, session, memory, txs, died, muted, steady, trouble>>
  BY DEF CannotUndo, At, Handles, history
<1>2. RowsOK(txs)' /\ SameAmounts
  BY <1>1 DEF TypeInv, SameAmounts
<1> QED
  BY <1>1, <1>2, SameMemory, EndsType

LEMMA ClearType ==
  ASSUME TypeInv, NEW w \in Workers, Clear(w)
  PROVE  TypeInv'
<1>1. /\ Handles(w) /\ Ends(w, "complete") /\ session' = None /\ memory' = [memory EXCEPT ![w] = None]
      /\ UNCHANGED <<taps, update, event, web, txs, died, muted, steady, trouble>>
  BY DEF Clear, At, Handles
<1>2. RowsOK(txs)' /\ SameAmounts
  BY <1>1 DEF TypeInv, SameAmounts
<1> QED
  BY <1>1, <1>2, SameMemory, EndsType

LEMMA FlushType ==
  ASSUME TypeInv, NEW w \in Workers, Flush(w)
  PROVE  TypeInv'
<1>1. /\ Handles(w) /\ Ends(w, "complete") /\ session' \in {session, memory[w]}
      /\ UNCHANGED <<taps, update, event, web, memory, txs, died, muted, steady, trouble>>
  BY DEF Flush, At, Handles
<1>2. RowsOK(txs)' /\ SameAmounts
  BY <1>1 DEF TypeInv, SameAmounts
<1> QED
  BY <1>1, <1>2, SameMemory, EndsType

\* A worker that is done with an update.
LEMMA LeavesType ==
  ASSUME TypeInv, NEW w \in Workers, NEW q, proc' = [proc EXCEPT ![w] = q],
         \/ q.pc = "idle"
         \/ q.pc = "ack" /\ q.n = proc[w].n /\ proc[w].pc # "idle",
         DeliveryOK', NEW m \in PendingSplits \cup {None}, memory' = [memory EXCEPT ![w] = m],
         UNCHANGED <<session, txs>>,
         \A v \in Workers \ {w} : Handles(v) => taps'[proc[v].n] = taps[proc[v].n]
  PROVE  TypeInv'
<1>1. SplitOK' /\ RowsOK(txs)' /\ SameAmounts
  BY DEF TypeInv, SplitOK, SameAmounts
<1>2. \A v \in Workers \ {w} : memory'[v] = memory[v]
  BY DEF TypeInv, SplitOK
<1> QED
  BY <1>1, <1>2, GoesOn

LEMMA CompleteType ==
  ASSUME TypeInv, NEW w \in Workers, Complete(w)
  PROVE  TypeInv'
<1> DEFINE q == [pc |-> "ack", n |-> proc[w].n]
<1>1. /\ Handles(w) /\ proc' = [proc EXCEPT ![w] = q]
      /\ update' = [update EXCEPT ![proc[w].n] = [state |-> "processed", lease |-> FALSE]]
      /\ UNCHANGED <<taps, event, web, session, memory, txs, died, muted, steady, trouble>>
  BY DEF Complete, Ends, At, Handles, history
<1>2. DeliveryOK'
  BY <1>1 DEF TypeInv, DeliveryOK, UpdateRow
<1>3. q.pc = "ack" /\ q.n = proc[w].n /\ proc[w].pc # "idle"
  BY <1>1 DEF Handles
<1> HIDE DEF q
<1> QED
  BY <1>1, <1>2, <1>3, SameMemory, LeavesType

LEMMA FailType ==
  ASSUME TypeInv, NEW w \in Workers, Fail(w)
  PROVE  TypeInv'
<1>1. /\ proc' = [proc EXCEPT ![w] = Idle] /\ trouble < MaxTrouble /\ trouble' = trouble + 1
      /\ update' = [update EXCEPT ![proc[w].n] = [state |-> "failed", lease |-> FALSE]]
      /\ muted' = TRUE /\ steady' = FALSE
      /\ UNCHANGED <<taps, event, web, session, memory, txs, died>>
  BY DEF Fail
<1>2. muted' \in BOOLEAN /\ steady' \in BOOLEAN /\ trouble' \in 0..MaxTrouble
  BY <1>1, Marks
<1>3. DeliveryOK'
  BY <1>1, <1>2 DEF TypeInv, DeliveryOK, UpdateRow
<1>4. Idle.pc = "idle"
  BY DEF Idle
<1> QED
  BY <1>1, <1>3, <1>4, SameMemory, LeavesType

LEMMA AckType ==
  ASSUME TypeInv, NEW w \in Workers, Ack(w)
  PROVE  TypeInv'
<1>1. /\ At(w, "ack") /\ proc' = [proc EXCEPT ![w] = Idle]
      /\ event' = [event EXCEPT ![proc[w].n] = "done"]
      /\ IF \E v \in Workers \ {w} : proc[v] # Idle /\ proc[v].n = proc[w].n
         THEN taps' = taps
         ELSE taps' = [taps EXCEPT ![proc[w].n] = None]
      /\ UNCHANGED <<update, web, session, memory, txs, died, muted, steady, trouble>>
  BY DEF Ack
<1>2. DeliveryOK'
  BY <1>1 DEF TypeInv, DeliveryOK
<1>3. ASSUME NEW v \in Workers \ {w}, Handles(v) PROVE taps'[proc[v].n] = taps[proc[v].n]
  <2>1. proc[v] # Idle /\ proc[v].n \in 1..MaxTaps
    BY <1>3, ActingTap DEF Idle
  <2>2. CASE proc[v].n = proc[w].n
    BY <1>1, <2>1, <2>2
  <2>3. CASE proc[v].n # proc[w].n
    BY <1>1, <2>1, <2>3 DEF TypeInv, DeliveryOK
  <2> QED
    BY <2>2, <2>3
<1>4. Idle.pc = "idle"
  BY DEF Idle
<1> QED
  BY <1>1, <1>2, <1>3, <1>4, SameMemory, LeavesType

LEMMA DieType ==
  ASSUME TypeInv, NEW w \in Workers, Die(w)
  PROVE  TypeInv'
<1>1. /\ proc' = [proc EXCEPT ![w] = Idle] /\ trouble < MaxTrouble /\ trouble' = trouble + 1
      /\ memory' = [memory EXCEPT ![w] = None] /\ steady' = FALSE
      /\ UNCHANGED <<taps, update, event, web, session, txs, died, muted>>
  BY DEF Die
<1>2. muted' \in BOOLEAN /\ steady' \in BOOLEAN /\ trouble' \in 0..MaxTrouble
  BY <1>1, Marks
<1>3. DeliveryOK'
  BY <1>1, <1>2 DEF TypeInv, DeliveryOK
<1>4. Idle.pc = "idle"
  BY DEF Idle
<1> QED
  BY <1>1, <1>3, <1>4, LeavesType

LEMMA StepType == TypeInv /\ [Next]_vars => TypeInv'
<1> SUFFICES ASSUME TypeInv, [Next]_vars PROVE TypeInv'
  OBVIOUS
<1>1. CASE UNCHANGED vars
  BY <1>1 DEF vars, history, TypeInv, DeliveryOK, SplitOK, RowsOK, RowOK, ProcsOK, ProcOK, Handles,
              At, Tapped
<1>2. CASE Next
  <2>1. ASSUME NEW n \in 1..MaxTaps,
               Deliver(n) \/ Queue(n) \/ WebDies(n) \/ Redeliver(n) \/ LeaseExpires(n)
        PROVE  TypeInv'
    BY <2>1, WebType
  <2>2. ASSUME NEW w \in Workers, NEW n \in 1..MaxTaps, Take(w, n) PROVE TypeInv'
    BY <2>2, TakeType
  <2>3. ASSUME NEW w \in Workers, Step(w) \/ Fail(w) \/ Die(w) PROVE TypeInv'
    BY <2>3, SplitType, ConfirmType, RefuseType, SettleType, CannotUndoType, ClearType, FlushType,
       CompleteType, AckType, FailType, DieType DEF Step
  <2>4. ASSUME NEW t \in Txs, BankSettles(t) \/ Execute(t) PROVE TypeInv'
    BY <2>4, RowType
  <2> QED
    BY <1>2, <2>1, <2>2, <2>3, <2>4 DEF Next
<1> QED
  BY <1>1, <1>2

LEMMA TypeInvAlways == Spec => []TypeInv
<1>1. Init => TypeInv
  BY InitType
<1> QED
  BY <1>1, StepType, PTL DEF Spec

\* Every variable has its type: in particular a pending split names distinct friends,
\* however buttons of older messages are tapped, and what a worker remembers has the
\* shape of what the database stores.
THEOREM TypeCorrect == Spec => []TypeOK
BY TypeInvAlways, TypeInvTypes, PTL

-----------------------------------------------------------------------------
(* No pending split stays marked as being submitted.                       *)

Quiet(s) == s # None => ~s.busy

QuietInv == ~muted => Quiet(session) /\ \A w \in Workers : Quiet(memory[w])

LEMMA EditedQuiet ==
  ASSUME NEW s \in PendingSplits \cup {None}, NEW tap \in Tap, Quiet(s)
  PROVE  Quiet(Edited(s, tap))
<1>1. CASE tap.kind = "people"
  <2> DEFINE t == IF Concerns(s, tap) THEN s ELSE Pending(tap.tx, "none")
  <2>1. tap.tx \in Txs
    BY <1>1 DEF Tap
  <2>2. t \in PendingSplits /\ ~t.busy
    BY <2>1, PendingType DEF Concerns, Modes, Quiet
  <2>3. Edited(s, tap) = [t EXCEPT !.mode = "value", !.target = "people"]
    BY <1>1 DEF Edited
  <2> HIDE DEF t
  <2> QED
    BY <2>2, <2>3 DEF PendingSplits, Quiet
<1>2. CASE tap.kind # "people" /\ s \in PendingSplits
  <2>1. Edited(s, tap).busy = s.busy
    BY <1>2 DEF Edited, PendingSplits
  <2>2. Edited(s, tap) # None /\ s = None => Edited(s, tap) = s
    BY <1>2 DEF Edited, Concerns, Understood
  <2> QED
    BY <2>1, <2>2 DEF Quiet
<1>3. CASE tap.kind # "people" /\ s = None
  <2>1. Edited(s, tap) = None
    BY <1>3 DEF Edited, Concerns, Understood
  <2> QED
    BY <2>1 DEF Quiet
<1> QED
  BY <1>1, <1>2, <1>3

LEMMA StepQuiet ==
  ASSUME TypeInv, QuietInv, Next
  PROVE  QuietInv'
<1> USE DEF QuietInv
<1>0. memory \in [Workers -> PendingSplits \cup {None}] /\ session \in PendingSplits \cup {None}
  BY DEF TypeInv, SplitOK
<1>1. ASSUME UNCHANGED <<session, memory, muted>> PROVE QuietInv'
  BY <1>1
<1>2. ASSUME NEW w \in Workers, NEW m, memory' = [memory EXCEPT ![w] = m], muted' = muted,
             ~muted => Quiet(m) /\ Quiet(session')
      PROVE  QuietInv'
  BY <1>0, <1>2
<1>3. ASSUME NEW n \in 1..MaxTaps,
             Deliver(n) \/ Queue(n) \/ WebDies(n) \/ Redeliver(n) \/ LeaseExpires(n)
      PROVE  QuietInv'
  BY <1>1, <1>3, WebType
<1>4. ASSUME NEW t \in Txs, BankSettles(t) \/ Execute(t) PROVE QuietInv'
  BY <1>1, <1>4, RowType
<1>5. ASSUME NEW w \in Workers, NEW n \in 1..MaxTaps, Take(w, n) PROVE QuietInv'
  <2>1. UNCHANGED <<session, muted>>
    BY <1>5 DEF Take
  <2>2. CASE memory' = memory
    BY <1>1, <2>1, <2>2
  <2>3. CASE \E tap \in IF taps[n] = None THEN Tap ELSE {taps[n]} : Begin(w, n, tap)
    <3>1. PICK tap \in IF taps[n] = None THEN Tap ELSE {taps[n]} : Begin(w, n, tap)
      BY <2>3
    <3>2. taps[n] \in Tap \cup {None}
      BY DEF TypeInv, DeliveryOK
    <3>3. tap \in Tap
      BY <3>1, <3>2
    <3>4. memory' = [memory EXCEPT ![w] =
            IF ~Loads(tap) THEN @ ELSE IF Resolved(tap, txs) THEN Loaded(w) ELSE Edited(Loaded(w), tap)]
      BY <3>1 DEF Begin
    <3>5. ~muted => Quiet(Loaded(w)) /\ Quiet(memory[w])
      BY DEF Loaded
    <3>6. Loaded(w) \in PendingSplits \cup {None}
      BY LoadedType
    <3>7. ~muted => Quiet(Edited(Loaded(w), tap))
      BY <3>3, <3>5, <3>6, EditedQuiet
    <3>8. PICK m : memory' = [memory EXCEPT ![w] = m] /\ (~muted => Quiet(m))
      BY <3>4, <3>5, <3>7
    <3> QED
      BY <1>2, <2>1, <3>8
  <2> QED
    BY <1>5, <2>2, <2>3 DEF Take
<1>6. ASSUME NEW w \in Workers, Step(w) \/ Fail(w) \/ Die(w) PROVE QuietInv'
  <2>1. CASE Split(w)
    <3>1. Tapped(w).tx \in Txs
      BY <2>1, ActingTap DEF Split, At, Handles
    <3>2. Quiet(Pending(Tapped(w).tx, "target"))
      BY <3>1, PendingType DEF Quiet, Modes
    <3> QED
      BY <1>2, <2>1, <3>2 DEF Split
  <2>2. CASE Confirm(w) \/ Settle(w) \/ CannotUndo(w) \/ Complete(w) \/ Ack(w)
    BY <1>1, <2>2 DEF Confirm, Settle, CannotUndo, Complete, Ack, history
  <2>3. CASE Refuse(w)
    <3>1. CASE UNCHANGED <<session, memory, muted>>
      BY <1>1, <3>1
    <3>2. CASE muted' = TRUE
      BY <3>2
    <3>3. CASE session' = memory[w] /\ UNCHANGED <<memory, muted>>
      BY <3>3 DEF Quiet
    <3> QED
      BY <2>3, <3>1, <3>2, <3>3 DEF Refuse
  <2>4. CASE Clear(w)
    <3>1. Quiet(None)
      BY DEF Quiet
    <3> QED
      BY <1>2, <2>4, <3>1 DEF Clear
  <2>5. CASE Flush(w)
    <3>1. session' \in {session, memory[w]} /\ UNCHANGED <<memory, muted>>
      BY <2>5 DEF Flush
    <3> QED
      BY <3>1 DEF Quiet
  <2>6. CASE Fail(w)
    BY <2>6 DEF Fail
  <2>7. CASE Die(w)
    <3>1. Quiet(None)
      BY DEF Quiet
    <3> QED
      BY <1>2, <2>7, <3>1 DEF Die
  <2> QED
    BY <1>6, <2>1, <2>2, <2>3, <2>4, <2>5, <2>6, <2>7 DEF Step
<1> QED
  BY <1>3, <1>4, <1>5, <1>6 DEF Next

\* A pending split is never left marked as being submitted, unless a message was lost:
\* what is marked is confirmed, and with that dropped, or handed on unmarked.
THEOREM NeverStuckHolds == Spec => []NeverStuck
<1>1. Init => QuietInv
  <2>1. Init => memory = [w \in Workers |-> IF w = CHOOSE v \in Workers : TRUE THEN session ELSE None]
    BY DEF Init
  <2> QED
    BY <2>1, InitType DEF QuietInv, Quiet
<1>2. TypeInv /\ QuietInv /\ [Next]_vars => QuietInv'
  <2>1. QuietInv /\ UNCHANGED vars => QuietInv'
    BY DEF QuietInv, Quiet, vars, history
  <2> QED
    BY <2>1, StepQuiet
<1>3. QuietInv => NeverStuck
  BY DEF QuietInv, Quiet, NeverStuck
<1> QED
  BY <1>1, <1>2, <1>3, TypeInvAlways, PTL DEF Spec

-----------------------------------------------------------------------------
(* Sums                                                                    *)

LEMMA Least ==
  ASSUME NEW T \in SUBSET Nat, T # {}
  PROVE  \E x \in T : \A y \in T : x <= y
<1>1. PICK x \in T : \A y \in T : ~(<<y, x>> \in OpToRel(<, Nat))
  BY WFMin, NatLessThanWellFounded, Zenon
<1> WITNESS x \in T
<1>2. SUFFICES ASSUME NEW y \in T PROVE x <= y
  OBVIOUS
<1>3. ~(y < x)
  BY <1>1 DEF OpToRel
<1> QED
  BY <1>3

\* f has the sums of the first n of s.
Sums(s, n, f) == f = [i \in 0..n |-> IF i = 0 THEN 0 ELSE f[i - 1] + s[i]]

LEMMA SumsExist ==
  ASSUME NEW s, NEW n \in Nat
  PROVE  \E f : Sums(s, n, f)
<1> DEFINE Short == {m \in 0..n : ~ \E f : Sums(s, m, f)}
<1>1. SUFFICES ASSUME Short # {} PROVE FALSE
  OBVIOUS
<1>2. PICK m \in Short : \A y \in Short : m <= y
  BY <1>1, Least, Short \in SUBSET Nat
<1>3. CASE m = 0
  <2>1. Sums(s, 0, [i \in 0..0 |-> 0])
    BY DEF Sums
  <2> QED
    BY <1>3, <2>1
<1>4. CASE m > 0
  <2>1. m - 1 \in 0..n /\ m - 1 \notin Short
    BY <1>2, <1>4
  <2>2. PICK f : Sums(s, m - 1, f)
    BY <2>1
  <2> DEFINE g == [i \in 0..m |-> IF i = m THEN f[m - 1] + s[m] ELSE f[i]]
  <2>3. Sums(s, m, g)
    <3>1. \A i \in 0..m : g[i] = IF i = 0 THEN 0 ELSE g[i - 1] + s[i]
      BY <1>4, <2>2 DEF Sums
    <3> QED
      BY <3>1 DEF Sums
  <2> QED
    BY <2>3
<1> QED
  BY <1>3, <1>4

LEMMA TotalSums ==
  ASSUME NEW s, Len(s) \in Nat
  PROVE  \E f : Sums(s, Len(s), f) /\ Total(s) = f[Len(s)]
<1> DEFINE f == CHOOSE f : f = [i \in 0..Len(s) |-> IF i = 0 THEN 0 ELSE f[i - 1] + s[i]]
<1>1. Sums(s, Len(s), f)
  BY SumsExist DEF Sums
<1>2. Total(s) = f[Len(s)]
  BY DEF Total
<1> QED
  BY <1>1, <1>2

LEMMA SumsStep ==
  ASSUME NEW s, NEW n \in Nat, NEW f, Sums(s, n, f)
  PROVE  f[0] = 0 /\ \A i \in 1..n : i - 1 \in 0..n /\ f[i] = f[i - 1] + s[i]
<1>1. f = [i \in 0..n |-> IF i = 0 THEN 0 ELSE f[i - 1] + s[i]]
  BY DEF Sums
<1>2. \A i \in 0..n : f[i] = IF i = 0 THEN 0 ELSE f[i - 1] + s[i]
  BY <1>1
<1> QED
  BY <1>2

\* The sums of integers are integers.
LEMMA SumsType ==
  ASSUME NEW s, NEW n \in Nat, NEW f, Sums(s, n, f), \A i \in 1..n : s[i] \in Int
  PROVE  \A i \in 0..n : f[i] \in Int
<1> DEFINE Odd == {i \in 0..n : f[i] \notin Int}
<1>1. SUFFICES ASSUME Odd # {} PROVE FALSE
  OBVIOUS
<1>2. PICK m \in Odd : \A y \in Odd : m <= y
  BY <1>1, Least, Odd \in SUBSET Nat
<1>3. m # 0 /\ m \in 1..n
  BY <1>2, SumsStep
<1>4. m - 1 \in 0..n /\ m - 1 \notin Odd
  BY <1>2, <1>3
<1> QED
  BY <1>2, <1>3, <1>4, SumsStep

-----------------------------------------------------------------------------
(* Equal shares                                                            *)

LEMMA Division ==
  ASSUME NEW total \in Nat, NEW n \in Nat \ {0}
  PROVE  /\ total \div n \in Nat /\ total % n \in 0..n - 1
         /\ total = n * (total \div n) + (total % n)
OBVIOUS

LEMMA EqualOwedType ==
  ASSUME NEW total \in Nat, NEW n \in Nat \ {0}
  PROVE  /\ EqualOwed(total, n) \in Seq(Nat) /\ Len(EqualOwed(total, n)) = n
         /\ \A i \in 1..n : EqualOwed(total, n)[i]
                              = total \div n + IF i <= total % n THEN 1 ELSE 0
<1>1. total \div n \in Nat /\ total % n \in Nat
  BY Division
<1>2. EqualOwed(total, n) = [i \in 1..n |-> total \div n + IF i <= total % n THEN 1 ELSE 0]
  BY DEF EqualOwed
<1> DEFINE q == total \div n
           r == total % n
           e == [i \in 1..n |-> q + IF i <= r THEN 1 ELSE 0]
<1>3. q \in Nat /\ r \in Nat
  BY <1>1
<1> HIDE DEF q, r
<1>4. e \in [1..n -> Nat]
  BY <1>3
<1> QED
  BY <1>2, <1>4 DEF q, r

\* The shares of an equal split add up to the whole.
LEMMA EqualAddsUp ==
  ASSUME NEW total \in Nat, NEW n \in Nat \ {0}
  PROVE  Total(EqualOwed(total, n)) = total
<1> DEFINE s == EqualOwed(total, n)
           q == total \div n
           r == total % n
           least(k) == IF k <= r THEN k ELSE r
<1>1. /\ q \in Nat /\ r \in 0..n - 1 /\ total = n * q + r
  BY Division
<1>2. Len(s) = n /\ \A i \in 1..n : s[i] = q + IF i <= r THEN 1 ELSE 0
  BY EqualOwedType
<1> HIDE DEF s, q, r
<1>3. PICK f : Sums(s, n, f) /\ Total(s) = f[n]
  BY <1>2, TotalSums
<1>4. f[0] = 0 /\ \A i \in 1..n : i - 1 \in 0..n /\ f[i] = f[i - 1] + s[i]
  BY <1>3, SumsStep
<1> DEFINE Off == {k \in 0..n : f[k] # k * q + least(k)}
<1>5. Off = {}
  <2>1. SUFFICES ASSUME Off # {} PROVE FALSE
    OBVIOUS
  <2>2. PICK m \in Off : \A y \in Off : m <= y
    BY <2>1, Least, Off \in SUBSET Nat
  <2>3. m # 0
    BY <1>1, <1>4, <2>2
  <2>4. m \in 1..n /\ m - 1 \in 0..n /\ m - 1 \notin Off
    BY <2>2, <2>3
  <2>5. f[m - 1] = (m - 1) * q + least(m - 1) /\ f[m] = f[m - 1] + s[m]
    BY <1>4, <2>4
  <2>6. (m - 1) * q + q = m * q /\ (m - 1) * q \in Int /\ m * q \in Int
    BY <1>1, <2>4
  <2>7. least(m) = least(m - 1) + IF m <= r THEN 1 ELSE 0
    BY <1>1, <2>4
  <2>8. s[m] = q + IF m <= r THEN 1 ELSE 0
    BY <1>2, <2>4
  <2>9. f[m] = m * q + least(m)
    BY <1>1, <2>4, <2>5, <2>6, <2>7, <2>8
  <2> QED
    BY <2>2, <2>9
<1>6. f[n] = n * q + r
  <2>1. n \in 0..n /\ n \notin Off
    BY <1>5
  <2>2. least(n) = r
    BY <1>1
  <2> QED
    BY <2>1, <2>2
<1> QED
  BY <1>1, <1>3, <1>6 DEF s

-----------------------------------------------------------------------------
(* What is posted adds up.                                                 *)

\* build_equal_split_shares: the shares of an equal split add up to the amount, differ by a
\* cent at most, and are those of the payer and then of the friends as they were chosen.
THEOREM EqualSharesSound ==
  ASSUME NEW a \in Nat, NEW c \in Selection
  PROVE  LET x == EqualShares(a, Me, c) IN
         /\ Total(Owed(x)) = a
         /\ \A i, j \in DOMAIN x : x[i].owed <= x[j].owed + 1
         /\ Users(x) = <<Me>> \o c
<1> DEFINE users == <<Me>> \o c
           n == Len(users)
           owed == EqualOwed(a, n)
           x == SharesOf(users, owed)
<1>1. c \in Seq(Friends) /\ Me \notin ToSet(c)
  BY SelectionParts, TelegramConstants
<1>2. users \in Seq(Friends \cup {Me}) /\ n = Len(c) + 1 /\ Len(c) \in Nat
  BY <1>1
<1>3. EqualShares(a, Me, c) = x
  BY <1>1 DEF EqualShares
<1>4. n \in Nat \ {0} /\ DOMAIN users = 1..n /\ users = [i \in 1..n |-> users[i]]
  BY <1>2
<1> HIDE DEF users, n
<1>5. /\ owed \in Seq(Nat) /\ Len(owed) = n
      /\ \A i \in 1..n : owed[i] = a \div n + IF i <= a % n THEN 1 ELSE 0
  BY <1>4, EqualOwedType
<1>6. Total(owed) = a
  BY <1>4, EqualAddsUp
<1>7. a \div n \in Nat
  BY <1>4, Division
<1> DEFINE q == a \div n
           r == a % n
<1> HIDE DEF owed, q, r
<1>8. x = [i \in 1..n |-> [user |-> users[i], owed |-> owed[i]]]
  BY <1>4 DEF SharesOf
<1>9. owed = [i \in 1..n |-> owed[i]]
  BY <1>4, <1>5
<1>10. Owed(x) = owed
  BY <1>8, <1>9 DEF Owed, Column
<1>11. Users(x) = users
  <2>1. Users(x) = [i \in 1..n |-> users[i]]
    BY <1>8 DEF Users, Column
  <2> QED
    BY <1>4, <2>1
<1>12. \A i \in 1..n : owed[i] = q \/ owed[i] = q + 1
  BY <1>5 DEF q, r
<1>13. \A i, j \in 1..n : owed[i] <= owed[j] + 1
  BY <1>7, <1>12 DEF q
<1>14. \A i, j \in DOMAIN x : x[i].owed <= x[j].owed + 1
  BY <1>8, <1>13
<1> HIDE DEF x
<1> QED
  BY <1>3, <1>6, <1>10, <1>11, <1>14 DEF users

LEMMA CustomSplitParts ==
  ASSUME NEW a \in Amounts, NEW b \in BOOLEAN, NEW m \in SplitValues, NEW c \in Inputs
  PROVE  CustomSplit[a][b][m][c] = CustomShares(a, Me, b, m, c)
BY DEF CustomSplit, SplitValues

LEMMA CustomSharesSound ==
  ASSUME NEW a, NEW b, NEW m, NEW c, CustomShares(a, Me, b, m, c) # Refused
  PROVE  Total(Owed(CustomShares(a, Me, b, m, c))) = a
BY DEF CustomShares, Valid

SumInv == \A p \in posts : p.tx \in Txs

LEMMA ConfirmAddsUp ==
  ASSUME TypeInv, NEW w \in Workers, At(w, "act"), Tapped(w).kind \in {"confirm", "custom"},
         Shares(w) # Refused
  PROVE  /\ Tapped(w).tx \in Txs
         /\ Total(Owed(Shares(w))) = txs[Tapped(w).tx].amount
         /\ Tapped(w).kind = "confirm" =>
              \A i, j \in DOMAIN Shares(w) : Shares(w)[i].owed <= Shares(w)[j].owed + 1
<1> DEFINE s == memory[w]
           row == proc[w].txs[s.tx]
<1>1. s \in PendingSplits /\ s.tx = Tapped(w).tx /\ s.tx \in Txs
  BY ActingTap DEF At, Handles
<1>2. row.amount = txs[s.tx].amount /\ row.amount \in Amounts /\ row.amount \in Nat
  <2>1. ProcOK(w) /\ RowsOK(txs)
    BY DEF TypeInv, ProcsOK
  <2>2. row.amount = txs[s.tx].amount /\ RowOK(txs[s.tx])
    BY <1>1, <2>1 DEF ProcOK, RowsOK
  <2>3. txs[s.tx].amount \in Amounts
    BY <2>2 DEF RowOK
  <2> QED
    BY <2>2, <2>3, TelegramConstants
<1>3. s.chosen \in Selection /\ s.payer \in BOOLEAN /\ s.customValue \in SplitValues /\ s.custom \in Inputs
  BY <1>1 DEF PendingSplits
<1>4. CASE Tapped(w).kind = "confirm"
  <2>1. Shares(w) = EqualShares(row.amount, Me, s.chosen)
    BY <1>4 DEF Shares
  <2> HIDE DEF s, row
  <2> QED
    BY <1>1, <1>2, <1>3, <2>1, EqualSharesSound
<1>5. CASE Tapped(w).kind = "custom"
  <2>1. Shares(w) = CustomSplit[row.amount][s.payer][s.customValue][s.custom]
    BY <1>5 DEF Shares
  <2> HIDE DEF s, row
  <2>2. Shares(w) = CustomShares(row.amount, Me, s.payer, s.customValue, s.custom)
    BY <1>2, <1>3, <2>1, CustomSplitParts
  <2>3. Total(Owed(Shares(w))) = row.amount
    BY <2>2, CustomSharesSound
  <2> QED
    BY <1>1, <1>2, <1>5, <2>3
<1> QED
  BY <1>4, <1>5

LEMMA StepAddsUp ==
  ASSUME TypeInv, SumInv, SharesAddUp, Next
  PROVE  SumInv' /\ SharesAddUp'
<1>1. ASSUME SameAmounts, posts' = posts PROVE SumInv' /\ SharesAddUp'
  BY <1>1 DEF SumInv, SharesAddUp, SameAmounts
<1>2. ASSUME txs' = txs PROVE SameAmounts
  BY <1>2 DEF SameAmounts
<1>3. ASSUME NEW n \in 1..MaxTaps,
             Deliver(n) \/ Queue(n) \/ WebDies(n) \/ Redeliver(n) \/ LeaseExpires(n)
      PROVE  SumInv' /\ SharesAddUp'
  BY <1>1, <1>2, <1>3, WebType
<1>4. ASSUME NEW t \in Txs, BankSettles(t) \/ Execute(t) PROVE SumInv' /\ SharesAddUp'
  BY <1>1, <1>4, RowType
<1>5. ASSUME NEW w \in Workers, NEW n \in 1..MaxTaps, Take(w, n) PROVE SumInv' /\ SharesAddUp'
  BY <1>1, <1>2, <1>5 DEF Take
<1>6. ASSUME NEW w \in Workers, Step(w) \/ Fail(w) \/ Die(w) PROVE SumInv' /\ SharesAddUp'
  <2>1. CASE Split(w) \/ Refuse(w) \/ CannotUndo(w) \/ Clear(w) \/ Flush(w) \/ Complete(w)
             \/ Ack(w) \/ Fail(w) \/ Die(w)
    <3>1. txs' = txs /\ posts' = posts
      BY <2>1 DEF Split, Refuse, CannotUndo, Clear, Flush, Complete, Ack, Fail, Die, history
    <3> QED
      BY <1>1, <1>2, <3>1
  <2>2. CASE Settle(w)
    BY <1>1, <2>2, SettleType DEF Settle
  <2>3. CASE Confirm(w)
    <3>1. SameAmounts /\ At(w, "act") /\ Tapped(w).kind \in {"confirm", "custom"}
      BY <2>3, ConfirmType DEF Confirm
    <3>2. CASE posts' = posts
      BY <1>1, <3>1, <3>2
    <3>3. CASE posts' # posts
      <4> DEFINE new == [tx |-> Tapped(w).tx, kind |-> Tapped(w).kind, split |-> Shares(w),
                         saw |-> IF steady THEN shown ELSE None]
      <4>1. Shares(w) # Refused /\ posts' = posts \cup {new}
        BY <2>3, <3>3 DEF Confirm
      <4>2. /\ new.tx \in Txs
            /\ Total(Owed(new.split)) = txs[new.tx].amount
            /\ new.kind = "confirm" =>
                 \A i, j \in DOMAIN new.split : new.split[i].owed <= new.split[j].owed + 1
        BY <3>1, <4>1, ConfirmAddsUp
      <4> HIDE DEF new
      <4> QED
        BY <3>1, <4>1, <4>2 DEF SumInv, SharesAddUp, SameAmounts
    <3> QED
      BY <3>2, <3>3
  <2> QED
    BY <1>6, <2>1, <2>2, <2>3 DEF Step
<1> QED
  BY <1>3, <1>4, <1>5, <1>6 DEF Next

\* What is posted adds up to the amount of the transaction, whichever amount the worker
\* had loaded and whatever was typed, and the shares of an equal split differ by a cent
\* at most: the remainder of the division goes to the first ones, one cent each.
THEOREM SharesHold == Spec => []SharesAddUp
<1>1. Init => SumInv /\ SharesAddUp
  BY InitType DEF SumInv, SharesAddUp
<1>2. TypeInv /\ SumInv /\ SharesAddUp /\ [Next]_vars => SumInv' /\ SharesAddUp'
  <2>1. SumInv /\ SharesAddUp /\ UNCHANGED vars => SumInv' /\ SharesAddUp'
    BY DEF SumInv, SharesAddUp, vars, history
  <2> QED
    BY <2>1, StepAddsUp
<1> QED
  BY <1>1, <1>2, TypeInvAlways, PTL DEF Spec

-----------------------------------------------------------------------------
(* A custom split does not depend on whether the payer is included, as long *)
(* as it adds up both ways.                                                *)

\* The sum of positive numbers is positive.
LEMMA PositiveSum ==
  ASSUME NEW s, NEW n \in Nat \ {0}, NEW f, Sums(s, n, f), \A i \in 1..n : s[i] \in Nat \ {0}
  PROVE  f[n] \in Nat \ {0}
<1> DEFINE Odd == {i \in 1..n : f[i] \notin Nat \ {0}}
<1>1. SUFFICES ASSUME Odd # {} PROVE FALSE
  BY n \in 1..n
<1>2. PICK m \in Odd : \A y \in Odd : m <= y
  BY <1>1, Least, Odd \in SUBSET Nat
<1>3. f[0] = 0 /\ f[m] = f[m - 1] + s[m] /\ s[m] \in Nat \ {0}
  BY <1>2, SumsStep
<1>4. m = 1 \/ (m - 1 \in 1..n /\ m - 1 \notin Odd)
  BY <1>2
<1>5. f[m - 1] \in Nat
  BY <1>3, <1>4
<1> QED
  BY <1>2, <1>3, <1>5

\* A sum without one of its terms.
LEMMA SumWithout ==
  ASSUME NEW n \in Nat, NEW s \in [1..n -> Int], NEW k \in 1..n
  PROVE  Total([s EXCEPT ![k] = 0]) = Total(s) - s[k] /\ Total(s) \in Int
<1> DEFINE t == [s EXCEPT ![k] = 0]
<1>a. /\ Len(s) = n /\ Len(t) = n
      /\ \A i \in 1..n : s[i] \in Int /\ t[i] \in Int
      /\ t[k] = 0 /\ \A i \in 1..n : i # k => s[i] = t[i]
  OBVIOUS
<1> HIDE DEF t
<1>b. PICK f : Sums(s, n, f) /\ Total(s) = f[n]
  BY <1>a, TotalSums
<1>c. PICK g : Sums(t, n, g) /\ Total(t) = g[n]
  BY <1>a, TotalSums
<1>1. f[0] = 0 /\ \A i \in 1..n : i - 1 \in 0..n /\ f[i] = f[i - 1] + s[i]
  BY <1>b, SumsStep
<1>2. g[0] = 0 /\ \A i \in 1..n : i - 1 \in 0..n /\ g[i] = g[i - 1] + t[i]
  BY <1>c, SumsStep
<1>3. \A i \in 0..n : f[i] \in Int /\ g[i] \in Int
  BY <1>a, <1>b, <1>c, SumsType
<1> DEFINE d == s[k] - t[k]
           Odd == {i \in 0..n : f[i] - g[i] # IF i < k THEN 0 ELSE d}
<1>4. d \in Int
  BY <1>a
<1>5. d = s[k] - t[k]
  OBVIOUS
<1> HIDE DEF d
<1>6. Odd = {}
  <2>1. SUFFICES ASSUME Odd # {} PROVE FALSE
    OBVIOUS
  <2>2. PICK m \in Odd : \A y \in Odd : m <= y
    BY <2>1, Least, Odd \in SUBSET Nat
  <2>3. m # 0
    BY <1>1, <1>2, <2>2
  <2>4. m \in 1..n /\ m - 1 \in 0..n /\ m - 1 \notin Odd
    BY <2>2, <2>3
  <2>5. f[m - 1] - g[m - 1] = IF m - 1 < k THEN 0 ELSE d
    BY <2>4
  <2>6. f[m] = f[m - 1] + s[m] /\ g[m] = g[m - 1] + t[m]
    BY <1>1, <1>2, <2>4
  <2>7. s[m] \in Int /\ t[m] \in Int /\ f[m - 1] \in Int /\ g[m - 1] \in Int
    BY <1>a, <1>3, <2>4
  <2>8. CASE m < k
    <3>1. s[m] = t[m]
      BY <1>a, <2>4, <2>8
    <3>2. f[m] - g[m] = 0
      BY <2>4, <2>5, <2>6, <2>7, <2>8, <3>1
    <3> QED
      BY <2>2, <2>8, <3>2
  <2>9. CASE m = k
    <3>1. f[m - 1] - g[m - 1] = 0 /\ d = s[m] - t[m]
      BY <1>5, <2>4, <2>5, <2>9
    <3>2. f[m] - g[m] = d
      BY <2>6, <2>7, <3>1
    <3> QED
      BY <2>2, <2>4, <2>9, <3>2
  <2>10. CASE m > k
    <3>1. s[m] = t[m] /\ ~(m - 1 < k)
      BY <1>a, <2>4, <2>10
    <3>2. f[m] - g[m] = d
      BY <1>4, <2>5, <2>6, <2>7, <3>1
    <3> QED
      BY <2>2, <2>4, <2>10, <3>2
  <2> QED
    BY <2>4, <2>8, <2>9, <2>10
<1>7. f[n] - g[n] = d
  BY <1>6, n \in 0..n
<1>8. f[n] \in Int /\ g[n] \in Int /\ s[k] \in Int /\ d = s[k]
  BY <1>a, <1>3, <1>5, n \in 0..n
<1> QED
  BY <1>b, <1>c, <1>7, <1>8 DEF t

\* Weights give everyone the floor of the exact share, or a cent more.
LEMMA WeightsType ==
  ASSUME NEW a \in Nat, NEW w, NEW n \in Nat \ {0}, w \in [1..n -> Nat \ {0}]
  PROVE  AllocateByWeights(a, w) \in [1..n -> Int]
<1> DEFINE all == Total(w)
           floors == [i \in DOMAIN w |-> (a * w[i]) \div all]
           rest(i) == (a * w[i]) % all
           ahead(i) == Cardinality({j \in DOMAIN w :
                                      rest(j) > rest(i) \/ (rest(j) = rest(i) /\ j < i)})
           more(i) == ahead(i) < a - Total(floors)
<1>1. AllocateByWeights(a, w)
        = [i \in DOMAIN w |-> floors[i] + IF more(i) THEN 1 ELSE 0]
  BY DEF AllocateByWeights
<1>2. all \in Nat \ {0}
  <2>1. Len(w) = n
    OBVIOUS
  <2>2. PICK f : Sums(w, n, f) /\ Total(w) = f[n]
    BY <2>1, TotalSums
  <2>3. f[n] \in Nat \ {0}
    BY <2>2, PositiveSum
  <2> QED
    BY <2>2, <2>3
<1> HIDE DEF all
<1>3. \A i \in 1..n : a * w[i] \in Nat
  OBVIOUS
<1>4. ASSUME NEW i \in 1..n PROVE floors[i] \in Int
  <2> DEFINE x == a * w[i]
  <2>1. x \in Nat
    BY <1>3
  <2>2. floors[i] = x \div all
    OBVIOUS
  <2> HIDE DEF x, floors
  <2>3. x \div all \in Nat
    BY <1>2, <2>1, Division
  <2> QED
    BY <2>2, <2>3
<1> HIDE DEF floors, more
<1>5. \A i \in 1..n : floors[i] + (IF more(i) THEN 1 ELSE 0) \in Int
  BY <1>4
<1> QED
  BY <1>1, <1>5

\* What everyone owes before the payer is left out.
LEMMA OwedShape ==
  ASSUME NEW a \in Nat, NEW b \in BOOLEAN, NEW m \in {"shares", "exact"}, NEW c \in Inputs
  PROVE  \/ OwedByUser(a, Me, b, m, c) = Refused
         \/ /\ OwedByUser(a, Me, b, m, c) = OwedByUser(a, Me, TRUE, m, c)
            /\ \E v \in [1..Len(c) -> Int] :
                 OwedByUser(a, Me, b, m, c)
                   = [i \in 1..Len(c) |-> [user |-> c[i].user, owed |-> v[i]]]
<1> DEFINE n == Len(c)
           users == Users(c)
           values == Values(c)
<1>1. /\ c \in Seq(Entry) /\ n \in Nat /\ DOMAIN c = 1..n /\ \A i \in 1..n : c[i] \in Entry
  BY InputParts
<1>2. users = [i \in 1..n |-> c[i].user] /\ values = [i \in 1..n |-> c[i].value]
  BY <1>1 DEF Users, Values, Column
<1>3. \A i \in 1..n : c[i].value \in Nat
  BY <1>1, TelegramConstants DEF Entry
<1>4. values \in [1..n -> Int]
  BY <1>2, <1>3
<1> HIDE DEF users, values
<1>5. ASSUME NEW v PROVE SharesOf(users, v) = [i \in 1..n |-> [user |-> c[i].user, owed |-> v[i]]]
  BY <1>2 DEF SharesOf
<1>6. CASE m = "exact" /\ c # <<>> /\ Total(values) = a
  <2>1. \A e \in BOOLEAN : OwedByUser(a, Me, e, m, c) = SharesOf(users, values)
    BY <1>6 DEF OwedByUser, users, values
  <2> QED
    BY <1>4, <1>5, <2>1
<1>7. CASE m = "shares" /\ c # <<>> /\ 0 \notin ToSet(values)
  <2> DEFINE v == AllocateByWeights(a, values)
  <2>1. \A e \in BOOLEAN : OwedByUser(a, Me, e, m, c) = SharesOf(users, v)
    BY <1>7 DEF OwedByUser, users, values
  <2>2. n # 0
    BY <1>1, <1>7
  <2>3. \A i \in 1..n : values[i] \in Nat \ {0}
    BY <1>2, <1>3, <1>7 DEF ToSet
  <2>4. values \in [1..n -> Nat \ {0}]
    BY <1>2, <2>3
  <2>5. v \in [1..n -> Int]
    BY <1>1, <2>2, <2>4, WeightsType
  <2> HIDE DEF v
  <2> QED
    BY <1>5, <2>1, <2>5
<1>8. CASE /\ ~(m = "exact" /\ c # <<>> /\ Total(values) = a)
           /\ ~(m = "shares" /\ c # <<>> /\ 0 \notin ToSet(values))
  <2>1. OwedByUser(a, Me, b, m, c) = Refused
    BY <1>8 DEF OwedByUser, users, values
  <2> QED
    BY <2>1
<1> QED
  BY <1>6, <1>7, <1>8

\* build_custom_split_shares_by_mode: amounts or weights that are accepted both with the
\* payer and without give the same shares, so a toggle of the payer between a preview and
\* its confirmation changes nothing, or has the confirmation refused.
THEOREM SameWhoeverPays ==
  ASSUME NEW a \in Nat, NEW m \in {"shares", "exact"}, NEW c \in Inputs,
         CustomShares(a, Me, TRUE, m, c) # Refused, CustomShares(a, Me, FALSE, m, c) # Refused
  PROVE  CustomShares(a, Me, TRUE, m, c) = CustomShares(a, Me, FALSE, m, c)
<1> DEFINE n == Len(c)
           owed == OwedByUser(a, Me, TRUE, m, c)
           also == OwedByUser(a, Me, FALSE, m, c)
<1>1. owed # Refused /\ also # Refused
  BY DEF CustomShares
<1>2. also = owed
  BY <1>1, OwedShape
<1>3. PICK v \in [1..n -> Int] : owed = [i \in 1..n |-> [user |-> c[i].user, owed |-> v[i]]]
  BY <1>1, OwedShape
<1>4. /\ n \in Nat /\ \A i, j \in 1..n : c[i].user = c[j].user => i = j
  BY InputParts
<1>5. CustomShares(a, Me, TRUE, m, c) = owed /\ (\E i \in DOMAIN owed : owed[i].user = Me)
      /\ Total(Owed(owed)) = a
  BY DEF CustomShares, Valid
<1> DEFINE less == [i \in DOMAIN owed |-> IF owed[i].user = Me THEN [owed[i] EXCEPT !.owed = 0]
                                          ELSE owed[i]]
<1>6. CustomShares(a, Me, FALSE, m, c) = less /\ Total(Owed(less)) = a
  BY <1>2, <1>5 DEF CustomShares, Valid
<1> HIDE DEF owed, also, n
<1>7. PICK k \in 1..n : c[k].user = Me
  BY <1>3, <1>5
<1>8. \A i \in 1..n : i # k => c[i].user # Me
  BY <1>4, <1>7
<1>9. less = [i \in 1..n |-> [user |-> c[i].user, owed |-> IF i = k THEN 0 ELSE v[i]]]
  <2>1. ASSUME NEW i \in 1..n
        PROVE  (IF owed[i].user = Me THEN [owed[i] EXCEPT !.owed = 0] ELSE owed[i])
                  = [user |-> c[i].user, owed |-> IF i = k THEN 0 ELSE v[i]]
    <3>1. owed[i] = [user |-> c[i].user, owed |-> v[i]]
      BY <1>3
    <3>2. CASE i = k
      BY <1>7, <3>1, <3>2
    <3>3. CASE i # k
      BY <1>8, <3>1, <3>3
    <3> QED
      BY <3>2, <3>3
  <2>2. DOMAIN owed = 1..n
    BY <1>3
  <2> QED
    BY <2>1, <2>2
<1> HIDE DEF less
<1> DEFINE t == [v EXCEPT ![k] = 0]
<1>10. Owed(owed) = v
  <2>1. Owed(owed) = [i \in 1..n |-> v[i]]
    BY <1>3 DEF Owed, Column
  <2> QED
    BY <2>1
<1>11. Owed(less) = t
  <2>1. Owed(less) = [i \in 1..n |-> IF i = k THEN 0 ELSE v[i]]
    BY <1>9 DEF Owed, Column
  <2> QED
    BY <2>1
<1>12. Total(t) = Total(v) - v[k] /\ Total(v) \in Int
  BY <1>4, SumWithout
<1>13. v[k] = 0
  <2>1. Total(t) = a /\ Total(v) = a /\ v[k] \in Int
    BY <1>5, <1>6, <1>10, <1>11
  <2> QED
    BY <1>12, <2>1
<1>14. \A i \in 1..n : v[i] = IF i = k THEN 0 ELSE v[i]
  BY <1>13
<1>15. owed = less
  BY <1>3, <1>9, <1>14
<1> QED
  BY <1>5, <1>6, <1>15

LEMMA SameSplit ==
  ASSUME NEW a \in Amounts, NEW p \in BOOLEAN, NEW m \in {"shares", "exact"}, NEW c \in Inputs,
         CustomSplit[a][p][m][c] # Refused, NEW b \in BOOLEAN
  PROVE  CustomSplit[a][b][m][c] \in {Refused, CustomSplit[a][p][m][c]}
<1>1. a \in Nat /\ m \in SplitValues
  BY TelegramConstants DEF SplitValues
<1>2. \A e \in BOOLEAN : CustomSplit[a][e][m][c] = CustomShares(a, Me, e, m, c)
  BY <1>1, CustomSplitParts
<1>3. CustomShares(a, Me, TRUE, m, c) # Refused /\ CustomShares(a, Me, FALSE, m, c) # Refused
        => CustomShares(a, Me, TRUE, m, c) = CustomShares(a, Me, FALSE, m, c)
  BY <1>1, SameWhoeverPays
<1>4. b = TRUE \/ b = FALSE
  OBVIOUS
<1>5. p = TRUE \/ p = FALSE
  OBVIOUS
<1> QED
  BY <1>2, <1>3, <1>4, <1>5

-----------------------------------------------------------------------------
(* What is confirmed was shown.                                            *)

\* x shows the selection of s, and its custom split, whether the payer is included or
\* not, if it shows any.
Shows(rows, x, s) == s # None =>
  /\ x.equal = s.chosen
  /\ x.custom # None =>
       \A b \in BOOLEAN :
         CustomSplit[rows[s.tx].amount][b][s.customValue][s.custom] \in {Refused, x.custom}

\* What a tap makes of a pending split, as far as it can be shown.
Follows(rows, old, new, tap) ==
  \/ new = old
  \/ /\ new \in PendingSplits /\ tap.kind = "people" /\ ~Concerns(old, tap)
     /\ new.chosen = <<>>
  \/ /\ new \in PendingSplits /\ old \in PendingSplits /\ tap.kind # "values" /\ Concerns(old, tap)
     /\ new.tx = old.tx /\ new.custom = old.custom /\ new.customValue = old.customValue
     /\ new.chosen = old.chosen \/ tap.kind = "toggle"
  \/ /\ new \in PendingSplits /\ old \in PendingSplits /\ tap.kind = "values"
     /\ new.tx = old.tx /\ new.chosen = old.chosen /\ new.customValue \in {"shares", "exact"}
     /\ new.mode = "preview" =>
          CustomSplit[rows[new.tx].amount][new.payer][new.customValue][new.custom] # Refused

LEMMA SameRows ==
  ASSUME NEW rows, NEW now, \A t \in Txs : now[t].amount = rows[t].amount
  PROVE  /\ \A x : \A s \in PendingSplits \cup {None} : Shows(rows, x, s) => Shows(now, x, s)
         /\ \A old, new, tap : Follows(rows, old, new, tap) => Follows(now, old, new, tap)
<1>1. ASSUME NEW x, NEW s \in PendingSplits \cup {None}, Shows(rows, x, s) PROVE Shows(now, x, s)
  <2>1. s # None => now[s.tx].amount = rows[s.tx].amount
    BY DEF PendingSplits
  <2> QED
    BY <1>1, <2>1 DEF Shows
<1>2. ASSUME NEW old, NEW new, NEW tap, Follows(rows, old, new, tap)
      PROVE  Follows(now, old, new, tap)
  <2>1. new \in PendingSplits => now[new.tx].amount = rows[new.tx].amount
    BY DEF PendingSplits
  <2> QED
    BY <1>2, <2>1 DEF Follows
<1> QED
  BY <1>1, <1>2

LEMMA EditedFollows ==
  ASSUME NEW s \in PendingSplits \cup {None}, NEW tap \in Tap
  PROVE  Follows(txs, s, Edited(s, tap), tap)
<1> DEFINE new == Edited(s, tap)
<1>1. s \in PendingSplits => new \in PendingSplits
  BY EditedType
<1>2. CASE tap.kind = "people"
  <2>1. new = [IF Concerns(s, tap) THEN s ELSE Pending(tap.tx, "none")
                 EXCEPT !.mode = "value", !.target = "people"]
    BY <1>2 DEF Edited
  <2>2. CASE ~Concerns(s, tap)
    <3> DEFINE p == Pending(tap.tx, "none")
    <3>1. p \in PendingSplits /\ p.chosen = <<>>
      BY <1>2, PendingType DEF Tap, Modes
    <3>2. new = [p EXCEPT !.mode = "value", !.target = "people"]
      BY <2>1, <2>2
    <3> HIDE DEF p, new
    <3>3. new \in PendingSplits /\ new.chosen = <<>>
      BY <3>1, <3>2 DEF PendingSplits, Modes
    <3> QED
      BY <1>2, <2>2, <3>3 DEF Follows, new
  <2>3. CASE Concerns(s, tap)
    <3>1. s \in PendingSplits
      BY <2>3 DEF Concerns
    <3>2. new = [s EXCEPT !.mode = "value", !.target = "people"]
      BY <2>1, <2>3
    <3> HIDE DEF new
    <3>3. /\ new \in PendingSplits /\ new.chosen = s.chosen /\ new.tx = s.tx /\ new.custom = s.custom
          /\ new.customValue = s.customValue
      BY <3>1, <3>2 DEF PendingSplits, Modes
    <3> QED
      BY <1>2, <2>3, <3>1, <3>3 DEF Follows, new
  <2> QED
    BY <2>2, <2>3
<1>3. CASE tap.kind \in {"equal", "shares", "exact", "payer", "toggle", "done"} /\ Concerns(s, tap)
  <2>1. s \in PendingSplits
    BY <1>3 DEF Concerns
  <2>2. /\ new \in PendingSplits
        /\ new.tx = s.tx /\ new.custom = s.custom /\ new.customValue = s.customValue
        /\ new.chosen = s.chosen \/ tap.kind = "toggle"
    <3>1. new \in PendingSplits
      BY <1>1, <2>1
    <3>2. /\ new.tx = s.tx /\ new.custom = s.custom /\ new.customValue = s.customValue
          /\ new.chosen = s.chosen \/ tap.kind = "toggle"
      BY <1>3, <2>1 DEF Edited, PendingSplits
    <3> QED
      BY <3>1, <3>2
  <2> HIDE DEF new
  <2>3. tap.kind # "values" /\ Concerns(s, tap)
    BY <1>3
  <2>4. Follows(txs, s, new, tap)
    BY <2>1, <2>2, <2>3 DEF Follows
  <2> QED
    BY <2>4 DEF new
<1>4. CASE tap.kind = "values" /\ Understood(s, tap)
  <2>1. s \in PendingSplits /\ s.value \in {"shares", "exact"} /\ s.mode = "values"
    BY <1>4 DEF Understood, PendingSplits, SplitValues
  <2> DEFINE typed == [s EXCEPT !.custom = Typed(s, tap), !.customValue = s.value]
  <2>2. Typed(s, tap) \in Inputs
    BY <1>4, <2>1, TypedIsInput
  <2>3. /\ typed \in PendingSplits /\ typed.tx = s.tx /\ typed.chosen = s.chosen /\ typed.mode = "values"
        /\ typed.customValue = s.value
    BY <2>1, <2>2 DEF PendingSplits
  <2>4. new = [typed EXCEPT !.mode = IF Preview(typed) # Refused THEN "preview" ELSE @]
    BY <1>4 DEF Edited
  <2> HIDE DEF typed, new
  <2>5. CASE Preview(typed) # Refused
    <3>1. new = [typed EXCEPT !.mode = "preview"]
      BY <2>4, <2>5
    <3>2. /\ new \in PendingSplits /\ new.tx = typed.tx /\ new.chosen = typed.chosen /\ new.payer = typed.payer
          /\ new.customValue = typed.customValue /\ new.custom = typed.custom
      BY <2>3, <3>1 DEF PendingSplits, Modes
    <3>3. CustomSplit[txs[new.tx].amount][new.payer][new.customValue][new.custom] # Refused
      BY <2>5, <3>2 DEF Preview
    <3> QED
      BY <1>4, <2>1, <2>3, <3>2, <3>3 DEF Follows, new
  <2>6. CASE Preview(typed) = Refused
    <3>1. new = typed
      BY <2>3, <2>4, <2>6 DEF PendingSplits
    <3> QED
      BY <1>4, <2>1, <2>3, <3>1 DEF Follows, new
  <2> QED
    BY <2>5, <2>6
<1>5. CASE /\ tap.kind # "people"
           /\ ~(tap.kind \in {"equal", "shares", "exact", "payer", "toggle", "done"} /\ Concerns(s, tap))
           /\ ~(tap.kind = "values" /\ Understood(s, tap))
  <2>1. new = s
    BY <1>5 DEF Edited
  <2> QED
    BY <2>1 DEF Follows
<1> QED
  BY <1>2, <1>3, <1>4, <1>5

ShownOK == \E e, c : shown \in [equal : e, custom : c]

\* The flush of a pending split that a tap has changed shows it.
LEMMA FlushShows ==
  ASSUME RowsOK(txs), ShownOK, NEW old \in PendingSplits \cup {None}, NEW new, NEW tap, new # old,
         Follows(txs, old, new, tap), Shows(txs, shown, old)
  PROVE  new \in PendingSplits /\ new # None /\ Shows(txs, Displayed(old, new, tap), new)
<1>0. PICK e, c : shown \in [equal : e, custom : c]
  BY DEF ShownOK
<1>1. new \in PendingSplits /\ new # None
  BY NoneIsNoSplit DEF Follows
<1>2. CASE tap.kind = "people" /\ ~Concerns(old, tap) /\ new.chosen = <<>>
  <2>1. Displayed(old, new, tap) = Unseen
    BY <1>2 DEF Displayed
  <2>2. Unseen.equal = <<>> /\ Unseen.custom = None
    BY DEF Unseen
  <2> QED
    BY <1>1, <1>2, <2>1, <2>2 DEF Shows
<1>3. CASE /\ old \in PendingSplits /\ tap.kind # "values" /\ Concerns(old, tap)
           /\ new.tx = old.tx /\ new.custom = old.custom /\ new.customValue = old.customValue
           /\ new.chosen = old.chosen \/ tap.kind = "toggle"
  <2> DEFINE x == Displayed(old, new, tap)
  <2>1. x = shown \/ x = [shown EXCEPT !.equal = new.chosen]
    BY <1>3 DEF Displayed
  <2>2. tap.kind = "toggle" => x = [shown EXCEPT !.equal = new.chosen]
    BY <1>3 DEF Displayed
  <2>3. old # None
    BY <1>3 DEF Concerns
  <2> HIDE DEF x
  <2>4. x.equal = new.chosen /\ x.custom = shown.custom
    <3>1. shown.equal = old.chosen
      BY <2>3 DEF Shows
    <3> QED
      BY <1>0, <1>3, <2>1, <2>2, <3>1
  <2> QED
    BY <1>1, <1>3, <2>3, <2>4 DEF Shows, x
<1>4. CASE /\ old \in PendingSplits /\ tap.kind = "values"
           /\ new.tx = old.tx /\ new.chosen = old.chosen /\ new.customValue \in {"shares", "exact"}
           /\ new.mode = "preview" =>
                CustomSplit[txs[new.tx].amount][new.payer][new.customValue][new.custom] # Refused
  <2> DEFINE x == Displayed(old, new, tap)
             a == txs[new.tx].amount
  <2>1. x = [shown EXCEPT !.custom = IF new.mode = "preview" THEN Preview(new) ELSE None]
    BY <1>4 DEF Displayed
  <2>2. old # None
    BY <1>4, NoneIsNoSplit
  <2> HIDE DEF x
  <2>3. /\ x.equal = new.chosen
        /\ x.custom = IF new.mode = "preview" THEN Preview(new) ELSE None
    <3>1. shown.equal = old.chosen
      BY <2>2 DEF Shows
    <3> QED
      BY <1>0, <1>4, <2>1, <3>1
  <2>4. a \in Amounts
    BY <1>1 DEF RowsOK, RowOK, PendingSplits
  <2>5. new.payer \in BOOLEAN /\ new.custom \in Inputs
    BY <1>1 DEF PendingSplits
  <2> HIDE DEF a
  <2>6. ASSUME new.mode = "preview", NEW b \in BOOLEAN
        PROVE  CustomSplit[a][b][new.customValue][new.custom] \in {Refused, x.custom}
    <3>1. x.custom = CustomSplit[a][new.payer][new.customValue][new.custom] /\ x.custom # Refused
      BY <1>4, <2>3, <2>6 DEF Preview, a
    <3> DEFINE v == new.customValue
               values == new.custom
               included == new.payer
    <3>2. /\ v \in {"shares", "exact"} /\ values \in Inputs /\ included \in BOOLEAN
          /\ CustomSplit[a][included][v][values] # Refused
      BY <1>4, <2>5, <3>1
    <3> HIDE DEF v, values, included
    <3>3. CustomSplit[a][b][v][values] \in {Refused, CustomSplit[a][included][v][values]}
      BY <2>4, <2>6, <3>2, SameSplit
    <3> QED
      BY <3>1, <3>3 DEF v, values, included
  <2> QED
    BY <1>1, <2>3, <2>6 DEF Shows, x, a
<1> QED
  BY <1>1, <1>2, <1>3, <1>4 DEF Follows

\* As long as the run is steady: one worker handles at a time, what the user saw last is
\* the pending split of the database, and a worker that acts or flushes has that split
\* or what its tap makes of it.
ShowInv ==
  /\ ShownOK
  /\ steady =>
       /\ \A v, w \in Workers : Handles(v) /\ Handles(w) => v = w
       /\ Shows(txs, shown, session)
       /\ \A w \in Workers :
            /\ At(w, "act") /\ Tapped(w).kind \in {"confirm", "custom"} => memory[w] = session
            /\ At(w, "flush") => /\ proc[w].old = session
                                 /\ Follows(txs, session, memory[w], Tapped(w))

\* Nothing is shown and the split of the database stays, and workers go on only to a
\* place where they do not use it.
LEMMA StillShows ==
  ASSUME TypeInv, ShowInv, SameAmounts, steady' => steady, UNCHANGED <<shown, session>>,
         \A w \in Workers : \/ Untouched(w)
                            \/ ~Handles(w)'
                            \/ Handles(w) /\ proc'[w].pc \in {"clear", "complete"}
  PROVE  ShowInv'
<1> SUFFICES ASSUME steady'
             PROVE  /\ \A v, w \in Workers : Handles(v)' /\ Handles(w)' => v = w
                    /\ Shows(txs', shown', session')
                    /\ \A w \in Workers :
                         /\ At(w, "act")' /\ Tapped(w)'.kind \in {"confirm", "custom"}
                              => memory'[w] = session'
                         /\ At(w, "flush")' => /\ proc'[w].old = session'
                                               /\ Follows(txs', session', memory'[w], Tapped(w)')
  BY DEF ShowInv, ShownOK, Shows
<1>1. /\ \A v, w \in Workers : Handles(v) /\ Handles(w) => v = w
      /\ Shows(txs, shown, session)
      /\ \A w \in Workers :
            /\ At(w, "act") /\ Tapped(w).kind \in {"confirm", "custom"} => memory[w] = session
            /\ At(w, "flush") => /\ proc[w].old = session
                                 /\ Follows(txs, session, memory[w], Tapped(w))
  BY DEF ShowInv
<1>2. session \in PendingSplits \cup {None}
  BY DEF TypeInv, SplitOK
<1>3. \A t \in Txs : txs'[t].amount = txs[t].amount
  BY DEF SameAmounts
<1>4. \A w \in Workers : Handles(w)' => Handles(w)
  BY DEF Untouched, Handles
<1>5. Shows(txs', shown', session')
  BY <1>1, <1>2, <1>3, SameRows
<1>6. ASSUME NEW w \in Workers, At(w, "act")' \/ At(w, "flush")'
      PROVE  /\ proc'[w] = proc[w] /\ memory'[w] = memory[w] /\ Tapped(w)' = Tapped(w)
  <2>1. Handles(w)' /\ proc'[w].pc \notin {"clear", "complete"}
    BY <1>6 DEF Handles, At
  <2>2. Untouched(w)
    BY <2>1
  <2>3. Handles(w)
    BY <1>4, <2>1
  <2> QED
    BY <2>2, <2>3 DEF Untouched, Tapped
<1>7. ASSUME NEW w \in Workers, At(w, "act")', Tapped(w)'.kind \in {"confirm", "custom"}
      PROVE  memory'[w] = session'
  BY <1>1, <1>6, <1>7 DEF At
<1>8. ASSUME NEW w \in Workers, At(w, "flush")'
      PROVE  proc'[w].old = session' /\ Follows(txs', session', memory'[w], Tapped(w)')
  <2>1. proc'[w] = proc[w] /\ memory'[w] = memory[w] /\ Tapped(w)' = Tapped(w)
    BY <1>6, <1>8
  <2>2. proc[w].old = session /\ Follows(txs, session, memory[w], Tapped(w))
    BY <1>1, <1>8, <2>1 DEF At
  <2>3. Follows(txs', session, memory[w], Tapped(w))
    BY <1>3, <2>2, SameRows
  <2> QED
    BY <2>1, <2>2, <2>3
<1> QED
  BY <1>1, <1>4, <1>5, <1>7, <1>8

\* The step of the one worker that handles an update, to q.
LEMMA ShowsAgain ==
  ASSUME TypeInv, ShowInv, SameAmounts, NEW w \in Workers, NEW q, proc' = [proc EXCEPT ![w] = q],
         ShownOK', steady' => \A v \in Workers \ {w} : ~Handles(v),
         steady' => Shows(txs, shown', session'),
         steady' /\ q.pc = "act" /\ taps'[q.n].kind \in {"confirm", "custom"} => memory'[w] = session',
         steady' /\ q.pc = "flush" => /\ q.old = session'
                                      /\ Follows(txs, session', memory'[w], taps'[q.n]),
         session' \in PendingSplits \cup {None}
  PROVE  ShowInv'
<1> SUFFICES ASSUME steady'
             PROVE  /\ \A v, u \in Workers : Handles(v)' /\ Handles(u)' => v = u
                    /\ Shows(txs', shown', session')
                    /\ \A v \in Workers :
                         /\ At(v, "act")' /\ Tapped(v)'.kind \in {"confirm", "custom"}
                              => memory'[v] = session'
                         /\ At(v, "flush")' => /\ proc'[v].old = session'
                                               /\ Follows(txs', session', memory'[v], Tapped(v)')
  BY DEF ShowInv, ShownOK, Shows
<1>1. \A v \in Workers : proc'[v] = IF v = w THEN q ELSE proc[v]
  <2>1. proc = [v \in Workers |-> proc[v]]
    BY DEF TypeInv, ProcsOK
  <2> QED
    BY <2>1
<1>2. \A v \in Workers \ {w} : ~Handles(v)'
  BY <1>1 DEF Handles
<1>3. \A t \in Txs : txs'[t].amount = txs[t].amount
  BY DEF SameAmounts
<1>4. Shows(txs', shown', session')
  BY <1>3, SameRows
<1>5. ASSUME NEW v \in Workers, At(v, "act")' \/ At(v, "flush")'
      PROVE  v = w /\ proc'[v] = q /\ Tapped(v)' = taps'[q.n]
  <2>1. v = w
    BY <1>2, <1>5 DEF Handles, At
  <2> QED
    BY <1>1, <2>1 DEF Tapped
<1>6. ASSUME NEW v \in Workers, At(v, "act")', Tapped(v)'.kind \in {"confirm", "custom"}
      PROVE  memory'[v] = session'
  BY <1>5, <1>6 DEF At
<1>7. ASSUME NEW v \in Workers, At(v, "flush")'
      PROVE  proc'[v].old = session' /\ Follows(txs', session', memory'[v], Tapped(v)')
  <2>1. v = w /\ proc'[v] = q /\ Tapped(v)' = taps'[q.n]
    BY <1>5, <1>7
  <2>2. q.pc = "flush"
    BY <1>7, <2>1 DEF At
  <2>3. q.old = session' /\ Follows(txs, session', memory'[w], taps'[q.n])
    BY <2>2
  <2>4. Follows(txs', session', memory'[w], taps'[q.n])
    BY <1>3, <2>3, SameRows
  <2> QED
    BY <2>1, <2>3, <2>4
<1> QED
  BY <1>2, <1>4, <1>6, <1>7

LEMMA BeginShows ==
  ASSUME TypeInv, ShowInv, NEW w \in Workers, NEW n \in 1..MaxTaps, NEW tap \in Tap,
         Begin(w, n, tap), UNCHANGED <<session, txs, shown>>
  PROVE  ShowInv'
<1> DEFINE old == Loaded(w)
           m == IF ~Loads(tap) THEN memory[w] ELSE IF Resolved(tap, txs) THEN old ELSE Edited(old, tap)
           q == IF Acts(tap, old) THEN [pc |-> "act", n |-> n, txs |-> txs]
                ELSE IF Loads(tap) THEN [pc |-> "flush", n |-> n, old |-> old]
                ELSE [pc |-> "complete", n |-> n]
<1>1. /\ taps' = [taps EXCEPT ![n] = tap]
      /\ memory' = [memory EXCEPT ![w] = m]
      /\ proc' = [proc EXCEPT ![w] = q]
  BY DEF Begin
<1>2. ASSUME steady'
      PROVE  /\ steady /\ \A v \in Workers : ~Handles(v)
             /\ Loads(tap) => old = session
  <2>1. steady /\ (\A v \in Workers : proc[v] = Idle) /\ (Loads(tap) /\ session = None => memory[w] = None)
    BY <1>2, Zenon DEF Begin
  <2> QED
    BY <2>1 DEF Handles, Idle, Loaded
<1>3. old \in PendingSplits \cup {None}
  BY LoadedType
<1>4. Follows(txs, old, Edited(old, tap), tap) /\ Follows(txs, old, old, tap)
  BY <1>3, EditedFollows DEF Follows
<1>5. Acts(tap, old) /\ tap.kind \in {"confirm", "custom"} => Loads(tap) /\ m = old
  BY ConfirmsLoaded
<1>6. Loads(tap) => m = old \/ m = Edited(old, tap)
  OBVIOUS
<1>7. q.n = n
  OBVIOUS
<1>8. q.pc = "act" => Acts(tap, old)
  OBVIOUS
<1>9. q.pc = "flush" => Loads(tap) /\ q.old = old
  OBVIOUS
<1> HIDE DEF m, old, q
<1>10. taps'[n] = tap /\ memory'[w] = m
  BY <1>1 DEF TypeInv, DeliveryOK, SplitOK
<1>11. steady' => Shows(txs, shown', session')
  BY <1>2 DEF ShowInv
<1>12. steady' /\ q.pc = "act" /\ taps'[q.n].kind \in {"confirm", "custom"} => memory'[w] = session'
  BY <1>2, <1>5, <1>7, <1>8, <1>10
<1>13. steady' /\ q.pc = "flush" => /\ q.old = session'
                                    /\ Follows(txs, session', memory'[w], taps'[q.n])
  BY <1>2, <1>4, <1>6, <1>7, <1>9, <1>10
<1>14. SameAmounts /\ ShownOK' /\ session' \in PendingSplits \cup {None}
  BY DEF SameAmounts, ShowInv, ShownOK, TypeInv, SplitOK
<1>15. steady' => \A v \in Workers \ {w} : ~Handles(v)
  BY <1>2
<1> QED
  BY <1>1, <1>11, <1>12, <1>13, <1>14, <1>15, ShowsAgain

LEMMA TakeShows ==
  ASSUME TypeInv, ShowInv, NEW w \in Workers, NEW n \in 1..MaxTaps, Take(w, n)
  PROVE  ShowInv'
<1>1. UNCHANGED <<session, txs, shown>>
  BY DEF Take
<1>2. CASE \E tap \in IF taps[n] = None THEN Tap ELSE {taps[n]} : Begin(w, n, tap)
  <2>1. PICK tap \in IF taps[n] = None THEN Tap ELSE {taps[n]} : Begin(w, n, tap)
    BY <1>2
  <2>2. tap \in Tap
    BY <2>1 DEF TypeInv, DeliveryOK
  <2> QED
    BY <1>1, <2>1, <2>2, BeginShows
<1>3. CASE proc' = [proc EXCEPT ![w] = [pc |-> "ack", n |-> n]] /\ UNCHANGED <<taps, memory, steady>>
  <2>1. \A v \in Workers : proc'[v] = IF v = w THEN [pc |-> "ack", n |-> n] ELSE proc[v]
    BY <1>3 DEF TypeInv, ProcsOK
  <2>2. \A v \in Workers : Untouched(v) \/ ~Handles(v)'
    BY <1>3, <2>1 DEF Untouched, Handles
  <2> QED
    BY <1>1, <1>3, <2>2, StillShows DEF SameAmounts
<1> QED
  BY <1>2, <1>3 DEF Take

\* A worker that ends or goes on without the pending split.
LEMMA EndsShows ==
  ASSUME TypeInv, ShowInv, SameAmounts, NEW w \in Workers, NEW q, proc' = [proc EXCEPT ![w] = q],
         \/ q.pc \in {"idle", "ack"} \/ (q.pc \in {"clear", "complete"} /\ Handles(w)),
         steady' => steady, UNCHANGED <<shown, session>>,
         \A v \in Workers \ {w} : memory'[v] = memory[v],
         \A v \in Workers \ {w} : Handles(v) => taps'[proc[v].n] = taps[proc[v].n]
  PROVE  ShowInv'
<1>1. \A v \in Workers : proc'[v] = IF v = w THEN q ELSE proc[v]
  <2>1. proc = [v \in Workers |-> proc[v]]
    BY DEF TypeInv, ProcsOK
  <2> QED
    BY <2>1
<1>2. \A v \in Workers : \/ Untouched(v)
                         \/ ~Handles(v)'
                         \/ Handles(v) /\ proc'[v].pc \in {"clear", "complete"}
  BY <1>1 DEF Untouched, Handles
<1> QED
  BY <1>2, StillShows

LEMMA SplitShows ==
  ASSUME TypeInv, ShowInv, NEW w \in Workers, Split(w)
  PROVE  ShowInv'
<1> DEFINE new == Pending(Tapped(w).tx, "target")
           q == [pc |-> "flush", n |-> proc[w].n, old |-> new]
<1>1. /\ At(w, "act") /\ Handles(w) /\ session' = new /\ memory' = [memory EXCEPT ![w] = new]
      /\ Tapped(w).kind = "split" /\ shown' = Unseen /\ UNCHANGED <<txs, steady>>
      /\ proc' = [proc EXCEPT ![w] = q]
  BY DEF Split, At, Handles, Flushes
<1>2. new \in PendingSplits /\ new.chosen = <<>>
  BY <1>1, ActingTap, PendingType DEF Modes
<1> HIDE DEF new
<1>3. q.pc = "flush" /\ q.old = new
  OBVIOUS
<1> HIDE DEF q
<1>4. ShownOK' /\ Shows(txs, shown', session')
  <2>1. Unseen \in [equal : {<<>>}, custom : {None}]
    BY DEF Unseen
  <2>2. Unseen.equal = <<>> /\ Unseen.custom = None
    BY DEF Unseen
  <2> QED
    BY <1>1, <1>2, <2>1, <2>2 DEF ShownOK, Shows
<1>5. memory'[w] = new
  BY <1>1 DEF TypeInv, SplitOK
<1>6. q.old = session' /\ Follows(txs, session', memory'[w], taps'[q.n])
  BY <1>1, <1>3, <1>5 DEF Follows
<1>7. steady' => \A v \in Workers \ {w} : ~Handles(v)
  BY <1>1 DEF ShowInv
<1>8. SameAmounts /\ session' \in PendingSplits \cup {None}
  BY <1>1, <1>2 DEF SameAmounts
<1> QED
  BY <1>1, <1>3, <1>4, <1>6, <1>7, <1>8, ShowsAgain

LEMMA RefuseShows ==
  ASSUME TypeInv, ShowInv, NEW w \in Workers, Refuse(w)
  PROVE  ShowInv'
<1>1. /\ At(w, "act") /\ Handles(w) /\ Tapped(w).kind \in {"confirm", "custom"}
      /\ UNCHANGED <<taps, txs, shown>>
  BY DEF Refuse, At, Handles
<1>2. SameAmounts /\ ShownOK'
  BY <1>1 DEF SameAmounts, ShowInv, ShownOK
<1>3. CASE Ends(w, "clear") /\ UNCHANGED <<session, memory, steady>>
  <2> DEFINE q == [pc |-> "clear", n |-> proc[w].n]
  <2>1. proc' = [proc EXCEPT ![w] = q] /\ q.pc \in {"clear", "complete"}
    BY <1>3 DEF Ends
  <2> HIDE DEF q
  <2> QED
    BY <1>1, <1>2, <1>3, <2>1, EndsShows
<1>4. CASE steady' = FALSE
  BY <1>2, <1>4 DEF ShowInv
<1>5. CASE session' = memory[w] /\ Flushes(w, memory[w]) /\ UNCHANGED <<memory, steady>>
  <2> DEFINE q == [pc |-> "flush", n |-> proc[w].n, old |-> memory[w]]
  <2>1. proc' = [proc EXCEPT ![w] = q] /\ q.pc = "flush" /\ q.old = memory[w]
    BY <1>5 DEF Flushes
  <2> HIDE DEF q
  <2>2. memory[w] \in PendingSplits
    BY <1>1, ActingTap
  <2>3. steady => memory[w] = session /\ Shows(txs, shown, session)
    BY <1>1 DEF ShowInv
  <2>4. steady' => \A v \in Workers \ {w} : ~Handles(v)
    BY <1>1, <1>5 DEF ShowInv
  <2>5. q.old = session' /\ Follows(txs, session', memory'[w], taps'[q.n])
    BY <1>5, <2>1 DEF Follows
  <2>6. steady' => Shows(txs, shown', session')
    BY <1>1, <1>5, <2>3
  <2>7. session' \in PendingSplits \cup {None}
    BY <1>5, <2>2
  <2> QED
    BY <1>2, <2>1, <2>4, <2>5, <2>6, <2>7, ShowsAgain
<1> QED
  BY <1>3, <1>4, <1>5 DEF Refuse

LEMMA ClearShows ==
  ASSUME TypeInv, ShowInv, NEW w \in Workers, Clear(w)
  PROVE  ShowInv'
<1> DEFINE q == [pc |-> "complete", n |-> proc[w].n]
<1>1. /\ Handles(w) /\ session' = None /\ shown' = Unseen /\ UNCHANGED <<txs, steady>>
      /\ proc' = [proc EXCEPT ![w] = q] /\ q.pc = "complete"
  BY DEF Clear, At, Handles, Ends
<1> HIDE DEF q
<1>2. ShownOK'
  <2>1. Unseen \in [equal : {<<>>}, custom : {None}]
    BY DEF Unseen
  <2> QED
    BY <1>1, <2>1 DEF ShownOK
<1>3. Shows(txs, shown', session') /\ SameAmounts
  BY <1>1 DEF Shows, SameAmounts
<1>4. steady' => \A v \in Workers \ {w} : ~Handles(v)
  BY <1>1 DEF ShowInv
<1> QED
  BY <1>1, <1>2, <1>3, <1>4, ShowsAgain

LEMMA DisplayedOK ==
  ASSUME ShownOK, NEW old, NEW new, NEW tap
  PROVE  \E e, c : Displayed(old, new, tap) \in [equal : e, custom : c]
<1> DEFINE x == Displayed(old, new, tap)
<1>1. PICK e, c : shown \in [equal : e, custom : c]
  BY DEF ShownOK
<1>2. \/ x = Unseen \/ x = shown \/ x = [shown EXCEPT !.equal = new.chosen]
      \/ x = [shown EXCEPT !.custom = IF new.mode = "preview" THEN Preview(new) ELSE None]
  BY DEF Displayed
<1> HIDE DEF x
<1>3. Unseen \in [equal : {<<>>}, custom : {None}]
  BY DEF Unseen
<1>4. [shown EXCEPT !.equal = new.chosen] \in [equal : {new.chosen}, custom : c]
  BY <1>1
<1>5. ASSUME NEW d PROVE [shown EXCEPT !.custom = d] \in [equal : e, custom : {d}]
  BY <1>1
<1>6. \E e1, c1 : x \in [equal : e1, custom : c1]
  BY <1>1, <1>2, <1>3, <1>4, <1>5
<1> QED
  BY <1>6 DEF x

LEMMA FlushKeeps ==
  ASSUME TypeInv, ShowInv, NEW w \in Workers, Flush(w)
  PROVE  ShowInv'
<1> DEFINE q == [pc |-> "complete", n |-> proc[w].n]
           old == proc[w].old
           new == memory[w]
           tap == Tapped(w)
<1>1. /\ Handles(w) /\ At(w, "flush") /\ UNCHANGED <<txs, steady>>
      /\ proc' = [proc EXCEPT ![w] = q] /\ q.pc = "complete"
      /\ session' = IF new = None THEN session ELSE new
      /\ IF new = old THEN shown' = shown ELSE shown' = Displayed(old, new, tap)
  BY DEF Flush, At, Handles, Ends
<1>2. old \in PendingSplits \cup {None} /\ new \in PendingSplits \cup {None}
  BY <1>1 DEF TypeInv, ProcsOK, ProcOK, SplitOK
<1>3. steady => old = session /\ Follows(txs, old, new, tap) /\ Shows(txs, shown, old)
  BY <1>1 DEF ShowInv
<1> HIDE DEF q, old, new, tap
<1>4. ShownOK /\ RowsOK(txs)
  BY DEF ShowInv, TypeInv
<1>5. ShownOK'
  BY <1>1, <1>4, DisplayedOK DEF ShownOK
<1>6. ASSUME steady PROVE Shows(txs, shown', session')
  <2>1. CASE new = old
    <3>1. session' = old
      BY <1>1, <1>3, <1>6, <2>1
    <3> QED
      BY <1>1, <1>3, <1>6, <2>1, <3>1
  <2>2. CASE new # old
    <3>1. new # None /\ Shows(txs, Displayed(old, new, tap), new)
      BY <1>2, <1>3, <1>4, <1>6, <2>2, FlushShows
    <3> QED
      BY <1>1, <2>2, <3>1
  <2> QED
    BY <2>1, <2>2
<1>7. steady' => \A v \in Workers \ {w} : ~Handles(v)
  BY <1>1 DEF ShowInv
<1>8. session' \in PendingSplits \cup {None} /\ SameAmounts
  BY <1>1, <1>2 DEF SameAmounts, TypeInv, SplitOK
<1>9. steady' => Shows(txs, shown', session')
  BY <1>1, <1>6
<1> QED
  BY <1>1, <1>5, <1>7, <1>8, <1>9, ShowsAgain

LEMMA StepShows ==
  ASSUME TypeInv, ShowInv, Next
  PROVE  ShowInv'
<1>1. ASSUME NEW n \in 1..MaxTaps,
             Deliver(n) \/ Queue(n) \/ WebDies(n) \/ Redeliver(n) \/ LeaseExpires(n)
      PROVE  ShowInv'
  <2>1. UNCHANGED <<taps, session, memory, txs, proc, shown, posts, muted, steady>>
    BY <1>1, WebType
  <2>2. SameAmounts /\ \A w \in Workers : Untouched(w)
    BY <2>1 DEF SameAmounts, Untouched
  <2> QED
    BY <2>1, <2>2, StillShows
<1>2. ASSUME NEW t \in Txs, BankSettles(t) \/ Execute(t) PROVE ShowInv'
  <2>1. SameAmounts /\ UNCHANGED <<taps, session, memory, proc, shown, posts, muted, steady>>
    BY <1>2, RowType
  <2>2. \A w \in Workers : Untouched(w)
    BY <2>1 DEF Untouched
  <2> QED
    BY <2>1, <2>2, StillShows
<1>3. ASSUME NEW w \in Workers, NEW pc \in {"clear", "complete", "ack"}, Ends(w, pc), Handles(w),
             SameAmounts, UNCHANGED <<session, memory, taps, shown, steady>>
      PROVE  ShowInv'
  <2> DEFINE q == [pc |-> pc, n |-> proc[w].n]
  <2>1. proc' = [proc EXCEPT ![w] = q] /\ q.pc = pc
    BY <1>3 DEF Ends
  <2> HIDE DEF q
  <2>2. q.pc \in {"idle", "ack"} \/ (q.pc \in {"clear", "complete"} /\ Handles(w))
    BY <1>3, <2>1
  <2> QED
    BY <1>3, <2>1, <2>2, EndsShows
<1>4. ASSUME NEW w \in Workers, Step(w) \/ Fail(w) \/ Die(w) PROVE ShowInv'
  <2>1. CASE Confirm(w)
    <3>1. SameAmounts
      BY <2>1, ConfirmType
    <3>2. Ends(w, "clear") /\ Handles(w) /\ UNCHANGED <<session, memory, taps, shown, steady>>
      BY <2>1 DEF Confirm, At, Handles
    <3> QED
      BY <1>3, <3>1, <3>2
  <2>2. CASE Settle(w)
    <3>1. SameAmounts
      BY <2>2, SettleType
    <3>2. Ends(w, "clear") /\ Handles(w) /\ UNCHANGED <<session, memory, taps, shown, steady>>
      BY <2>2 DEF Settle, At, Handles
    <3> QED
      BY <1>3, <3>1, <3>2
  <2>3. CASE CannotUndo(w)
    <3>1. /\ Ends(w, "complete") /\ Handles(w)
          /\ UNCHANGED <<session, memory, taps, shown, steady, txs>>
      BY <2>3 DEF CannotUndo, At, Handles, history
    <3> QED
      BY <1>3, <3>1 DEF SameAmounts
  <2>4. CASE Complete(w)
    <3>1. /\ Ends(w, "ack") /\ Handles(w)
          /\ UNCHANGED <<session, memory, taps, shown, steady, txs>>
      BY <2>4 DEF Complete, At, Handles, history
    <3> QED
      BY <1>3, <3>1 DEF SameAmounts
  <2>5. CASE Ack(w)
    <3>1. /\ At(w, "ack") /\ proc' = [proc EXCEPT ![w] = Idle]
          /\ UNCHANGED <<session, memory, shown, steady, txs>>
          /\ IF \E v \in Workers \ {w} : proc[v] # Idle /\ proc[v].n = proc[w].n
             THEN taps' = taps
             ELSE taps' = [taps EXCEPT ![proc[w].n] = None]
      BY <2>5 DEF Ack
    <3>2. ASSUME NEW v \in Workers \ {w}, Handles(v) PROVE taps'[proc[v].n] = taps[proc[v].n]
      <4>1. proc[v] # Idle /\ proc[v].n \in 1..MaxTaps
        BY <3>2, ActingTap DEF Idle
      <4>2. CASE proc[v].n = proc[w].n
        BY <3>1, <4>1, <4>2
      <4>3. CASE proc[v].n # proc[w].n
        BY <3>1, <4>1, <4>3 DEF TypeInv, DeliveryOK
      <4> QED
        BY <4>2, <4>3
    <3>3. Idle.pc = "idle" /\ SameAmounts
      BY <3>1 DEF Idle, SameAmounts
    <3> QED
      BY <3>1, <3>2, <3>3, EndsShows
  <2>6. CASE Fail(w) \/ Die(w)
    <3>1. steady' = FALSE /\ shown' = shown
      BY <2>6 DEF Fail, Die
    <3> QED
      BY <3>1 DEF ShowInv, ShownOK
  <2> QED
    BY <1>4, <2>1, <2>2, <2>3, <2>4, <2>5, <2>6, SplitShows, RefuseShows, ClearShows, FlushKeeps DEF Step
<1> QED
  BY <1>1, <1>2, <1>4, TakeShows DEF Next

\* What a steady confirmation posts.
LEMMA ConfirmShown ==
  ASSUME TypeInv, ShowInv, NEW w \in Workers, At(w, "act"), Tapped(w).kind \in {"confirm", "custom"},
         Shares(w) # Refused, steady
  PROVE  IF Tapped(w).kind = "custom" THEN shown.custom \in {None, Shares(w)}
         ELSE Users(Shares(w)) = <<Me>> \o shown.equal
<1> DEFINE s == memory[w]
           row == proc[w].txs[s.tx]
<1>1. s \in PendingSplits /\ s # None /\ s.tx \in Txs
  BY ActingTap DEF At, Handles
<1>2. Shows(txs, shown, s)
  BY DEF ShowInv
<1>3. row.amount = txs[s.tx].amount /\ row.amount \in Nat
  <2>1. ProcOK(w) /\ RowsOK(txs)
    BY DEF TypeInv, ProcsOK
  <2>2. row.amount = txs[s.tx].amount /\ RowOK(txs[s.tx])
    BY <1>1, <2>1 DEF ProcOK, RowsOK
  <2>3. txs[s.tx].amount \in Amounts
    BY <2>2 DEF RowOK
  <2> QED
    BY <2>2, <2>3, TelegramConstants
<1>4. s.chosen \in Selection /\ s.payer \in BOOLEAN
  BY <1>1 DEF PendingSplits
<1>5. CASE Tapped(w).kind = "confirm"
  <2>1. Shares(w) = EqualShares(row.amount, Me, s.chosen)
    BY <1>5 DEF Shares
  <2>2. shown.equal = s.chosen
    BY <1>1, <1>2 DEF Shows
  <2> HIDE DEF s, row
  <2>3. Users(Shares(w)) = <<Me>> \o s.chosen
    BY <1>3, <1>4, <2>1, EqualSharesSound
  <2> QED
    BY <1>5, <2>2, <2>3
<1>6. CASE Tapped(w).kind = "custom"
  <2>1. Shares(w) = CustomSplit[row.amount][s.payer][s.customValue][s.custom]
    BY <1>6 DEF Shares
  <2> HIDE DEF s, row
  <2>2. shown.custom # None => Shares(w) \in {Refused, shown.custom}
    BY <1>1, <1>2, <1>3, <1>4, <2>1 DEF Shows
  <2> QED
    BY <1>6, <2>2
<1> QED
  BY <1>5, <1>6

LEMMA StepPosts ==
  ASSUME TypeInv, ShowInv, PostsWhatIsShown, Next
  PROVE  PostsWhatIsShown'
<1>1. ASSUME posts' = posts PROVE PostsWhatIsShown'
  BY <1>1 DEF PostsWhatIsShown
<1>2. ASSUME NEW n \in 1..MaxTaps,
             Deliver(n) \/ Queue(n) \/ WebDies(n) \/ Redeliver(n) \/ LeaseExpires(n)
      PROVE  PostsWhatIsShown'
  BY <1>1, <1>2, WebType
<1>3. ASSUME NEW t \in Txs, BankSettles(t) \/ Execute(t) PROVE PostsWhatIsShown'
  BY <1>1, <1>3, RowType
<1>4. ASSUME NEW w \in Workers, NEW n \in 1..MaxTaps, Take(w, n) PROVE PostsWhatIsShown'
  BY <1>1, <1>4 DEF Take
<1>5. ASSUME NEW w \in Workers, Step(w) \/ Fail(w) \/ Die(w) PROVE PostsWhatIsShown'
  <2>1. CASE Split(w) \/ Refuse(w) \/ Settle(w) \/ CannotUndo(w) \/ Clear(w) \/ Flush(w) \/ Complete(w)
             \/ Ack(w) \/ Fail(w) \/ Die(w)
    <3>1. posts' = posts
      BY <2>1 DEF Split, Refuse, Settle, CannotUndo, Clear, Flush, Complete, Ack, Fail, Die, history
    <3> QED
      BY <1>1, <3>1
  <2>2. CASE Confirm(w)
    <3>1. At(w, "act") /\ Tapped(w).kind \in {"confirm", "custom"}
      BY <2>2 DEF Confirm
    <3>2. CASE posts' = posts
      BY <1>1, <3>2
    <3>3. CASE posts' # posts
      <4> DEFINE new == [tx |-> Tapped(w).tx, kind |-> Tapped(w).kind, split |-> Shares(w),
                         saw |-> IF steady THEN shown ELSE None]
      <4>1. Shares(w) # Refused /\ posts' = posts \cup {new}
        BY <2>2, <3>3 DEF Confirm
      <4>2. new.saw # None => IF new.kind = "custom" THEN new.saw.custom \in {None, new.split}
                              ELSE Users(new.split) = <<Me>> \o new.saw.equal
        BY <3>1, <4>1, ConfirmShown
      <4> HIDE DEF new
      <4> QED
        BY <4>1, <4>2 DEF PostsWhatIsShown
    <3> QED
      BY <3>2, <3>3
  <2> QED
    BY <1>5, <2>1, <2>2 DEF Step
<1> QED
  BY <1>2, <1>3, <1>4, <1>5 DEF Next

\* Only a preview has a custom split, of numbers of shares, before anything is tapped.
LEMMA FirstPreviews ==
  ASSUME NEW t \in Txs, NEW c \in Cents,
         NEW s \in {Selecting(t), [Selecting(t) EXCEPT !.mode = "summary"],
                    [Selecting(t) EXCEPT !.mode = "values", !.value = "shares"], Previewed(t, c)}
  PROVE  s.mode = "preview" => s.customValue = "shares"
<1> DEFINE p == Selecting(t)
<1>1. p \in PendingSplits /\ p.mode = "select"
  <2>1. p \in PendingSplits
    BY FirstSplits
  <2>2. p.mode = "select"
    <3> DEFINE r == Pending(t, "select")
    <3>1. r \in PendingSplits /\ r.mode = "select"
      BY PendingType DEF Modes, Pending
    <3>2. p = [r EXCEPT !.target = "people", !.chosen = <<CHOOSE f \in Friends : TRUE>>]
      BY DEF Selecting
    <3> HIDE DEF r, p
    <3> QED
      BY <3>1, <3>2 DEF PendingSplits
  <2> QED
    BY <2>1, <2>2
<1> HIDE DEF p
<1>2. [p EXCEPT !.mode = "summary"].mode = "summary"
  BY <1>1 DEF PendingSplits
<1>3. [p EXCEPT !.mode = "values", !.value = "shares"].mode = "values"
  BY <1>1 DEF PendingSplits
<1>4. Previewed(t, c).customValue = "shares"
  BY <1>1 DEF Previewed, PendingSplits, p
<1> QED
  BY <1>1, <1>2, <1>3, <1>4 DEF p

LEMMA InitShows == Init => ShowInv
<1> SUFFICES ASSUME Init PROVE ShowInv
  OBVIOUS
<1>1. /\ TypeInv /\ \A w \in Workers : proc[w] = Idle
      /\ shown = IF session = None THEN Unseen
                 ELSE [equal |-> session.chosen,
                       custom |-> IF session.mode = "preview" THEN Preview(session) ELSE None]
      /\ session # None /\ session.mode = "preview" => Preview(session) # Refused
  BY InitType DEF Init
<1>2. \A w \in Workers : ~Handles(w) /\ ~At(w, "act") /\ ~At(w, "flush")
  BY <1>1 DEF Handles, At, Idle
<1>3. ShownOK
  <2>1. Unseen \in [equal : {<<>>}, custom : {None}]
    BY DEF Unseen
  <2>2. CASE session = None
    BY <1>1, <2>1, <2>2 DEF ShownOK
  <2>3. CASE session # None
    <3> DEFINE c == IF session.mode = "preview" THEN Preview(session) ELSE None
               e == session.chosen
    <3>1. shown = [equal |-> e, custom |-> c]
      BY <1>1, <2>3
    <3> HIDE DEF c, e
    <3>2. shown \in [equal : {e}, custom : {c}]
      BY <3>1
    <3> QED
      BY <3>2 DEF ShownOK
  <2> QED
    BY <2>2, <2>3
<1>4. session \in PendingSplits \cup {None} /\ RowsOK(txs)
  BY <1>1 DEF TypeInv, SplitOK
<1>5. session # None /\ session.mode = "preview" => session.customValue = "shares"
  <2>1. PICK t \in Txs, c \in Cents :
          session \in {None, Selecting(t), [Selecting(t) EXCEPT !.mode = "summary"],
                       [Selecting(t) EXCEPT !.mode = "values", !.value = "shares"],
                       Previewed(t, c)}
    BY DEF Init
  <2> QED
    BY <2>1, FirstPreviews
<1>6. Shows(txs, shown, session)
  <2>1. CASE session = None
    BY <2>1 DEF Shows
  <2>2. CASE session # None
    <3> DEFINE a == txs[session.tx].amount
    <3>1. session \in PendingSplits
      BY <1>4, <2>2
    <3>2. a \in Amounts /\ session.payer \in BOOLEAN /\ session.custom \in Inputs
      BY <1>4, <3>1 DEF RowsOK, RowOK, PendingSplits
    <3>3. shown.equal = session.chosen
          /\ shown.custom = IF session.mode = "preview" THEN Preview(session) ELSE None
      BY <1>1, <2>2
    <3> HIDE DEF a
    <3>4. ASSUME shown.custom # None, NEW b \in BOOLEAN
          PROVE  CustomSplit[a][b][session.customValue][session.custom] \in {Refused, shown.custom}
      <4>1. session.mode = "preview" /\ session.customValue = "shares"
        BY <1>5, <2>2, <3>3, <3>4
      <4>2. shown.custom = CustomSplit[a][session.payer][session.customValue][session.custom]
            /\ shown.custom # Refused
        BY <1>1, <2>2, <3>3, <4>1 DEF Preview, a
      <4> DEFINE values == session.custom
                 included == session.payer
      <4>3. /\ values \in Inputs /\ included \in BOOLEAN
            /\ CustomSplit[a][included]["shares"][values] # Refused
        BY <3>2, <4>1, <4>2
      <4> HIDE DEF values, included
      <4>4. CustomSplit[a][b]["shares"][values] \in {Refused, CustomSplit[a][included]["shares"][values]}
        BY <3>2, <3>4, <4>3, SameSplit
      <4> QED
        BY <4>1, <4>2, <4>4 DEF values, included
    <3> QED
      BY <3>3, <3>4 DEF Shows, a
  <2> QED
    BY <2>1, <2>2
<1> QED
  BY <1>2, <1>3, <1>6 DEF ShowInv

LEMMA StutterShows == TypeInv /\ ShowInv /\ UNCHANGED vars => ShowInv'
<1> SUFFICES ASSUME TypeInv, ShowInv, UNCHANGED vars PROVE ShowInv'
  OBVIOUS
<1>1. SameAmounts /\ steady' = steady /\ UNCHANGED <<shown, session>>
  BY DEF vars, history, SameAmounts
<1>2. \A w \in Workers : Untouched(w)
  BY DEF vars, Untouched
<1> QED
  BY <1>1, <1>2, StillShows

\* A tap on a confirmation posts what the user was shown for it, for any friends,
\* amounts and numbers of taps and workers: as long as handlers do not overlap, what is
\* shown is the split of the database, and a worker that confirms has loaded that one.
\* Including the payer or not makes no difference to a split that was shown, because its
\* shares add up only one way.
THEOREM ShownIsPosted == Spec => []PostsWhatIsShown
<1>1. Init => ShowInv /\ PostsWhatIsShown
  BY InitShows, InitType DEF PostsWhatIsShown
<1>2. TypeInv /\ ShowInv /\ PostsWhatIsShown /\ [Next]_vars => ShowInv' /\ PostsWhatIsShown'
  <2>1. PostsWhatIsShown /\ UNCHANGED vars => PostsWhatIsShown'
    BY DEF PostsWhatIsShown, vars, history
  <2> QED
    BY <2>1, StutterShows, StepShows, StepPosts
<1> QED
  BY <1>1, <1>2, TypeInvAlways, PTL DEF Spec

=============================================================================
