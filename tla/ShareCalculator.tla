--------------------------- MODULE ShareCalculator ---------------------------
(***************************************************************************)
(* app/services/share_calculator.py: how the cents of an expense are       *)
(* shared out.  A share is [user, owed]; the payer pays the whole amount,  *)
(* so paid_cents is left out.  A custom input is [user, value], where      *)
(* value is an amount in cents or a number of shares.  Refused stands for  *)
(* the ValueError.  Percentages are shares that add up to 100.             *)
(***************************************************************************)
EXTENDS Integers, Sequences, SequencesExt, Functions

Refused == <<>>

\* sum().
Total(s) == LET sum[i \in 0..Len(s)] == IF i = 0 THEN 0 ELSE sum[i - 1] + s[i] IN sum[Len(s)]

Column(rows, f(_)) == [i \in DOMAIN rows |-> f(rows[i])]
Owed(shares) == Column(shares, LAMBDA r : r.owed)
Values(inputs) == Column(inputs, LAMBDA r : r.value)
Users(rows) == Column(rows, LAMBDA r : r.user)

\* Mutant: the cents that are left over are dropped.
EqualOwedFloor(total, n) == [i \in 1..n |-> total \div n]

\* equal_owed_cents: the first ones get the cents that are left over.
EqualOwed(total, n) ==
  [i \in 1..n |-> total \div n + IF i <= total % n THEN 1 ELSE 0]

\* _allocate_by_weights: everyone gets the floor of the exact share, and the cents
\* left over go by the largest remainder, the earlier one first among equals.
AllocateByWeights(total, weights) ==
  LET all == Total(weights)
      floors == [i \in DOMAIN weights |-> (total * weights[i]) \div all]
      rest(i) == (total * weights[i]) % all
      ahead(i) == Cardinality({j \in DOMAIN weights :
                                 rest(j) > rest(i) \/ (rest(j) = rest(i) /\ j < i)})
  IN [i \in DOMAIN weights |->
        floors[i] + IF ahead(i) < total - Total(floors) THEN 1 ELSE 0]

\* The shares of a list of users who owe these amounts.
SharesOf(users, owed) == [i \in DOMAIN users |-> [user |-> users[i], owed |-> owed[i]]]

\* validate_shares.
Valid(total, shares) ==
  /\ \A i \in DOMAIN shares : shares[i].owed >= 0
  /\ IsInjective(Users(shares))
  /\ Total(Owed(shares)) = total

\* build_equal_split_shares, of participants that are listed once: the payer first,
\* unless among them.
EqualShares(total, payer, participants) ==
  LET users == IF payer \in ToSet(participants) THEN participants ELSE <<payer>> \o participants
  IN SharesOf(users, EqualOwed(total, Len(users)))

\* _owed_cents_by_user: an equal split includes the payer unless told not to, amounts
\* must add up, and numbers of shares must be positive.
OwedByUser(total, payer, included, mode, inputs) ==
  LET users == Users(inputs)
      everyone == IF included /\ payer \notin ToSet(users) THEN <<payer>> \o users ELSE users
      values == Values(inputs)
  IN IF mode = "equal" THEN SharesOf(everyone, EqualOwed(total, Len(everyone)))
     ELSE IF mode = "exact" /\ inputs # <<>> /\ Total(values) = total
     THEN SharesOf(users, values)
     ELSE IF mode = "shares" /\ inputs # <<>> /\ 0 \notin ToSet(values)
     THEN SharesOf(users, AllocateByWeights(total, values))
     ELSE Refused

\* build_custom_split_shares_by_mode and build_custom_split_shares: a payer who is
\* not included owes nothing, one who is included must be among the inputs.
CustomShares(total, payer, included, mode, inputs) ==
  LET owed == OwedByUser(total, payer, included, mode, inputs)
      listed == \E i \in DOMAIN owed : owed[i].user = payer
      shares == IF included THEN owed
                ELSE IF listed
                THEN [i \in DOMAIN owed |-> IF owed[i].user = payer
                                            THEN [owed[i] EXCEPT !.owed = 0] ELSE owed[i]]
                ELSE Append(owed, [user |-> payer, owed |-> 0])
  IN IF owed = Refused \/ (included /\ ~listed) \/ ~Valid(total, shares)
     THEN Refused ELSE shares
=============================================================================
