SPECIFICATION Spec
CONSTANTS
  Deliveries = {d1, d2}
  Workers = {w1, w2}
  Users = {u1}
  Items = {i1, i2}
  Day = 2
  History = {0, 3}
  MaxRequests = 3
  MaxTrouble = 1
  None = None
SYMMETRY Symmetry
CHECK_DEADLOCK FALSE
INVARIANT OneParsed
INVARIANT IgnoredIsUnlearned
INVARIANT PurchasesAreBacked
