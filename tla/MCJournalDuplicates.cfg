SPECIFICATION Spec
CONSTANTS
  Requests = {r1}
  Workers = {w1}
  Ids = {i1, i2, i3}
  MaxGen = 2
  Amounts = {10}
  Kinds = {"post", "undo", "retry"}
  MaxRequests = 4
  MaxTries = 2
  MaxCrashes = 0
  MaxOverruns = 0
  Production = TRUE
  LateErrors = FALSE
  None = None
CHECK_DEADLOCK FALSE
INVARIANT AtMostOneLiveExpense
