SPECIFICATION EitherSpec
CONSTANTS
  r1 = r1
  r2 = r2
  i1 = i1
  i2 = i2
  Requests = {r1, r2}
  Workers = {w1}
  Ids = {i1, i2}
  MaxGen = 1
  Amounts = {10}
  Kinds = {"post", "draft", "mark_draft", "personal", "undo", "remove", "retry", "replay"}
  MaxRequests = 3
  MaxTries = 2
  MaxCrashes = 1
  MaxOverruns = 0
  Production = TRUE
  LateErrors = TRUE
  None = None
SYMMETRY RequestSymmetry
CHECK_DEADLOCK FALSE
INVARIANT OneExpensePerOperation
INVARIANT WrittenAhead
INVARIANT OneExecutes
