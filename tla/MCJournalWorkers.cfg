SPECIFICATION EitherSpec
CONSTANTS
  w1 = w1
  i1 = i1
  i2 = i2
  Requests = {r1}
  Workers = {w1, w2}
  Ids = {i1, i2, i3}
  MaxGen = 2
  Amounts = {10}
  Kinds = {"post", "draft", "personal", "undo", "replay"}
  MaxRequests = 6
  MaxTries = 2
  MaxCrashes = 0
  MaxOverruns = 0
  Production = TRUE
  LateErrors = TRUE
  None = None
CHECK_DEADLOCK FALSE
INVARIANT PostedIsBacked
PROPERTY ForgottenOnlyWhenDeleted
PROPERTY SettledThoughDying
