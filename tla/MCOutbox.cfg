SPECIFICATION OBFairSpec
CONSTANTS
  Events = {e1, e2}
  Workers = {w1, w2}
  Tokens = {1, 2, 3, 4, 5, 6, 7}
  NoToken = 0
  Scrubbed = {e1}
  MaxEvents = 2
  MaxAttempts = 2
  MaxFaults = 1
  LateWrites = FALSE
INVARIANTS
  PayloadKept
PROPERTIES
  LiveLeaseRespected
  PromiseKept
  EventuallySettled
CHECK_DEADLOCK FALSE
