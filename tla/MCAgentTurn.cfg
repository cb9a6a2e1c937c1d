SPECIFICATION Spec
CONSTANTS
  Requests = {r1, r2}
  Messages = {m1}
  MaxCalls = 2
  MaxTrouble = 1
CHECK_DEADLOCK FALSE
INVARIANT OneAnswer
 
INVARIANT CallsEndWithTheRun
PROPERTY TurnEnds
