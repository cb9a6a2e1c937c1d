SPECIFICATION FairSpec
CONSTANTS
  p1 = p1
  p2 = p2
  Proposals = {p1, p2}
  Tool <- OneOfEach
  Requests = {r1, r2}
  Edits = {"personal", "draft", "undo"}
  MaxEdits = 1
  MaxGen = 1
  MaxTries = 1
  MaxFaults = 1
  MaxCrashes = 1
  Owner = Owner
  None = None
CHECK_DEADLOCK FALSE
INVARIANT OneActor
INVARIANT ConsentFirst
INVARIANT OwnWorkIsCredited
PROPERTY VerdictIsFinal
PROPERTY FailsWhenUndone
PROPERTY ConfirmedIsSettled
