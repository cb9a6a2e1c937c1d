SPECIFICATION FairSpec
CONSTANTS
  t1 = t1
  t2 = t2
  Txs = {t1, t2}
  Alike <- AllAlike
  Workers = {w1}
  Callers = {a1}
  Modes = {"production", "development"}
  MaxFeed = 2
  PageSize = 2
  MaxTrouble = 1
  None = None
CHECK_DEADLOCK FALSE
INVARIANT RowsKeepUp
INVARIANT ReplacedIsGone
INVARIANT ProcessedIsRead
INVARIANT ToldOnce
PROPERTY UpdatesAreRead
PROPERTY SettledIsTold
