SPECIFICATION FairSpec
CONSTANTS
  Jobs = {j1, j2}
  Callers = {a1}
  Kinds = {"promotions", "receipts"}
  MaxMail = 3
  Limit = 1
  MaxTrouble = 1
  None = None
CHECK_DEADLOCK FALSE
INVARIANT OneRun
INVARIANT NothingIsSkipped
PROPERTY MailIsRead
