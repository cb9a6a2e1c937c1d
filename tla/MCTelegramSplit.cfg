SPECIFICATION FairSpec
CONSTANTS
  Txs = {t1}
  Friends = {f1, f2}
  Me = me
  Amounts = {10}
  Cents = {5}
  Buttons = {"split", "shares", "payer", "toggle", "done", "values", "confirm", "custom", "cancel", "personal", "undo"}
  Workers = {w1, w2}
  MaxTaps = 2
  MaxTrouble = 1
  None = None
CHECK_DEADLOCK FALSE
INVARIANT TypeOK
 
INVARIANT SharesAddUp
 
PROPERTY TapsAreHandled
