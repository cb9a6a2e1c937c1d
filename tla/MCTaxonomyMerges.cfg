SPECIFICATION Spec
CONSTANTS
  Names = {n1, n2}
  Subs = {s1, s2}
  Txs = {t1, t2}
  Procs = {p1, p2}
  MaxRequests = 3
  None = None
SYMMETRY Alike
CHECK_DEADLOCK FALSE
INVARIANT MergesEnd
