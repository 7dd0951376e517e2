SPECIFICATION MCSpec
CONSTANTS
  Workspaces = {w1, w2}
  Paths = {p1, p2}
  Values = {v1}
  ForkIds = {f1, f2}
  Proposals = {q1, q2}
  LegacyForks = {}
  Absent = Absent
  NoEntry = NoEntry
  NoFork = NoFork
  Committed = Committed
  Star = Star
  Live = Live
  Unknown = Unknown
  MaxRev = 3
  MaxOverlay = 2
  w1 = w1
  w2 = w2
  p1 = p1
  p2 = p2
  v1 = v1
  f1 = f1
  f2 = f2
  q1 = q1
  q2 = q2
INVARIANT ForkIndexesAgree
PROPERTIES CommitsOnlyOverSeen ImplementsTransactions ForksExpire
