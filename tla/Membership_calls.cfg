SPECIFICATION MemberSpec
CONSTANTS
  Peers = {s, p, q}
  Self = s
  InitialConf = {s, p}
  Callers = {c1, c2}
  Invalid = bad
  ElectionBound = 2
INVARIANTS MemberTypeOK OkMeansCommitted OutcomeOutlivesCall
PROPERTY ConfChangeReturns
CHECK_DEADLOCK FALSE
