SPECIFICATION FairSpec
CONSTANTS
  k1 = k1
  k2 = k2
  v1 = v1
  v2 = v2
  Keys = {k1, k2}
  Values = {e, v1, v2}
  EmptyStr = e
  Nodes = {n1, n2}
  Cmds <- PlainCmds
  KeepVersions = 1
  LogBound = 2
  RestartBound = 1
INVARIANTS TypeOK ExactUnlessReplayed
PROPERTIES KeepsPromise Converges
CHECK_DEADLOCK FALSE
