SPECIFICATION FairSpec
CONSTANTS
  Peers = {s, p}
  Self = s
  InitialConf = {s}
  Callers = {c1}
  Invalid = bad
  ElectionBound = 1
  Handlers = {h1}
INVARIANTS TypeOK UsesLiveObjects
PROPERTIES ShutdownCompletes
CHECK_DEADLOCK FALSE
