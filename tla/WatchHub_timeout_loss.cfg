SPECIFICATION Spec
CONSTANTS
  k1 = k1
  k2 = k2
  v1 = v1
  Keys = {k1, k2}
  Values = {e, v1}
  EmptyStr = e
  Watchers = {w1}
  Cmds <- OnePut
  Froms = {1}
  Filters <- AnyKey
  KeepVersions = 10
  MaxWatchEvents = 2
  RevisionBound = 2
INVARIANTS EmptyLosesNothing
