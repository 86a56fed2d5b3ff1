SPECIFICATION FairSpec
CONSTANTS
  k1 = k1
  k2 = k2
  v1 = v1
  Keys = {k1, k2}
  Values = {e, v1}
  EmptyStr = e
  Watchers = {w1}
  Cmds <- DeleteOrBatch
  Froms <- AnyFrom
  Filters <- AnyOrOneKey
  KeepVersions = 1
  MaxWatchEvents = 2
  RevisionBound = 4
INVARIANTS TypeOK ResponseExact OnlyInFlightRepeated NoLeakedWaiter
PROPERTIES WatchTerminates WokenByEvent
