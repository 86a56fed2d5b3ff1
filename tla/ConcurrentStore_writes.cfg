SPECIFICATION Spec
CONSTANTS
  k1 = k1
  k2 = k2
  v1 = v1
  v2 = v2
  Keys = {k1, k2}
  Values = {e, v1, v2}
  EmptyStr = e
  Writers = {w1, w2}
  Readers = {}
  Cmds <- AllCmds
  Filters <- AnyKey
  KeepVersions = 1
  MaxEvents = 2
  RevisionBound = 4
  NoWriter = none
INVARIANTS TypeOK RevisionsDense MainIsLatest NewestRetained SnapshotConsistent
           PublishedReadable
PROPERTIES CasAtomic KeepsVersions
