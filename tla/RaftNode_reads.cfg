SPECIFICATION FairSpec
CONSTANTS
  k1 = k1
  v1 = v1
  v2 = v2
  Keys = {k1}
  Values = {e, v1, v2}
  EmptyStr = e
  Nodes = {n1, n2}
  Writers = {w1}
  Readers = {r1}
  Cmds <- OnePut
  ReadKeys = {k1}
  StoreMayFail = FALSE
  TermBound = 2
  NoOp = NoOp
INVARIANTS TypeOK ReadsLinearizable
CHECK_DEADLOCK FALSE
PROPERTY ApplyReturns
