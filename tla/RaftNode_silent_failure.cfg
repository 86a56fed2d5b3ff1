SPECIFICATION Spec
CONSTANTS
  k1 = k1
  v1 = v1
  v2 = v2
  Keys = {k1}
  Values = {e, v1, v2}
  EmptyStr = e
  Nodes = {n1, n2}
  Writers = {w1}
  Readers = {}
  Cmds <- OnePut
  ReadKeys = {k1}
  StoreMayFail = TRUE
  TermBound = 2
  NoOp = NoOp
SYMMETRY NodeSymmetry
INVARIANT ApplyFailureSurfaces
CHECK_DEADLOCK FALSE
