SPECIFICATION Spec
CONSTANTS
  c1 = c1
  c2 = c2
  c3 = c3
  v1 = v1
  v2 = v2
  Keys <- NamedKeys
  Values = {e, v1, v2}
  EmptyStr = e
  Clients = {c1, c2, c3}
  Requests <- RequestsOf
  MaxRetry = 1
  KeepVersions = 1
INVARIANTS TypeOK AnswersTrue ConfigAnswerCoherent
CHECK_DEADLOCK FALSE
