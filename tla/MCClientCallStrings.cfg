SPECIFICATION Spec
CONSTANTS
  Thread = {t1, t2}
  None = None
  Calls <- NameCalls
  MightBlock = TRUE
  ArgKind <- TemporaryString
INVARIANTS ArgsIntact
