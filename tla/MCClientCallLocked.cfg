SPECIFICATION Spec
CONSTANTS
  Thread = {t1, t2, t3}
  None = None
  Calls <- SomeCalls
  MightBlock = FALSE
  ArgKind <- PlainString
INVARIANTS OneNativeCall ArgsIntact
