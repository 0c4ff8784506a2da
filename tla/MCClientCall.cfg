SPECIFICATION Spec
CONSTANTS
  Thread = {t1, t2}
  None = None
  Calls <- AllCalls
  MightBlock = TRUE
  ArgKind <- AnyString
SYMMETRY Symmetry
INVARIANTS TypeOK LockHeld ArgsComplete EndsBounded
PROPERTIES ImplementsRemoteCall
