SPECIFICATION Spec
CONSTANTS
  Obj = {o1, o2, o3, o4}
  Native = {n1, n2, n3, n4}
  Nil = Nil
  NoNative = {n1, n2, n3, n4}
  MaxParts = 2
SYMMETRY Symmetry
INVARIANTS TypeOK HandleLive SoleOwner LeakBounded
PROPERTIES ClientKept ImplementsHandleTable
CHECK_DEADLOCK FALSE
