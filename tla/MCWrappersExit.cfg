SPECIFICATION Spec
CONSTANTS
  Obj = {o1, o2}
  Native = {n1, n2, n3}
  Nil = Nil
  NoNative = NoNative
  MaxParts = 1
PROPERTIES ExitReleasesWrapped
CHECK_DEADLOCK FALSE
