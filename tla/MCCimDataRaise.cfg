SPECIFICATION Spec
CONSTANTS
  Data = {d1, d2}
  i1 = i1
  c1 = c1
  Source <- Sources
  SourceType <- TypeOfSource
  Native = {n1, n2, n3, n4}
  Types <- TypesForNoArrays
  Values <- NoArrays
  Careful = FALSE
  KeepSources = FALSE
SYMMETRY Symmetry
INVARIANTS OneOwner
PROPERTIES SourceSafe
CHECK_DEADLOCK FALSE
