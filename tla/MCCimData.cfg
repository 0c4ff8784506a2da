SPECIFICATION Spec
CONSTANTS
  Data = {d1, d2}
  i1 = i1
  c1 = c1
  Source <- Sources
  SourceType <- TypeOfSource
  Native = {n1, n2, n3, n4, n5}
  Types <- MCTypes
  Values <- NoBooleans
  Careful = TRUE
  KeepSources = TRUE
SYMMETRY Symmetry
INVARIANTS TypeOK NoFault ValueOwned OneOwner GoodIsStored
CHECK_DEADLOCK FALSE
