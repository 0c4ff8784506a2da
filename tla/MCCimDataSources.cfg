SPECIFICATION Spec
CONSTANTS
  Data = {d1}
  i1 = i1
  c1 = c1
  Source <- Sources
  SourceType <- TypeOfSource
  Native = {n1, n2, n3}
  Types <- MCTypes
  Values <- NoBooleans
  Careful = TRUE
  KeepSources = FALSE
INVARIANTS NoFault
CHECK_DEADLOCK FALSE
