SPECIFICATION Spec
CONSTANTS
  t1 = t1
  t2 = t2
  Thread <- Threads
  Subject = {s1, s2}
  Entry = {e1, e2}
  Contents <- ShortLists
  Walkers <- SomeWalkers
  MaxDepth <- Depths
SYMMETRY Symmetry
INVARIANTS TypeOK NamesReleased YieldsInOrder
PROPERTIES ImplementsIteration
