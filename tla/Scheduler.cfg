\* Three tasks; twice 100 clock units pass, between any two calls.
SPECIFICATION Spec
CONSTANTS
  t1 = t1
  t2 = t2
  t3 = t3
  Seed = Seed
  Null = Null
  Tasks <- MCTasks
  TimeStep = 100
  MaxTime = 200
SYMMETRY TaskSymmetry
INVARIANTS
  TypeOK
  RingIntact
  CurrentIsLinked
  CpuTimeCountedOnce
PROPERTIES
  ChosenHasWaited
  Implements
