\* Two frames of 8 units, two tasks; kmalloc of half a page needs all of it.
SPECIFICATION Spec
CONSTANTS
  p1 = p1
  p2 = p2
  t1 = t1
  t2 = t2
  NoPage = NoPage
  Pages <- MCPages
  Tasks <- MCTasks
  PageUnits = 8
  Break1 = 4
  Break2 = 5
  MinAlign = 1
  KmallocSizes = {2, 4}
  Caches <- MCCaches
  Orders = {0, 1}
  MaxLarge = 2
SYMMETRY SlobSymmetry
INVARIANTS
  TypeOK
  PagesPartitioned
  ListsHoldPartlyFree
  UnitsAreFreeUnits
  NewPageServes
  AllGivenBack
PROPERTIES
  BestFit
