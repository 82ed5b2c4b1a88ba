\* One task that is charged once is enough to leave the ring to the seed task.
SPECIFICATION Spec
CONSTANTS
  t1 = t1
  t2 = t2
  t3 = t3
  Seed = Seed
  Null = Null
  Tasks <- MCTasks
  TimeStep = 100
  MaxTime = 300
PROPERTIES
  BurstResetOnLeaving
