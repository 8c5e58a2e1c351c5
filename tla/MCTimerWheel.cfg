SPECIFICATION Spec
CONSTANTS
  t1 = t1
  t2 = t2
  c1 = c1
  c2 = c2
  Null = Null
  Timers <- MCTimers
  Cells <- MCCells
  Delays <- MCDelays
  Wheels = 3
  TVR_SIZE = 2
  TVN_SIZE = 2
  MaxTime = 12
SYMMETRY MCSymmetry
INVARIANTS NonePassed CellsOwned
PROPERTY ImplementsAlarms
CHECK_DEADLOCK FALSE
