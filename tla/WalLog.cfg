CONSTANTS
  c1 = c1
  c2 = c2
  Cells <- MCCells
  MaxBatch = 2
  MaxFrames = 7
  Servers = {s1, s2, s3}
  Operators = {o1, o2}
  MaxLockFaults = 1
SPECIFICATION MCSpec
CHECK_DEADLOCK FALSE
SYMMETRY CellSymmetry
INVARIANTS
  RecoversWholeUnits
  OneServerAtATime
PROPERTIES
  OpenKeepsIntactUnits
