CONSTANTS
  a = a
  b = b
  Members <- MCMembers
  Values = {0, 1}
  Empty = 0
  NoValue = NoValue
  NoModel = NoModel
  Faults <- AllFaults
  Threshold = 0
  Ops <- AllOps
  MaxUnits = 2
SPECIFICATION MCSpec
INVARIANTS
  PublishedIsKept
  FailStoppedIsPublished
PROPERTIES
  ImplementsAbstractCube
