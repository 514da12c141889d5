CONSTANTS
  Cubes = {c1, c2}
  NoCube = NoCube
  MarkFaults = {"write"}
  MaxVersion = 4
  MaxRev = 3
SPECIFICATION Spec
INVARIANTS
  PublishedBelowMark
  CasBaseIsCurrent
PROPERTIES
  VersionsIncrease
