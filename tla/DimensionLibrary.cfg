CONSTANTS
  Cubes = {1, 2}
  Ids = {1, 2}
  Names = {"a", "b"}
  Kinds = {"leaf", "consolidated"}
  First = "a"
  MaxRequests = 3
  MaxFaults = 2
SPECIFICATION Spec
CHECK_DEADLOCK FALSE
INVARIANTS
  LibraryIsSound
PROPERTIES
  NothingIsForgotten
