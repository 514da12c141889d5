SPECIFICATION ModelSpec
CONSTANTS
  Rank = 2
  KeyBits = 3
  ElementNames <- MCElementNames
  Attributes <- MCAttributes
  AttrValues <- MCAttrValues
  Numbers = {0, 5}
  Texts = {"p", "q"}
  Empty = ""
  Weights <- MCWeights
  BuiltFrom <- MCBuiltFrom
  Users = {"ann", "bob", "eve"}
  Admins = {"eve"}
  RetryLimit = 2
  ScaleDecimals = 2
  Workloads <- MCWorkloads
CHECK_DEADLOCK FALSE
INVARIANTS
  ModelIsSound
PROPERTIES
  KeepsTheNames
  ObjectsKeepTheirOwners
  NothingBreaksUnseen
