CONSTANTS
  Users = {ann, bob}
  Groups = {staff}
  Cubes = {sales}
  Kinds = {"cube"}
  Elements = {north}
  Clients = {c1, c2}
  First = ann
  GrantLevels = {0, 3}
  MaxRecords = 2
  MaxRequests = 4
  MaxFaults = 1
SPECIFICATION Spec
CHECK_DEADLOCK FALSE
SYMMETRY ClientSymmetry
INVARIANTS
  NumbersIssuedOnce
PROPERTIES
  RightsAreAsGiven
