CONSTANTS
  Clients = {c1, c2}
  Members = {a, b}
  Nobody = Nobody
  Absent = Absent
  RetryLimit = 2
  MaxVersion = 2
SPECIFICATION LiveSpec
CHECK_DEADLOCK FALSE
PROPERTIES
  WritesLandOnNames
  NoWriteUnderARule
  EveryRequestIsAnswered
