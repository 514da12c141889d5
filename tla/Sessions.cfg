CONSTANTS
  Users = {"ann"}
  Owners = {"ann", "bob"}
  Clients = {1, 2}
  MaxFailures = 2
  LockoutMillis = 1
  TtlMillis = 3
  IdleMillis = 1
  Capacity = 1
  Watched = {1}
  MaxTime = 3
  MaxArrivals = 3
SPECIFICATION Spec
CHECK_DEADLOCK FALSE
INVARIANTS
  LoginsAreEarned
  StreamsTellWhatMayBeSeen
PROPERTIES
  SubscribersFollow
