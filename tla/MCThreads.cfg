SPECIFICATION MCSpec
CONSTANTS
  Threads = {"t1", "t2"}
  PoolSize = 2
  Others = {"other"}
  LockMemory = {"task", "other"}
  Period = 1
  MaxLate = 2
  Wrap = 100
  Careful = TRUE
  Ids = {1, 2, 3}
  Controllers = {"c"}
  Users = {"u"}
  Plcs = 2
  Interval = 1
INVARIANTS
  MCTypeOK Exclusive FlagsExact
  OneThreadPerObject LockFollowsTasks CalledTaskLives
  OthersAreAbandoned
  NeverTerminates AtMostOneMoreScan
PROPERTIES StopsReturn
