SPECIFICATION MCSpec
CONSTANTS
  Callers = {"a", "b"}
  Addrs = {1, 2, 3}
  UserRange = 4
  Notes = {1, 2, 3}
  MaxPorts = 1
  Reconnects = FALSE
  DelMayFail = FALSE
  DelDrains = TRUE
INVARIANTS TypeOK CallbackTargetsLive DestroyedIsQuiet CallbackReachesVariable
PROPERTIES NeverReplaced LockReleased StopLeavesOnlyNew
