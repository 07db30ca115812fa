SPECIFICATION MCSpec
CONSTANTS
  Callers = {"a"}
  Addrs = {1, 5}
  UserRange = 4
  Notes = {1, 2}
  MaxPorts = 1
  Reconnects = FALSE
  DelMayFail = FALSE
  DelDrains = TRUE
INVARIANT CallbackReachesVariable
