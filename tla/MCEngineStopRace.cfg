SPECIFICATION MCSpec
CONSTANTS
  Callers = {"a", "b"}
  Addrs = {1, 2}
  UserRange = 4
  Notes = {1, 2}
  MaxPorts = 1
  Reconnects = FALSE
  DelMayFail = FALSE
  DelDrains = TRUE
PROPERTY StopRemovesAll
