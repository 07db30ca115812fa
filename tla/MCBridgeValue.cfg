SPECIFICATION MCSpec
CONSTANTS
  Platforms = {"windows", "linux"}
  MaxSamples = 2
  Addrs = {1}
  UserRange = 4
  Notes = {1}
  DelDrains = TRUE
INVARIANT PublishesValue
