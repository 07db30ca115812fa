SPECIFICATION MCSpec
CONSTANTS
  Platforms = {"windows", "linux"}
  MaxSamples = 3
  Addrs = {1}
  UserRange = 4
  Notes = {1}
  DelDrains = TRUE
INVARIANTS TypeOK ReferencesValid SamplesMeetPublisher
PROPERTIES ImplementsFeed ShutdownCompletes SampleArrives
