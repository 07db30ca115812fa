SPECIFICATION MCSpec
CONSTANTS
  Publishers = {"p", "q"}
  PerPublisher = 2
  Msgs <- MCMsgs
INVARIANTS TypeOK FlagMeansSession BrokerInOrder
PROPERTY ControlReturns
