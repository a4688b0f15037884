SPECIFICATION Spec
CONSTANTS
  AppTopics <- MCTopics
  MaxHandlers = 5
  MaxSockets = 3
  MaxInFlight = 1
  MaxRefusals = 1
  FaultSets <- EarlyLoss
INVARIANT NoSocketAbandoned
