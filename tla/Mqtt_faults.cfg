SPECIFICATION FairSpec
CONSTANTS
  AppTopics <- MCTopics
  MaxHandlers = 2
  MaxSockets = 4
  MaxInFlight = 1
  MaxRefusals = 3
  FaultSets <- MCFaultSets
INVARIANTS TypeOK ConnectedMayReconnect PingAccounted TableHasNoTwins ResubscribedSoFar TableIsSubscribed
PROPERTIES DeadConnectionNoticed Recovers
