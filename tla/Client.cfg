CONSTANTS
  Types <- MCTypes
  QueueCapacity = 2
  MaxCalls = 3
SPECIFICATION FairSpec
INVARIANTS TypeOK RequestsAccounted ProcessorsAnswerable NothingAfterShutdown
PROPERTIES AcceptedIsSent ShutdownRequestEndsWorkers ShutdownReleasesWorkers
CHECK_DEADLOCK FALSE
