CONSTANTS
  Types <- MCTypes
  QueueCapacity = 2
  MaxCalls = 3
SPECIFICATION FairSpec
PROPERTIES ShutdownRequestIsSent
CHECK_DEADLOCK FALSE
