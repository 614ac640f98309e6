SPECIFICATION FairSpec
CONSTANTS
  Requests <- NoRequests
  Kind <- NoKinds
  Uses <- ReconnectUses
  MaxFields = 1
  MaxFaults = 1
PROPERTY ConnectResubscribes
CHECK_DEADLOCK FALSE
