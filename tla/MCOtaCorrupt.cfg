SPECIFICATION FairSpec
CONSTANTS
  Versions <- MCVersions
  Intact <- MCNone
  Chunks = 3
  ChunkRetries = 2
  MaxCopies = 2
  MaxFaults = 2
PROPERTY Ends
CHECK_DEADLOCK FALSE
