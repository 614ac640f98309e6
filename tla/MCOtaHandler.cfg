SPECIFICATION FairSpec
CONSTANTS
  Versions <- MCVersions
  Intact <- MCVersions
  Chunks = 3
  ChunkRetries = 2
  MaxCopies = 2
  MaxFaults = 2
INVARIANTS TypeOK BootOnlyVerified EndsOnce
PROPERTIES Ends ImplementsUpdate
CHECK_DEADLOCK FALSE
