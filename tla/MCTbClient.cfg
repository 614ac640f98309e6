SPECIFICATION FairSpec
CONSTANTS
  Requests <- MCRequests
  Kind <- MCKind
  Uses <- MCUses
  MaxFields = 2
  MaxFaults = 2
INVARIANTS TypeOK Listening Released
PROPERTIES Answered ImplementsRequests
CHECK_DEADLOCK FALSE
