SPECIFICATION FairSpec
CONSTANTS
  Readings <- MCReadings
  LowV = 320
  HighV = 340
  NBits = 2
  NCallbacks = 3
  PinBits <- MCPinBits
  RpcArgs <- MCRpcArgs
INVARIANTS TypeOK PinsFollowBuffer PinsInRound OnlyClearIsLost
PROPERTIES OffWhileDisabled PinsSettle LoopEnds
