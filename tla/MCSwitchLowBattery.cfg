SPECIFICATION FairSpec
CONSTANTS
  Readings <- MCReadings
  LowV = 320
  HighV = 340
  NBits = 2
  NCallbacks = 2
  PinBits <- MCPinBits
  RpcArgs <- MCRpcArgs
PROPERTIES TurnOffAfterLowBattery
