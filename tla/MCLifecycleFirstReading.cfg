SPECIFICATION Spec
CONSTANTS
  Readings <- MCReadings
  LowV = 320
  HighV = 340
  EXAMPLE_ESP_MAXIMUM_RETRY = 3
  Documents <- MCDocuments
  Document <- MCDocument
  Surroundings <- MCSurroundings
  Imbalances <- MCImbalances
  Whole = 2
INVARIANT DecisionAwaitsReading
