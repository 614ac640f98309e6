SPECIFICATION FairSpec
CONSTANTS
  Readings <- MCReadings
  LowV = 320
  HighV = 340
  EXAMPLE_ESP_MAXIMUM_RETRY = 3
  Documents <- MCDocuments
  Document <- MCDocument
  Surroundings <- MCSurroundings
  Imbalances <- MCImbalances
  Whole = 2
INVARIANTS TypeOK TbSetBeforeUse ApExcludesControl ControlsAsStored GivesUpLast
           TargetsInRange ReversedBeyondHalf
PROPERTIES RepairedOnlyOffline LoopsStop CleanupStopsAtBattery ServesFiles
