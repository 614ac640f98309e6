SPECIFICATION FairSpec
CONSTANTS
  Readings <- MCReadings
  LowV = 320
  HighV = 340
INVARIANT TypeOK
PROPERTIES ReactivationGap MonitorFollows BandIsQuiet
