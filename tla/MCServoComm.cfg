SPECIFICATION FairSpec
CONSTANTS
  NServos = 2
  Angles <- MCAngles
  Deg = 1
  ROT_MAX_DEG = 180
  Reversed <- MCReversed
  DUTY_RANGE_US = 362
  STEPS = 3
  InitialDuty = 100
  DutyMod <- MCDutyMod
  AwaitEntry = TRUE
INVARIANTS TypeOK OffMeansStopped TargetStableWhileRunning
PROPERTIES DriftsBySweep Settles TurnOffReturns
