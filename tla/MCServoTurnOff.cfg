SPECIFICATION FairSpec
CONSTANTS
  NServos = 1
  Angles <- MCEndAngles
  Deg = 1
  ROT_MAX_DEG = 180
  Reversed <- MCReversed
  DUTY_RANGE_US = 3000
  STEPS = 25
  InitialDuty = 819
  DutyMod <- MCDutyMod
  AwaitEntry = FALSE
PROPERTY TurnOffReturns
