SPECIFICATION Spec
CONSTANTS
  NServos = 1
  Angles <- MCFineAngles
  Deg = 1
  ROT_MAX_DEG = 180
  Reversed <- MCReversed
  DUTY_RANGE_US = 3000
  STEPS = 25
  InitialDuty = 819
  DutyMod <- MCDutyMod
  AwaitEntry = TRUE
INVARIANT DutyTracksRotation
