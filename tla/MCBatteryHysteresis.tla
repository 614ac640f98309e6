------------------------ MODULE MCBatteryHysteresis ------------------------
(* Readings on both sides of, and at, each threshold.                      *)
EXTENDS BatteryHysteresis

MCReadings == {310, 319, 320, 330, 340, 341, 400}
=============================================================================
