------------------------- MODULE BatteryHysteresis -------------------------
(***************************************************************************)
(* The battery monitor on its own, with two history variables that record  *)
(* the loads battery_control_loop acted on.  They state what its comment   *)
(* promises: "At least 200 mVolts before peripherial re-activation"        *)
(* (src/main/domohelios.cpp:372).                                          *)
(***************************************************************************)
EXTENDS Battery

VARIABLES lowSeen,    \* the last load found below LowV
          highSeen    \* the last load found above HighV

hvars == <<battVars, lowSeen, highSeen>>

TypeOK == /\ BatteryTypeOK
          /\ lowSeen \in Readings \cup {0} /\ highSeen \in Readings \cup {0}

Init == BatteryInit /\ lowSeen = 0 /\ highSeen = 0

(* misc_adc_read, on its own thread. *)
Read == /\ \E v \in Readings : StoreReading(v)
        /\ UNCHANGED <<lowSeen, highSeen>>

(* battery_control_loop; each load that decides is recorded. *)
Control == /\ BatteryControlLoop
           /\ lowSeen' = IF bpc' = "disable" THEN adc_batt ELSE lowSeen
           /\ highSeen' = IF bpc' = "enable" THEN adc_batt ELSE highSeen

Next == Read \/ Control

Spec == Init /\ [][Next]_hvars
FairSpec == Spec /\ WF_hvars(Control)
-----------------------------------------------------------------------------
(* The externals come back only on a load that lies at least the hysteresis*)
(* above the load that switched them off, although the two loads of a      *)
(* round may straddle a new reading (domohelios.cpp:370-374).              *)
ReactivationGap ==
  [][disable_external /\ ~disable_external' => highSeen - lowSeen > HighV - LowV]_hvars

(* A battery that stays low ends with the externals disabled for good, one *)
(* that stays high with them enabled for good.                             *)
MonitorFollows == /\ <>[](adc_batt < LowV) => <>[]disable_external
                  /\ <>[](adc_batt > HighV) => <>[]~disable_external

(* Readings that wander between the thresholds do not make the externals   *)
(* chatter: one decision holds.                                            *)
BandIsQuiet == <>[](adc_batt \in LowV .. HighV)
                 => (<>[]disable_external \/ <>[]~disable_external)
=============================================================================
