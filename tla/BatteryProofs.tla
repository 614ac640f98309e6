--------------------------- MODULE BatteryProofs ---------------------------
(***************************************************************************)
(* The hysteresis of battery_control_loop, for every pair of thresholds    *)
(* and every set of readings.                                              *)
(*                                                                         *)
(* The gap between the two loads cannot be read off disable_external and   *)
(* adc_batt: both loads lie in the past when the externals come back.      *)
(* IInv remembers, for each step of the loop, on which side of the         *)
(* thresholds the recorded loads lie.                                      *)
(***************************************************************************)
EXTENDS BatteryHysteresis, TLAPS

(* The externals are off only after a load below LowV, and the loop is     *)
(* about to enable them only after one above HighV.                        *)
LoadsRecorded == /\ disable_external \/ bpc = "disable" => lowSeen < LowV
                 /\ bpc = "enable" => highSeen > HighV

IInv == TypeOK /\ LoadsRecorded

(* The monitor starts at its first step, with nothing recorded. *)
LEMMA InitIInv == Init => IInv
  BY BatteryAssumption
     DEF Init, BatteryInit, IInv, TypeOK, BatteryTypeOK, LoadsRecorded

(* Every step of the monitor and every reading keeps the invariant. *)
LEMMA NextIInv == IInv /\ [Next]_hvars => IInv'
<1>1. SUFFICES ASSUME IInv, [Next]_hvars PROVE IInv'
  OBVIOUS
<1>2. /\ adc_batt \in Nat /\ lowSeen \in Nat /\ highSeen \in Nat
      /\ LowV \in Nat /\ HighV \in Nat
  BY <1>1, BatteryAssumption DEF IInv, TypeOK, BatteryTypeOK
<1>3. CASE Read
  BY <1>1, <1>3 DEF IInv, TypeOK, BatteryTypeOK, LoadsRecorded, Read, StoreReading
<1>4. CASE Control
  <2>1. CASE LoadLow
    BY <1>1, <1>2, <1>4, <2>1
       DEF IInv, TypeOK, BatteryTypeOK, LoadsRecorded, Control, LoadLow
  <2>2. CASE Disable
    BY <1>1, <1>2, <1>4, <2>2
       DEF IInv, TypeOK, BatteryTypeOK, LoadsRecorded, Control, Disable
  <2>3. CASE LoadHigh
    BY <1>1, <1>2, <1>4, <2>3
       DEF IInv, TypeOK, BatteryTypeOK, LoadsRecorded, Control, LoadHigh
  <2>4. CASE Enable
    BY <1>1, <1>2, <1>4, <2>4
       DEF IInv, TypeOK, BatteryTypeOK, LoadsRecorded, Control, Enable
  <2>5. QED
    BY <1>4, <2>1, <2>2, <2>3, <2>4 DEF Control, BatteryControlLoop
<1>5. CASE UNCHANGED hvars
  BY <1>1, <1>5
     DEF IInv, TypeOK, BatteryTypeOK, LoadsRecorded, hvars, battVars
<1>6. QED
  BY <1>1, <1>3, <1>4, <1>5 DEF Next

(* Every reachable state of the monitor satisfies the invariant. *)
THEOREM InductiveInvariant == Spec => []IInv
  BY InitIInv, NextIInv, PTL DEF Spec

(* The monitor keeps its types, for every set of readings and thresholds. *)
THEOREM TypeCorrect == Spec => []TypeOK
<1>1. IInv => TypeOK
  BY DEF IInv
<1>2. QED
  BY <1>1, InductiveInvariant, PTL

(* "At least 200 mVolts before peripherial re-activation": only Enable     *)
(* switches the externals on again, and IInv bounds the loads before it.   *)
THEOREM HysteresisHolds == Spec => ReactivationGap
<1>1. ASSUME IInv, [Next]_hvars, disable_external, ~disable_external'
      PROVE  highSeen - lowSeen > HighV - LowV
  <2>1. Control /\ Enable
    BY <1>1 DEF Next, Read, Control, BatteryControlLoop, LoadLow, Disable, LoadHigh,
                StoreReading, hvars, battVars
  <2>2. highSeen > HighV /\ lowSeen < LowV
    BY <1>1, <2>1 DEF IInv, LoadsRecorded, Enable
  <2>3. /\ lowSeen \in Nat /\ highSeen \in Nat /\ LowV \in Nat /\ HighV \in Nat
    BY <1>1, BatteryAssumption DEF IInv, TypeOK
  <2>4. QED
    BY <2>2, <2>3
<1>2. IInv /\ [Next]_hvars
        => [disable_external /\ ~disable_external' => highSeen - lowSeen > HighV - LowV]_hvars
  BY <1>1
<1>3. QED
  BY <1>2, InductiveInvariant, PTL DEF Spec, ReactivationGap
=============================================================================
