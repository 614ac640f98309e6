------------------------------ MODULE Battery ------------------------------
(***************************************************************************)
(* The battery monitor of DomoHelios (src/main/domohelios.cpp).            *)
(*                                                                         *)
(* misc_adc_read publishes the battery voltage in the atomic adc_batt;     *)
(* battery_control_loop, a thread of its own, reads it twice a second and  *)
(* drives the atomic disable_external with a hysteresis.  Voltages are     *)
(* integers in hundredths of a volt, so 3.2f is 320 and 3.4f is 340.  A    *)
(* load of adc_batt and the store it leads to are two steps: the ADC       *)
(* thread runs between them.                                               *)
(***************************************************************************)
EXTENDS Integers

CONSTANTS Readings,   \* the voltages get_average_read(ADC1_CHANNEL_5) / 185 may give
          LowV,       \* 3.2f: below it the externals are disabled
          HighV       \* 3.4f: above it they are enabled again

ASSUME BatteryAssumption == /\ Readings \subseteq Nat
                            /\ LowV \in Nat /\ HighV \in Nat
                            /\ LowV < HighV

VARIABLES adc_batt,           \* std::atomic<float>, 0 until the first ADC reading
          disable_external,   \* std::atomic_bool
          bpc                 \* where battery_control_loop is

battVars == <<adc_batt, disable_external, bpc>>

BatteryTypeOK == /\ adc_batt \in Readings \cup {0}
                 /\ disable_external \in BOOLEAN
                 /\ bpc \in {"loadLow", "disable", "loadHigh", "enable"}

BatteryInit == /\ adc_batt = 0
               /\ disable_external = FALSE
               /\ bpc = "loadLow"

(* Mutants. The raw average is stored unscaled; one threshold instead of   *)
(* two; the hysteresis is forgotten; the wrong value is stored.            *)
StoreReadingRaw(v) == /\ adc_batt' = v * 185
                      /\ UNCHANGED <<disable_external, bpc>>
LoadLowAlone == /\ bpc = "loadLow"
                /\ bpc' = IF adc_batt < HighV THEN "disable" ELSE "enable"
                /\ UNCHANGED <<adc_batt, disable_external>>
LoadHighAtLow == /\ bpc = "loadHigh"
                 /\ bpc' = IF adc_batt > LowV THEN "enable" ELSE "loadLow"
                 /\ UNCHANGED <<adc_batt, disable_external>>
EnableStoresOne == /\ bpc = "enable"
                   /\ disable_external' = TRUE
                   /\ bpc' = "loadLow"
                   /\ UNCHANGED adc_batt

(* misc_adc_read: one averaged reading of the battery channel is stored. *)
StoreReading(v) == /\ adc_batt' = v
                   /\ UNCHANGED <<disable_external, bpc>>

(* if(adc_batt.load() < 3.2f) *)
LoadLow == /\ bpc = "loadLow"
           /\ bpc' = IF adc_batt < LowV THEN "disable" ELSE "loadHigh"
           /\ UNCHANGED <<adc_batt, disable_external>>

(* disable_external.store(1), then the pause to the next round. *)
Disable == /\ bpc = "disable"
           /\ disable_external' = TRUE
           /\ bpc' = "loadLow"
           /\ UNCHANGED adc_batt

(* else if(adc_batt.load() > 3.4f): a second, independent load. *)
LoadHigh == /\ bpc = "loadHigh"
            /\ bpc' = IF adc_batt > HighV THEN "enable" ELSE "loadLow"
            /\ UNCHANGED <<adc_batt, disable_external>>

(* disable_external.store(0), then the pause to the next round. *)
Enable == /\ bpc = "enable"
          /\ disable_external' = FALSE
          /\ bpc' = "loadLow"
          /\ UNCHANGED adc_batt

BatteryControlLoop == LoadLow \/ Disable \/ LoadHigh \/ Enable

(* battery_is_critical(): (adc_batt - 3.2) < 1e-2, on the poll of app_main. *)
BatteryIsCritical == adc_batt - LowV < 1
=============================================================================
