----------------------------- MODULE Lifecycle -----------------------------
(***************************************************************************)
(* The board from one reset to the next: app_main (src/main/domohelios.cpp)*)
(* with the components it brings up, the threads it starts and joins, and  *)
(* the ThingsBoard client object tb they share.  Battery, WifiStation,     *)
(* FileServer, Configuration and SolarTracker are composed here; of the    *)
(* other threads only their life is modelled: not born, running, or done   *)
(* with their function.                                                    *)
(*                                                                         *)
(* battery_control_loop (for(;;)) and the solar task have no exit, so the  *)
(* joins after "servo" never return; what app_main does after them         *)
(* (delete solar, delete tb, enter_sleep) is the "sleep" step.             *)
(***************************************************************************)
EXTENDS Battery, WifiStation, FileServer, SolarTracker

CONSTANT Surroundings  \* what may happen around the board in a behaviour: sets of
                       \*   "battery": its voltage changes,
                       \*   "radio": an established connection is lost,
                       \*   "sun": the light is uneven,
                       \*   "power": resets from outside
ASSUME LifecycleAssumption ==
  Surroundings \subseteq SUBSET {"battery", "radio", "sun", "power"}

StartOrder == <<"adc", "solar", "publish", "switch">>
(* Mutant: a thread is forgotten. *)
JoinOrderShort == <<"servo", "switch", "adc", "solar", "publish">>
JoinOrder == <<"servo", "battery", "switch", "adc", "solar", "publish">>
Threads == {JoinOrder[i] : i \in DOMAIN JoinOrder}
Stoppable == {"servo", "switch", "adc"}   \* and "publish"; the others have no exit

VARIABLES
  mpc,          \* step of app_main
  started,      \* threads of StartOrder already started
  joined,       \* threads of JoinOrder already joined
  running,      \* threads inside their function
  done,         \* threads whose function returned
  to_sleep, wifi_ok,
  tb,           \* the ThingsBoard client: unset, alive or destroyed in place
  pub,          \* publish_loop: at its test of to_sleep, or in send_telemetry
  sampled,      \* history: the ADC thread has stored a reading in this boot
  panic,        \* who brought the board down: none, solar or softap
  around        \* rigid: one of Surroundings

partVars == <<battVars, wifiVars, fileVars, sunVars, sys_conf>>
mainVars == <<mpc, started, joined, wifi_ok, tb, panic>>
thrVars  == <<running, done, pub, sampled>>
vars     == <<partVars, mainVars, thrVars, to_sleep, around>>

MainSteps == {"boot", "config", "sta", "wifi", "loop", "ap", "tb", "start", "poll",
              "deinit", "drop", "join", "sleep"}
ControlSteps == {"tb", "start", "poll", "deinit", "drop", "join", "sleep"}

TypeOK == /\ BatteryTypeOK /\ WifiTypeOK /\ FileTypeOK /\ SunTypeOK
          /\ sys_conf \in {Loads(f) : f \in Documents \cup {"absent", "partial"}}
          /\ mpc \in MainSteps
          /\ started \in 0 .. Len(StartOrder) /\ joined \in 0 .. Len(JoinOrder)
          /\ running \in SUBSET Threads /\ done \in SUBSET Threads
          /\ to_sleep \in BOOLEAN /\ wifi_ok \in BOOLEAN
          /\ tb \in {"unset", "alive", "destroyed"}
          /\ pub \in {"top", "send"} /\ sampled \in BOOLEAN
          /\ panic \in {"none", "solar", "softap"} /\ around \in Surroundings

Init == /\ BatteryInit /\ WifiInit /\ FileInit /\ SunInit /\ ConfigurationInit
        /\ mpc = "boot" /\ started = 0 /\ joined = 0
        /\ running = {} /\ done = {}
        /\ to_sleep = FALSE /\ wifi_ok = FALSE
        /\ tb = "unset" /\ pub = "top" /\ sampled = FALSE /\ panic = "none"
        /\ around \in Surroundings
-----------------------------------------------------------------------------
(* Every reset, by whatever cause: a file that was being written stays as  *)
(* far as it got.                                                          *)
Reset ==
  /\ adc_batt' = 0 /\ disable_external' = FALSE /\ bpc' = "loadLow"
  /\ sta' = "off" /\ s_retry_num' = 0 /\ bits' = {} /\ failures' = 0
  /\ httpd' = "unset" /\ Done
  /\ target' = Level /\ reverse' = FALSE /\ centred' = FALSE
  /\ sys_conf' = Zeroed
  /\ mpc' = "boot" /\ started' = 0 /\ joined' = 0
  /\ running' = {} /\ done' = {}
  /\ to_sleep' = FALSE /\ wifi_ok' = FALSE
  /\ tb' = "unset" /\ pub' = "top" /\ sampled' = FALSE /\ panic' = "none"
  /\ UNCHANGED <<disk, around>>

PowerLoss == "power" \in around /\ mpc # "boot" /\ Reset
Panic     == panic # "none" /\ Reset
esp_restart == upload.pc = "restart" /\ Reset

(* init_base ... start_battery_control: before any ADC thread exists.      *)
StartBatteryControl ==
  /\ mpc = "boot"
  /\ running' = running \cup {"battery"}
  /\ mpc' = "config"
  /\ UNCHANGED <<partVars, started, joined, wifi_ok, tb, panic, done, pub, sampled, to_sleep, around>>

(* init_config: once in a boot. *)
LoadConfig ==
  /\ mpc = "config"
  /\ InitConfig(disk)
  /\ mpc' = "sta"
  /\ UNCHANGED <<battVars, wifiVars, fileVars, sunVars, started, joined, wifi_ok, tb, panic,
                 thrVars, to_sleep, around>>

(* wifi_init_sta up to its wait for either bit ... *)
StartStation ==
  /\ mpc = "sta"
  /\ StaStart(sys_conf.ssid)
  /\ mpc' = "wifi"
  /\ UNCHANGED <<battVars, fileVars, sunVars, sys_conf, started, joined, wifi_ok, tb, panic,
                 thrVars, to_sleep, around>>

(* ... which has no timeout, and leaves the bits set. *)
InitWifi ==
  /\ mpc = "wifi" /\ bits # {}
  /\ wifi_ok' = ("CONNECTED" \in bits)
  /\ mpc' = "loop"
  /\ UNCHANGED <<partVars, started, joined, tb, panic, thrVars, to_sleep, around>>

(* if (!wifi_ok): access point and file server, then an hour of sleep.     *)
(* The next time the library may object to a second default netif.         *)
SoftAp ==
  /\ mpc = "loop" /\ ~wifi_ok
  /\ StaStop /\ start_file_server
  /\ mpc' = "ap"
  /\ panic' \in {"none"} \cup (IF httpd = "unset" THEN {} ELSE {"softap"})
  /\ UNCHANGED <<battVars, sunVars, sys_conf, started, joined, wifi_ok, tb, thrVars, to_sleep, around>>

ApTimeout ==
  /\ mpc = "ap"
  /\ mpc' = "loop"
  /\ UNCHANGED <<partVars, started, joined, wifi_ok, tb, panic, thrVars, to_sleep, around>>

(* Mutants: the client comes after the threads that use it; no network is  *)
(* needed to go on.                                                        *)
InitServoStart ==
  /\ mpc = "loop" /\ wifi_ok
  /\ running' = running \cup {"servo"}
  /\ mpc' = "start"
  /\ UNCHANGED <<partVars, started, joined, wifi_ok, tb, panic, done, pub, sampled, to_sleep, around>>
InitServoOffline ==
  /\ mpc = "loop"
  /\ running' = running \cup {"servo"}
  /\ mpc' = "tb"
  /\ UNCHANGED <<partVars, started, joined, wifi_ok, tb, panic, done, pub, sampled, to_sleep, around>>

(* Mutant: files are served beside the control system, too. *)
InitServoServing ==
  /\ mpc = "loop" /\ wifi_ok
  /\ start_file_server
  /\ running' = running \cup {"servo"}
  /\ mpc' = "tb"
  /\ UNCHANGED <<battVars, wifiVars, sunVars, sys_conf, started, joined, wifi_ok, tb, panic, done,
                 pub, sampled, to_sleep, around>>

(* init_json_sys_config builds the tracker from sys_conf; init_servo: the  *)
(* servo threads start, are exercised for some seconds, and end at 0.      *)
InitServo ==
  /\ mpc = "loop" /\ wifi_ok
  /\ running' = running \cup {"servo"}
  /\ mpc' = "tb"
  /\ UNCHANGED <<partVars, started, joined, wifi_ok, tb, panic, done, pub, sampled, to_sleep, around>>

InitThingsboard ==
  /\ mpc = "tb"
  /\ tb' = "alive"
  /\ mpc' = "start"
  /\ UNCHANGED <<partVars, started, joined, wifi_ok, panic, thrVars, to_sleep, around>>

(* start_misc_adc_read, start_solar_sys, start_publish_loop, start_switch_... *)
StartThread ==
  /\ mpc = "start"
  /\ started' = started + 1
  /\ running' = running \cup {StartOrder[started']}
  /\ mpc' = IF started' = Len(StartOrder) THEN "poll" ELSE "start"
  /\ UNCHANGED <<partVars, joined, wifi_ok, tb, panic, done, pub, sampled, to_sleep, around>>

(* while (!battery_is_critical()) {} *)
Poll ==
  /\ mpc = "poll" /\ BatteryIsCritical
  /\ mpc' = "deinit"
  /\ UNCHANGED <<partVars, started, joined, wifi_ok, tb, panic, thrVars, to_sleep, around>>

(* low_battery_sys_drop: tb->~ThingsBoard() comes first ... *)
DeinitThingsboard ==
  /\ mpc = "deinit"
  /\ tb' = "destroyed"
  /\ mpc' = "drop"
  /\ UNCHANGED <<partVars, started, joined, wifi_ok, panic, thrVars, to_sleep, around>>

(* ... and to_sleep.store(1) second. *)
SystemDrop ==
  /\ mpc = "drop"
  /\ to_sleep' = TRUE
  /\ mpc' = "join"
  /\ UNCHANGED <<partVars, started, joined, wifi_ok, tb, panic, thrVars, around>>

(* memory_and_threads_cleanup: the next join() returns. *)
Join ==
  /\ mpc = "join"
  /\ JoinOrder[joined + 1] \in done
  /\ joined' = joined + 1
  /\ mpc' = IF joined' = Len(JoinOrder) THEN "sleep" ELSE "join"
  /\ UNCHANGED <<partVars, started, wifi_ok, tb, panic, thrVars, to_sleep, around>>

AppMain == \/ StartBatteryControl \/ LoadConfig \/ StartStation \/ InitWifi
           \/ SoftAp \/ ApTimeout
           \/ InitServo \/ InitThingsboard \/ StartThread \/ Poll
           \/ DeinitThingsboard \/ SystemDrop \/ Join
-----------------------------------------------------------------------------
Return(t) == /\ running' = running \ {t}
             /\ done' = done \cup {t}

(* Mutant: the telemetry loop has no end.                                  *)
PublishTopEndless ==
  /\ "publish" \in running /\ pub = "top"
  /\ pub' = "send"
  /\ UNCHANGED <<partVars, mainVars, running, done, sampled, to_sleep, around>>

(* A thread leaves its loop when it sees to_sleep or, for the servos, the  *)
(* end_now() of turn_off_servo_control.                                    *)
LoopExit(t) ==
  /\ t \in running \cap Stoppable
  /\ IF t = "servo" THEN mpc = "join" ELSE to_sleep
  /\ Return(t)
  /\ UNCHANGED <<partVars, mainVars, pub, sampled, to_sleep, around>>

(* misc_adc_read: a round. *)
Healthy == {v \in Readings : v > HighV}
AdcRound ==
  /\ "adc" \in running
  /\ \E v \in IF "battery" \in around THEN Readings ELSE Healthy : StoreReading(v)
  /\ sampled' = TRUE
  /\ UNCHANGED <<wifiVars, fileVars, sunVars, sys_conf, mainVars, running, done, pub, to_sleep, around>>

(* battery_control_loop *)
BatteryRound ==
  /\ "battery" \in running
  /\ BatteryControlLoop
  /\ UNCHANGED <<wifiVars, fileVars, sunVars, sys_conf, mainVars, thrVars, to_sleep, around>>

(* The solar task: a round, or its end and that of the program. *)
SolarRound ==
  /\ "solar" \in running /\ "sun" \in around
  /\ \/ Track /\ UNCHANGED panic
     \/ TrackFails /\ panic' = "solar" /\ UNCHANGED sunVars
  /\ UNCHANGED <<battVars, wifiVars, fileVars, sys_conf, mpc, started, joined, wifi_ok, tb,
                 thrVars, to_sleep, around>>

(* publish_loop: while (!to_sleep.load()) *)
PublishTop ==
  /\ "publish" \in running /\ pub = "top"
  /\ IF to_sleep THEN Return("publish") /\ UNCHANGED pub
                 ELSE pub' = "send" /\ UNCHANGED <<running, done>>
  /\ UNCHANGED <<partVars, mainVars, sampled, to_sleep, around>>

(* send_telemetry(), which uses tb from its first statement to its last.   *)
PublishSend ==
  /\ pub = "send"
  /\ pub' = "top"
  /\ UNCHANGED <<partVars, mainVars, running, done, sampled, to_sleep, around>>

(* The event task of Wi-Fi.  An attempt ends, but for an address it may    *)
(* have to wait for ever.                                                  *)
AttemptEnds ==
  /\ sta = "connecting"
  /\ \/ StaDisconnected(sys_conf.ssid)
     \/ sys_conf.ssid /\ Associate
  /\ UNCHANGED <<battVars, fileVars, sunVars, sys_conf, mainVars, thrVars, to_sleep, around>>

LinkChanges ==
  /\ \/ GotIp
     \/ sta = "associated" /\ StaDisconnected(sys_conf.ssid)
     \/ sta = "online" /\ "radio" \in around /\ StaDisconnected(sys_conf.ssid)
  /\ UNCHANGED <<battVars, fileVars, sunVars, sys_conf, mainVars, thrVars, to_sleep, around>>

(* The task of httpd. *)
HttpdStep ==
  /\ ServerStep \/ DeleteFile \/ \E what \in Uploads : UploadBegin(what)
  /\ UNCHANGED <<battVars, wifiVars, sunVars, sys_conf, mainVars, thrVars, to_sleep, around>>

ThreadStep == \/ \E t \in Stoppable : LoopExit(t)
              \/ AdcRound \/ BatteryRound \/ SolarRound
              \/ PublishTop \/ PublishSend

(* After a panic there is only the reset. *)
Next == \/ panic = "none" /\ (AppMain \/ ThreadStep \/ AttemptEnds \/ LinkChanges \/ HttpdStep)
        \/ Panic \/ PowerLoss \/ esp_restart

Spec == Init /\ [][Next]_vars

Live(A) == panic = "none" /\ A

(* What is scheduled goes on, and an attempt to connect ends. *)
FairSpec == /\ Spec
            /\ WF_vars(Live(AppMain)) /\ WF_vars(Live(PublishTop \/ PublishSend))
            /\ \A t \in Stoppable : WF_vars(Live(LoopExit(t)))
            /\ WF_vars(Live(AttemptEnds)) /\ WF_vars(Panic)
-----------------------------------------------------------------------------
(* The telemetry thread never dereferences tb before init_thingsboard has  *)
(* set it (domohelios.cpp:192-196), in this boot or in a later one.        *)
TbSetBeforeUse == pub = "send" => tb # "unset"

(* The access point and its file server exclude the control system:        *)
(* without a network only the battery monitor runs, until a restart.       *)
ApExcludesControl == httpd # "unset" => running \cup done \subseteq {"battery"}

(* Control runs with the configuration that is stored: every upload,       *)
(* deletion or reset in the middle of one takes effect in a boot of its    *)
(* own, and what a boot loads is one file or nothing                       *)
(* (domohelios.cpp:179, as_server_server.c:331, 346).                      *)
ControlsAsStored == mpc \in ControlSteps => sys_conf = Loads(disk)

(* The station gives up only after all its retries have failed in a row,   *)
(* however often the network was lost before (wifi_def.c:17-27).           *)
GivesUpLast == sta = "idle" /\ sys_conf.ssid => failures = EXAMPLE_ESP_MAXIMUM_RETRY + 1

(* What the tracker may store for a servo: it stops at half a turn, which  *)
(* is what Servo_comm can do (domohelios.cpp:61-62) and beyond which it    *)
(* ignores a target (servo_util.cpp:157), and not at max_rotation; one     *)
(* that turns all round gets any angle of a turn.                          *)
Reachable(servo) == IF full_360(servo) THEN 0 .. 2 * HalfTurn - 1 ELSE 0 .. HalfTurn

(* Whatever the light, and whatever rotation config.json gives a servo,    *)
(* its target stays there, through clamping, reversal and turning over     *)
(* (solar_sys.hpp:82-119).  That a target also stays within max_rotation   *)
(* is not so for a servo of less than half a turn.                         *)
TargetsInRange ==
  \A i \in DOMAIN sys_conf.servo \cap {1, 2} :
    target[i] \in Reachable(sys_conf.servo[i]) \/ (full_360(sys_conf.servo[i]) /\ sys_conf.LDR_count > 4)

(* servo.at(1) is reversed exactly while its target is beyond the middle,  *)
(* as telemetry says of it (domohelios.cpp:428), unless the target once    *)
(* was the middle itself: to leave it again is no crossing                 *)
(* (solar_sys.hpp:101-102).                                                *)
ReversedBeyondHalf ==
  LET servo == sys_conf.servo[2]
  IN Len(sys_conf.servo) >= 2 /\ servo.max_rotation > 0 /\ ~centred
     => (reverse <=> /\ servo.can_reverse_logic /\ ~full_360(servo)
                     /\ 2 * target[2] > servo.max_rotation)

(* A config.json that makes the tracker bring the board down (domohelios.  *)
(* cpp:293, solar_sys.hpp:381) outlives every reset that follows: as long  *)
(* as no boot gets to the access point, nothing in it can replace the file,*)
(* and the next boot with a network and some light ends the same way.      *)
Misconfigured == Len(Loads(disk).servo) < 2 \/ Loads(disk).LDR_count > 4
RepairedOnlyOffline ==
  [](panic = "solar" => ([](mpc # "ap") => []Misconfigured))

(* Every loop that to_sleep or end_now should stop does stop, in this boot.*)
LoopsStop == to_sleep ~> {"servo", "switch", "adc", "publish"} \subseteq done \/ ~to_sleep

(* The low-battery drop never gets to enter_sleep: the servo threads are   *)
(* joined, and then app_main waits for battery_control_loop until a reset  *)
(* (domohelios.cpp:368, 546-550).                                          *)
CleanupStopsAtBattery ==
  to_sleep ~> [](mpc = "join" /\ JoinOrder[joined + 1] = "battery") \/ ~to_sleep

(* A board that is no longer reset and joins no network can be reached:    *)
(* its file server comes up in that boot, whatever earlier ones did, and   *)
(* stays up.  Two things stand in the way.  httpd_start may fail, and the  *)
(* server_data it leaves keeps every later call from trying again          *)
(* (as_server_server.c:496).  And wifi_init_sta may wait for ever, for an  *)
(* address that does not come or an attempt that was refused (wifi_def.c:  *)
(* 16, 77).                                                                *)
Unanswered == /\ mpc = "wifi" /\ bits = {}
              /\ \/ sta = "associated"
                 \/ sta = "idle" /\ ~sys_conf.ssid
ServesFiles ==
  <>[](mpc # "boot" /\ ~wifi_ok)
    => <>[](httpd = "up") \/ <>[](httpd = "failed") \/ <>[]Unanswered

(* "Await voltage readings to normalize" (domohelios.cpp:367), says        *)
(* battery_control_loop before it decides.  The code decides on the        *)
(* initial 0 of adc_batt: the ADC thread starts after Wi-Fi and servos.    *)
DecisionAwaitsReading == disable_external => sampled
=============================================================================
