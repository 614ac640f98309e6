-------------------------- MODULE LifecycleProofs --------------------------
(***************************************************************************)
(* Theorems about Lifecycle, for any readings, thresholds, documents,      *)
(* imbalances, number of retries and surroundings.                         *)
(***************************************************************************)
EXTENDS Lifecycle, TLAPS

(* What app_main has not started yet does not run. *)
Booting == {"boot", "config", "sta", "wifi", "loop", "ap"}
Phases ==
  /\ mpc \in Booting => running \cup done \subseteq {"battery"}
  /\ mpc = "tb" => running \cup done \subseteq {"battery", "servo"}
  /\ mpc \in ControlSteps \ {"tb"} => tb # "unset"
  /\ pub = "send" => mpc \in ControlSteps \ {"tb"}
  /\ mpc \in Booting \cup {"tb"} => started = 0
  /\ mpc = "start" => started < Len(StartOrder)
  /\ mpc \notin {"join", "sleep"} => joined = 0
  /\ mpc = "join" => joined < Len(JoinOrder)

(* Until the server runs, the disk is as init_config found it, and the     *)
(* server only ever runs where the control system does not.                *)
Served ==
  /\ mpc \in {"boot", "config", "sta", "wifi"} \cup ControlSteps => httpd = "unset"
  /\ mpc = "loop" /\ wifi_ok => httpd = "unset"
  /\ mpc = "ap" => ~wifi_ok
  /\ httpd = "unset" => upload.pc = "idle"
  /\ httpd = "unset" /\ mpc \notin {"boot", "config"} => sys_conf = Loads(disk)

(* While the station tries, it has failed as often as it has retried.      *)
Counted ==
  /\ mpc \in {"boot", "config", "sta"} => sta = "off" /\ s_retry_num = 0 /\ failures = 0
  /\ sta \in {"connecting", "associated", "online"} => failures = s_retry_num

(* The tracker starts from 0 with the configuration of its boot, and only  *)
(* an uncentred servo has its target off the middle.                       *)
Fresh == mpc \in {"boot", "config"} => target = Level /\ ~reverse /\ ~centred
Tracked ==
  Len(sys_conf.servo) >= 2 /\ sys_conf.servo[2].max_rotation > 0 /\ ~centred
  => 2 * target[2] # sys_conf.servo[2].max_rotation

ConfType == [ssid : BOOLEAN, LDR_count : Nat, servo : Seq(ServoEntries)]

(* check_and_dump_cfg never leaves more in sys_conf than it declares. *)
LEMMA LoadsType == \A f : Loads(f) \in ConfType
<1> SUFFICES ASSUME NEW f PROVE Loads(f) \in ConfType
    OBVIOUS
<1>1. Zeroed \in ConfType
  BY DEF Zeroed, ConfType
<1>2. ASSUME f \in Documents PROVE check_and_dump_cfg(f) \in ConfType
  <2> DEFINE s == Document[f].servo
             n == AtMost(Len(s), 4)
  <2>1. /\ Document[f].ssid \in BOOLEAN /\ Document[f].ldr \in Nat /\ s \in Seq(ServoEntries)
    BY <1>2, ConfigurationAssumption
  <2>2. n \in 0 .. Len(s) /\ AtMost(Document[f].ldr, 5) \in Nat
    BY <2>1 DEF AtMost
  <2>3. SubSeq(s, 1, n) \in Seq(ServoEntries)
    BY <2>1, <2>2
  <2> QED
    BY <2>1, <2>2, <2>3 DEF check_and_dump_cfg, ConfType, Reads
<1> QED
  BY <1>1, <1>2 DEF Loads

(* How many threads there are in the two orders. *)
LEMMA Lengths == Len(StartOrder) = 4 /\ Len(JoinOrder) = 6
BY DEF StartOrder, JoinOrder

(* Every thread that is started or stopped is one of Threads. *)
LEMMA ThreadsAre == /\ {"battery", "publish"} \cup Stoppable \subseteq Threads
                    /\ \A i \in 1 .. 4 : StartOrder[i] \in Threads
<1>1. DOMAIN JoinOrder = 1 .. 6
  BY DEF JoinOrder
<1>2. /\ JoinOrder[1] = "servo" /\ JoinOrder[2] = "battery" /\ JoinOrder[3] = "switch"
      /\ JoinOrder[4] = "adc" /\ JoinOrder[5] = "solar" /\ JoinOrder[6] = "publish"
  BY DEF JoinOrder
<1>3. {"servo", "battery", "switch", "adc", "solar", "publish"} \subseteq Threads
  BY <1>1, <1>2 DEF Threads
<1> QED
  BY <1>3 DEF Stoppable, StartOrder

(* Every kind of step, and what most of them leave alone. *)
LEMMA StepKinds ==
  ASSUME [Next]_vars
  PROVE  Reset \/ AppMain \/ ThreadStep \/ AttemptEnds \/ LinkChanges \/ HttpdStep \/ UNCHANGED vars
BY DEF Next, Panic, PowerLoss, esp_restart

(* Only LoadConfig and SolarRound concern the tracker. *)
LEMMA SunFrame ==
  ASSUME [Next]_vars
  PROVE  \/ Reset \/ LoadConfig \/ SolarRound
         \/ /\ UNCHANGED <<sunVars, sys_conf>>
            /\ mpc' \in {"boot", "config"} => mpc \in {"boot", "config"}
<1> SUFFICES ASSUME ~Reset, ~LoadConfig, ~SolarRound
             PROVE  /\ UNCHANGED <<sunVars, sys_conf>>
                    /\ mpc' \in {"boot", "config"} => mpc \in {"boot", "config"}
    OBVIOUS
<1> USE DEF partVars, mainVars, thrVars
<1>1. CASE AppMain
  BY <1>1, Lengths DEF AppMain, StartBatteryControl, StartStation, InitWifi, SoftAp, ApTimeout,
     InitServo, InitThingsboard, StartThread, Poll, DeinitThingsboard, SystemDrop, Join
<1>2. CASE ThreadStep
  BY <1>2 DEF ThreadStep, LoopExit, AdcRound, BatteryRound, PublishTop, PublishSend
<1>3. CASE AttemptEnds \/ LinkChanges \/ HttpdStep
  BY <1>3 DEF AttemptEnds, LinkChanges, HttpdStep
<1>4. CASE UNCHANGED vars
  BY <1>4 DEF vars
<1> QED
  BY <1>1, <1>2, <1>3, <1>4, StepKinds

(* Half a turn is a positive number of hundredths of a degree. *)
LEMMA HalfTurnType == HalfTurn \in Nat /\ HalfTurn > 0
BY DEF HalfTurn, Degree

(* A fraction of at most one of half a turn is at most half a turn. *)
LEMMA Fraction ==
  ASSUME NEW inc \in -Whole .. Whole
  PROVE  (HalfTurn * inc) \div Whole \in -HalfTurn .. HalfTurn
<1>1. Whole \in Int /\ Whole > 0 /\ inc \in Int /\ inc <= Whole /\ -inc <= Whole
  BY TrackerAssumption
<1>2. ASSUME NEW a \in Int, NEW k \in Int
      PROVE  /\ a <= k * Whole => a \div Whole <= k
             /\ k * Whole <= a => k <= a \div Whole
             /\ a \div Whole \in Int
  BY <1>1
<1>3. /\ HalfTurn * inc \in Int /\ -HalfTurn \in Int
      /\ HalfTurn * inc <= HalfTurn * Whole /\ (-HalfTurn) * Whole <= HalfTurn * inc
  BY <1>1, HalfTurnType
<1> QED
  BY <1>2, <1>3, HalfTurnType

(* What the tracker relies on and keeps: the promises of its two targets.  *)
Steady == sys_conf \in ConfType /\ SunTypeOK /\ Tracked /\ TargetsInRange /\ ReversedBeyondHalf

(* The tracker that fails runs on what is on the disk, which nothing can   *)
(* replace before there is a file server.                                  *)
Stuck == httpd = "unset" /\ Misconfigured

IInv == TypeOK /\ Phases /\ Served /\ Counted /\ GivesUpLast
        /\ Fresh /\ Steady /\ (panic = "solar" => Stuck)

(* Both targets begin at 0. *)
LEMMA LevelType == Level \in [1 .. 2 -> Int] /\ Level[1] = 0 /\ Level[2] = 0
BY DEF Level

(* What is known of a servo in sys_conf. *)
LEMMA ServoType ==
  ASSUME NEW conf \in ConfType, NEW i \in 1 .. Len(conf.servo)
  PROVE  /\ conf.servo[i].max_rotation \in Int
         /\ conf.servo[i].can_reverse_logic \in BOOLEAN
<1>1. conf.servo \in Seq(ServoEntries)
  BY DEF ConfType
<1>2. conf.servo[i] \in ServoEntries
  BY <1>1
<1> QED
  BY <1>2 DEF ServoEntries

(* A board that starts has a steady tracker. *)
LEMMA InitSteady == Init => Steady
<1> SUFFICES ASSUME Init PROVE Steady
    OBVIOUS
<1>1. sys_conf \in ConfType /\ sys_conf.servo = <<>>
  BY DEF Init, ConfigurationInit, Zeroed, ConfType
<1>2. target = Level /\ reverse = FALSE /\ centred = FALSE
  BY DEF Init, SunInit
<1>3. SunTypeOK
  <2>1. target \in [1 .. 2 -> Int]
    BY <1>2, LevelType
  <2> QED
    BY <1>2, <2>1, Zenon DEF SunTypeOK
<1> QED
  BY <1>1, <1>2, <1>3 DEF Steady, Tracked, TargetsInRange, ReversedBeyondHalf

(* A configuration whose targets are still level. *)
LEMMA LevelSteady ==
  ASSUME (sys_conf \in ConfType)', (target = Level)', (reverse = FALSE)', (centred = FALSE)'
  PROVE  Steady'
<1>1. (target \in [1 .. 2 -> Int])' /\ target'[1] = 0 /\ target'[2] = 0
  BY LevelType
<1>2. SunTypeOK'
  BY <1>1, Zenon DEF SunTypeOK
<1>3. TargetsInRange'
  <2>1. \A servo : 0 \in Reachable(servo)
    BY HalfTurnType DEF Reachable
  <2>2. SUFFICES ASSUME NEW i \in (DOMAIN sys_conf.servo \cap {1, 2})'
                 PROVE  target'[i] \in Reachable(sys_conf'.servo[i])
    BY DEF TargetsInRange, Reachable, full_360
  <2> QED
    BY <1>1, <2>1
<1>4. ASSUME (Len(sys_conf.servo) >= 2)' PROVE sys_conf'.servo[2].max_rotation \in Int
  <2>1. Len(sys_conf'.servo) \in Nat
    BY DEF ConfType
  <2> QED
    BY <1>4, <2>1, ServoType
<1>5. Tracked' /\ ReversedBeyondHalf'
  BY <1>1, <1>4 DEF Tracked, ReversedBeyondHalf
<1> QED
  BY <1>2, <1>3, <1>5 DEF Steady

(* One axis moves to a target in its range, whatever the imbalance. *)
LEMMA ClampedRange ==
  ASSUME NEW x \in Int
  PROVE  Clamped(x) \in 0 .. HalfTurn
BY HalfTurnType DEF Clamped

(* One turn taken off or added is enough for an angle less than half a turn out. *)
LEMMA WrappedRange ==
  ASSUME NEW x \in Int
  PROVE  /\ Wrapped(x) \in Int
         /\ -HalfTurn <= x /\ x < 3 * HalfTurn => Wrapped(x) \in 0 .. 2 * HalfTurn - 1
BY HalfTurnType DEF Wrapped

(* inc_offset gives an angle; a servo that does not turn round stays within 180. *)
LEMMA IncOffsetType ==
  ASSUME NEW servo \in ServoEntries, NEW val \in Int, NEW inc \in Int
  PROVE  /\ inc_offset(servo, val, inc) \in Int
         /\ ~full_360(servo) => inc_offset(servo, val, inc) \in Reachable(servo)
<1> DEFINE turned == val + (HalfTurn * inc) \div Whole
           moved  == val + (servo.max_rotation * inc) \div Whole
<1>1. turned \in Int /\ moved \in Int
  BY TrackerAssumption, HalfTurnType DEF ServoEntries
<1>2. inc_offset(servo, val, inc) = IF full_360(servo) THEN Wrapped(turned) ELSE Clamped(moved)
  BY DEF inc_offset
<1> HIDE DEF turned, moved
<1>3. Wrapped(turned) \in Int /\ Clamped(moved) \in 0 .. HalfTurn
  BY <1>1, ClampedRange, WrappedRange
<1>4. ~full_360(servo) => Reachable(servo) = 0 .. HalfTurn
  BY DEF Reachable
<1> QED
  BY <1>2, <1>3, <1>4, HalfTurnType

(* A servo that turns round stays within one turn, if it was. *)
LEMMA IncOffsetWraps ==
  ASSUME NEW servo, full_360(servo), NEW val \in Reachable(servo), NEW inc \in -Whole .. Whole
  PROVE  inc_offset(servo, val, inc) \in Reachable(servo)
<1> DEFINE d == (HalfTurn * inc) \div Whole
<1>1. inc_offset(servo, val, inc) = Wrapped(val + d)
  BY DEF inc_offset
<1>2. d \in -HalfTurn .. HalfTurn
  BY Fraction
<1> HIDE DEF d
<1>3. Reachable(servo) = 0 .. 2 * HalfTurn - 1
  BY DEF Reachable
<1>4. val + d \in Int /\ -HalfTurn <= val + d /\ val + d < 3 * HalfTurn
  BY <1>2, <1>3, HalfTurnType
<1> QED
  BY <1>1, <1>3, <1>4, WrappedRange

(* The imbalances are fractions, unless there is an LDR too many. *)
LEMMA SeenType == Seen \subseteq Int /\ (~(sys_conf.LDR_count > 4) => Seen \subseteq -Whole .. Whole)
<1>1. Imbalances \subseteq -Whole .. Whole /\ -3 * Whole \in Int /\ 3 * Whole \in Int
  BY TrackerAssumption
<1>2. -Whole .. Whole \subseteq Int
  BY TrackerAssumption
<1> QED
  BY <1>1, <1>2 DEF Seen

(* Either axis: the target that inc_offset gives is in range if the old one was. *)
LEMMA AxisInRange ==
  ASSUME Steady, NEW i \in {1, 2}, i <= Len(sys_conf.servo), NEW seen \in Seen,
         NEW inc \in {seen, -seen}
  PROVE  LET servo == sys_conf.servo[i]
             to    == inc_offset(servo, target[i], inc)
         IN to \in Int /\ (to \in Reachable(servo) \/ (full_360(servo) /\ sys_conf.LDR_count > 4))
<1> DEFINE servo == sys_conf.servo[i]
<1>1. servo \in ServoEntries /\ i \in DOMAIN sys_conf.servo
  BY DEF Steady, ConfType
<1>2. target[i] \in Int /\ inc \in Int /\ seen \in Int
  BY SeenType DEF Steady, SunTypeOK
<1>3. inc_offset(servo, target[i], inc) \in Int
      /\ (~full_360(servo) => inc_offset(servo, target[i], inc) \in Reachable(servo))
  BY <1>1, <1>2, IncOffsetType
<1>4. CASE full_360(servo) /\ ~(sys_conf.LDR_count > 4)
  <2>1. target[i] \in Reachable(servo)
    BY <1>1, <1>4 DEF Steady, TargetsInRange
  <2>2. seen \in -Whole .. Whole
    BY <1>4, SeenType
  <2>3. inc \in -Whole .. Whole
    BY <1>2, <2>2, TrackerAssumption
  <2> QED
    BY <1>3, <1>4, <2>1, <2>3, IncOffsetWraps
<1> QED
  BY <1>3, <1>4

(* A round on the first axis leaves the tracker steady. *)
LEMMA TrackXSteady ==
  ASSUME Steady, NEW inc \in Seen, TrackX(inc), UNCHANGED sys_conf
  PROVE  Steady'
<1> DEFINE by == IF reverse THEN -inc ELSE inc
           to == inc_offset(sys_conf.servo[1], target[1], by)
<1>1. Len(sys_conf.servo) \in Nat /\ 2 <= Len(sys_conf.servo)
  BY DEF Steady, ConfType, TrackX, Has
<1>2. /\ to \in Int
      /\ to \in Reachable(sys_conf.servo[1]) \/ (full_360(sys_conf.servo[1]) /\ sys_conf.LDR_count > 4)
  BY <1>1, AxisInRange
<1>3. target' = [target EXCEPT ![1] = to] /\ UNCHANGED <<reverse, centred, sys_conf>>
  BY DEF TrackX
<1> HIDE DEF to
<1>4. /\ target \in [1 .. 2 -> Int] /\ target' \in [1 .. 2 -> Int]
      /\ target'[1] = to /\ target'[2] = target[2]
  BY <1>2, <1>3 DEF Steady, SunTypeOK
<1>5. SunTypeOK'
  BY <1>3, <1>4, Zenon DEF Steady, SunTypeOK
<1>6. TargetsInRange'
  <2> SUFFICES ASSUME NEW i \in DOMAIN sys_conf.servo \cap {1, 2}
               PROVE  target'[i] \in Reachable(sys_conf.servo[i])
                      \/ (full_360(sys_conf.servo[i]) /\ sys_conf.LDR_count > 4)
      BY <1>3 DEF TargetsInRange, Reachable, full_360
  <2>1. CASE i = 1
    BY <1>2, <1>4, <2>1
  <2>2. CASE i = 2
    BY <1>4, <2>2 DEF Steady, TargetsInRange
  <2> QED
    BY <2>1, <2>2
<1>7. Tracked' /\ ReversedBeyondHalf'
  <2>1. reverse' = reverse /\ centred' = centred /\ sys_conf' = sys_conf /\ target'[2] = target[2]
    BY <1>3, <1>4
  <2>2. Tracked'
    BY <2>1 DEF Steady, Tracked
  <2>3. ReversedBeyondHalf'
    BY <2>1 DEF Steady, ReversedBeyondHalf, full_360
  <2> QED
    BY <2>2, <2>3
<1> QED
  BY <1>3, <1>5, <1>6, <1>7 DEF Steady

(* A round on the second axis does, and the reversal follows the side. *)
LEMMA TrackYSteady ==
  ASSUME Steady, NEW inc \in Seen, TrackY(inc), UNCHANGED sys_conf
  PROVE  Steady'
<1> DEFINE servo == sys_conf.servo[2]
           to    == inc_offset(servo, target[2], inc)
<1>1. Len(sys_conf.servo) \in Nat /\ 2 <= Len(sys_conf.servo)
  BY DEF Steady, ConfType, TrackY, Has
<1>2. to \in Int /\ (to \in Reachable(servo) \/ (full_360(servo) /\ sys_conf.LDR_count > 4))
  BY <1>1, AxisInRange
<1>3. /\ target' = [target EXCEPT ![2] = to] /\ UNCHANGED sys_conf
      /\ reverse' = (reverse # CrossesHalf(servo, target[2], target'[2]))
      /\ centred' = (centred \/ 2 * target'[2] = servo.max_rotation)
  BY DEF TrackY
<1> HIDE DEF to
<1>4. /\ target \in [1 .. 2 -> Int] /\ target' \in [1 .. 2 -> Int]
      /\ target'[2] = to /\ target'[1] = target[1]
  BY <1>2, <1>3 DEF Steady, SunTypeOK
<1>5. SunTypeOK'
  BY <1>3, <1>4, Zenon DEF Steady, SunTypeOK
<1>6. TargetsInRange'
  <2> SUFFICES ASSUME NEW i \in DOMAIN sys_conf.servo \cap {1, 2}
               PROVE  target'[i] \in Reachable(sys_conf.servo[i])
                      \/ (full_360(sys_conf.servo[i]) /\ sys_conf.LDR_count > 4)
      BY <1>3 DEF TargetsInRange, Reachable, full_360
  <2>1. CASE i = 2
    BY <1>2, <1>4, <2>1
  <2>2. CASE i = 1
    BY <1>4, <2>2 DEF Steady, TargetsInRange
  <2> QED
    BY <2>1, <2>2
<1>7. servo.max_rotation \in Int /\ servo.can_reverse_logic \in BOOLEAN
  BY <1>1, ServoType DEF Steady
<1>8. Tracked' /\ ReversedBeyondHalf'
  <2>1. Tracked'
    <3>1. ASSUME ~centred' PROVE ~(2 * target'[2] = servo.max_rotation)
      BY <1>3, <3>1, Zenon
    <3> QED
      BY <1>3, <3>1 DEF Tracked
  <2>2. SUFFICES ASSUME servo.max_rotation > 0, ~centred'
                 PROVE  reverse' <=> /\ servo.can_reverse_logic /\ ~full_360(servo)
                                     /\ 2 * target'[2] > servo.max_rotation
    BY <1>3, <2>1 DEF ReversedBeyondHalf, full_360
  <2>3. /\ ~centred /\ 2 * target[2] # servo.max_rotation /\ 2 * target'[2] # servo.max_rotation
        /\ reverse <=> /\ servo.can_reverse_logic /\ ~full_360(servo)
                       /\ 2 * target[2] > servo.max_rotation
    BY <1>1, <1>3, <2>2 DEF Steady, Tracked, ReversedBeyondHalf
  <2>4. CrossesHalf(servo, target[2], target'[2])
          <=> /\ servo.can_reverse_logic /\ ~full_360(servo)
              /\ ~(2 * target[2] > servo.max_rotation <=> 2 * target'[2] > servo.max_rotation)
    BY <1>4, <1>7, <2>3 DEF CrossesHalf
  <2>5. reverse' <=> ~(reverse <=> CrossesHalf(servo, target[2], target'[2]))
    <3>1. reverse \in BOOLEAN /\ CrossesHalf(servo, target[2], target'[2]) \in BOOLEAN
      BY Zenon DEF Steady, SunTypeOK, CrossesHalf
    <3> QED
      BY <1>3, <3>1, Zenon
  <2> QED
    BY <2>3, <2>4, <2>5, Zenon
<1> QED
  BY <1>3, <1>5, <1>6, <1>8 DEF Steady

(* No step of the board makes the tracker unsteady. *)
LEMMA SunStep ==
  ASSUME IInv, [Next]_vars
  PROVE  Fresh' /\ Steady'
<1>1. CASE Reset \/ LoadConfig
  <2>1. (target = Level)' /\ (reverse = FALSE)' /\ (centred = FALSE)'
    BY <1>1 DEF IInv, Fresh, Steady, SunTypeOK, Reset, LoadConfig, sunVars
  <2>2. \E f : sys_conf' = Loads(f) \/ sys_conf' = Zeroed
    BY <1>1 DEF Reset, LoadConfig, InitConfig
  <2>3. Zeroed \in ConfType
    BY DEF Zeroed, ConfType
  <2> QED
    BY <2>1, <2>2, <2>3, LoadsType, LevelSteady DEF Fresh
<1>2. CASE SolarRound
  <2>1. UNCHANGED <<sys_conf, mpc>> /\ mpc \notin {"boot", "config"}
    BY <1>2 DEF SolarRound, IInv, Phases, Booting
  <2>2. CASE Track
    BY <2>1, <2>2, TrackXSteady, TrackYSteady DEF IInv, Track, Fresh
  <2>3. CASE UNCHANGED sunVars
    BY <2>1, <2>3 DEF IInv, Fresh, Steady, sunVars, SunTypeOK, Tracked, TargetsInRange,
       ReversedBeyondHalf, Reachable, full_360
  <2> QED
    BY <1>2, <2>2, <2>3 DEF SolarRound
<1>3. CASE /\ UNCHANGED <<sunVars, sys_conf>>
           /\ mpc' \in {"boot", "config"} => mpc \in {"boot", "config"}
  BY <1>3 DEF IInv, Fresh, Steady, sunVars, SunTypeOK, Tracked, TargetsInRange,
     ReversedBeyondHalf, Reachable, full_360
<1> QED
  BY <1>1, <1>2, <1>3, SunFrame

(* Every step keeps the phases of app_main. *)
LEMMA PhasesStep ==
  ASSUME IInv, [Next]_vars
  PROVE  Phases'
<1> USE DEF Phases, Booting, ControlSteps
<1>1. Phases /\ TypeOK
  BY DEF IInv
<1>2. CASE Reset
  BY <1>2 DEF Reset
<1>3. CASE AppMain
  <2> USE <1>1, Lengths DEF partVars, mainVars, thrVars
  <2>1. CASE StartBatteryControl
    BY <2>1 DEF StartBatteryControl
  <2>2. CASE LoadConfig \/ StartStation \/ InitWifi \/ SoftAp \/ ApTimeout
    BY <2>2 DEF LoadConfig, StartStation, InitWifi, SoftAp, ApTimeout
  <2>3. CASE InitServo \/ InitThingsboard
    BY <2>3 DEF InitServo, InitThingsboard
  <2>4. CASE StartThread
    BY <2>4 DEF StartThread, TypeOK
  <2>5. CASE Poll \/ DeinitThingsboard \/ SystemDrop
    BY <2>5 DEF Poll, DeinitThingsboard, SystemDrop
  <2>6. CASE Join
    BY <2>6 DEF Join, TypeOK
  <2> QED
    BY <1>3, <2>1, <2>2, <2>3, <2>4, <2>5, <2>6 DEF AppMain
<1>4. CASE ThreadStep
  <2> USE <1>1 DEF partVars, mainVars, thrVars
  <2>1. ASSUME NEW t \in Stoppable, LoopExit(t) PROVE Phases'
    BY <2>1 DEF LoopExit, Return, Stoppable
  <2>2. CASE PublishTop
    <3>1. /\ running' \cup done' \subseteq running \cup done
          /\ pub' = "send" => "publish" \in running
          /\ UNCHANGED <<mpc, started, joined, tb>>
      BY <2>2 DEF PublishTop, Return
    <3>2. "publish" \in running => mpc \in ControlSteps \ {"tb"}
      BY <1>1 DEF TypeOK, MainSteps
    <3> QED
      BY <1>1, <3>1, <3>2
  <2>3. CASE AdcRound \/ BatteryRound \/ SolarRound \/ PublishSend
    BY <2>3 DEF AdcRound, BatteryRound, SolarRound, PublishSend
  <2> QED
    BY <1>4, <2>1, <2>2, <2>3 DEF ThreadStep
<1>5. CASE AttemptEnds \/ LinkChanges \/ HttpdStep \/ UNCHANGED vars
  BY <1>1, <1>5 DEF AttemptEnds, LinkChanges, HttpdStep, vars, partVars, mainVars, thrVars
<1> QED
  BY <1>2, <1>3, <1>4, <1>5, StepKinds

(* Every step keeps what the file server and the disk may be. *)
LEMMA ServedStep ==
  ASSUME IInv, [Next]_vars
  PROVE  Served'
<1> USE DEF Served, ControlSteps
<1>1. Served
  BY DEF IInv
<1>2. CASE Reset
  BY <1>2 DEF Reset, Done
<1>3. CASE AppMain
  <2> USE <1>1 DEF partVars, fileVars, mainVars, thrVars
  <2>1. CASE LoadConfig
    BY <2>1 DEF LoadConfig, InitConfig
  <2>2. CASE StartBatteryControl \/ StartStation \/ InitWifi \/ ApTimeout
    BY <2>2 DEF StartBatteryControl, StartStation, InitWifi, ApTimeout
  <2>3. CASE SoftAp
    BY <2>3 DEF SoftAp, start_file_server
  <2>4. CASE InitServo \/ InitThingsboard \/ StartThread \/ Poll \/ DeinitThingsboard
             \/ SystemDrop \/ Join
    BY <2>4 DEF InitServo, InitThingsboard, StartThread, Poll, DeinitThingsboard, SystemDrop, Join
  <2> QED
    BY <1>3, <2>1, <2>2, <2>3, <2>4 DEF AppMain
<1>4. CASE HttpdStep
  <2>1. httpd # "unset" /\ UNCHANGED <<httpd, mpc, wifi_ok, sys_conf>>
    BY <1>1, <1>4 DEF HttpdStep, ServerStep, UploadOpen, UploadReceive, UploadBroken, UploadClose,
       DeleteFile, UploadBegin, mainVars
  <2> QED
    BY <1>1, <2>1
<1>5. CASE ThreadStep \/ AttemptEnds \/ LinkChanges \/ UNCHANGED vars
  BY <1>1, <1>5 DEF ThreadStep, LoopExit, AdcRound, BatteryRound, SolarRound, PublishTop,
     PublishSend, AttemptEnds, LinkChanges, vars, partVars, fileVars, mainVars
<1> QED
  BY <1>2, <1>3, <1>4, <1>5, StepKinds

(* Every step keeps the count of failures. *)
LEMMA CountedStep ==
  ASSUME IInv, [Next]_vars
  PROVE  Counted' /\ GivesUpLast'
<1> USE DEF Counted, GivesUpLast
<1>1. Counted /\ GivesUpLast /\ WifiTypeOK /\ EXAMPLE_ESP_MAXIMUM_RETRY \in Nat
  BY RetryAssumption DEF IInv, TypeOK
<1>2. CASE Reset
  BY <1>2 DEF Reset
<1>3. CASE AppMain
  <2> USE <1>1 DEF partVars, wifiVars, mainVars, thrVars
  <2>1. CASE LoadConfig
    BY <2>1 DEF LoadConfig
  <2>2. CASE StartStation
    BY <2>2 DEF StartStation, StaStart, Connect
  <2>3. CASE SoftAp
    BY <2>3 DEF SoftAp, StaStop
  <2>4. CASE StartBatteryControl \/ InitWifi \/ ApTimeout \/ InitServo \/ InitThingsboard
             \/ StartThread \/ Poll \/ DeinitThingsboard \/ SystemDrop \/ Join
    BY <2>4, Lengths DEF StartBatteryControl, InitWifi, ApTimeout, InitServo, InitThingsboard,
       StartThread, Poll, DeinitThingsboard, SystemDrop, Join
  <2> QED
    BY <1>3, <2>1, <2>2, <2>3, <2>4 DEF AppMain
<1>4. CASE AttemptEnds \/ LinkChanges
  <2>1. UNCHANGED <<mpc, sys_conf>>
    BY <1>4 DEF AttemptEnds, LinkChanges, mainVars
  <2>2. CASE StaDisconnected(sys_conf.ssid)
    BY <1>1, <2>1, <2>2 DEF StaDisconnected, Connect, WifiTypeOK
  <2>3. CASE Associate \/ GotIp
    BY <1>1, <2>1, <2>3 DEF Associate, GotIp
  <2> QED
    BY <1>4, <2>2, <2>3 DEF AttemptEnds, LinkChanges
<1>5. CASE ThreadStep \/ HttpdStep \/ UNCHANGED vars
  BY <1>1, <1>5 DEF ThreadStep, LoopExit, AdcRound, BatteryRound, SolarRound, PublishTop,
     PublishSend, HttpdStep, vars, partVars, wifiVars, mainVars
<1> QED
  BY <1>2, <1>3, <1>4, <1>5, StepKinds

(* The tracker fails by its configuration, and while app_main controls     *)
(* that is the one on the disk.                                            *)
LEMMA FailsStuck ==
  ASSUME IInv, SolarRound, panic' = "solar", panic # "solar"
  PROVE  Stuck'
<1>1. UNCHANGED <<fileVars, sys_conf>>
  BY DEF SolarRound
<1>2. Len(sys_conf.servo) < 2 \/ sys_conf.LDR_count > 4
  <2>1. TrackFails
    BY DEF SolarRound
  <2>2. Len(sys_conf.servo) \in Nat
    BY DEF IInv, Steady, ConfType
  <2> QED
    BY <2>1, <2>2 DEF TrackFails, Has
<1>3. httpd = "unset" /\ sys_conf = Loads(disk)
  <2>1. "solar" \in running
    BY DEF SolarRound
  <2>2. mpc \in ControlSteps
    BY <2>1 DEF IInv, Phases, TypeOK, MainSteps, Booting, ControlSteps
  <2> QED
    BY <2>2 DEF IInv, Served, ControlSteps
<1> QED
  BY <1>1, <1>2, <1>3 DEF Stuck, Misconfigured, fileVars

(* Without the access point there is no file server, and without it the    *)
(* disk is left alone, through resets too.                                 *)
LEMMA StuckStep ==
  ASSUME IInv, Stuck, [Next]_vars, mpc' # "ap"
  PROVE  Stuck'
<1>1. httpd' = "unset" /\ disk' = disk
  <2>1. CASE Reset
    BY <2>1 DEF Reset
  <2>2. CASE AppMain
    BY <2>2 DEF AppMain, StartBatteryControl, LoadConfig, StartStation, InitWifi, SoftAp, ApTimeout,
       InitServo, InitThingsboard, StartThread, Poll, DeinitThingsboard, SystemDrop, Join,
       Stuck, partVars, fileVars
  <2>3. CASE HttpdStep
    BY <2>3 DEF HttpdStep, ServerStep, UploadOpen, UploadReceive, UploadBroken, UploadClose,
       DeleteFile, UploadBegin, IInv, Served, Stuck
  <2>4. CASE ThreadStep \/ AttemptEnds \/ LinkChanges \/ UNCHANGED vars
    BY <2>4 DEF ThreadStep, LoopExit, AdcRound, BatteryRound, SolarRound, PublishTop,
       PublishSend, AttemptEnds, LinkChanges, vars, partVars, fileVars, Stuck
  <2> QED
    BY <2>1, <2>2, <2>3, <2>4, StepKinds
<1> QED
  BY <1>1 DEF Stuck, Misconfigured

(* Every step keeps what is known of a panic of the tracker. *)
LEMMA FailsStep ==
  ASSUME IInv, [Next]_vars
  PROVE  (panic = "solar" => Stuck)'
<1>1. CASE Reset
  BY <1>1 DEF Reset
<1>2. CASE SolarRound
  <2>1. panic' = "solar" /\ panic = "solar" => mpc' = mpc /\ UNCHANGED <<disk, httpd>>
    BY <1>2 DEF SolarRound, fileVars
  <2> QED
    BY <1>2, <2>1, FailsStuck DEF IInv, Stuck, Misconfigured
<1>3. ASSUME panic' = "solar", ~Reset, ~SolarRound
      PROVE  UNCHANGED vars
  <2> USE DEF mainVars
  <2>1. ASSUME AppMain PROVE panic = "solar"
    BY <1>3, <2>1 DEF AppMain, StartBatteryControl, LoadConfig, StartStation, InitWifi, SoftAp,
       ApTimeout, InitServo, InitThingsboard, StartThread, Poll, DeinitThingsboard, SystemDrop, Join
  <2>2. ASSUME ThreadStep PROVE panic = "solar"
    BY <1>3, <2>2 DEF ThreadStep, LoopExit, AdcRound, BatteryRound, PublishTop, PublishSend
  <2>3. ASSUME AttemptEnds \/ LinkChanges \/ HttpdStep PROVE panic = "solar"
    BY <1>3, <2>3 DEF AttemptEnds, LinkChanges, HttpdStep
  <2> QED
    BY <1>3, <2>1, <2>2, <2>3 DEF Next, Panic, PowerLoss, esp_restart
<1>4. UNCHANGED vars => UNCHANGED <<panic, httpd, disk>>
  BY DEF vars, partVars, fileVars, mainVars
<1> QED
  BY <1>1, <1>2, <1>3, <1>4 DEF IInv, Stuck, Misconfigured

(* Every step keeps the types, one variable after the other. *)
LEMMA TypeStep ==
  ASSUME IInv, [Next]_vars
  PROVE  TypeOK'
<1>1. TypeOK
  BY DEF IInv
<1>2. BatteryTypeOK'
  <2> USE DEF BatteryTypeOK
  <2>1. CASE Reset
    BY <2>1, Zenon DEF Reset
  <2>2. CASE AdcRound
    <3>1. \E v \in Readings : StoreReading(v)
      BY <2>2 DEF AdcRound, Healthy
    <3> QED
      BY <1>1, <3>1 DEF TypeOK, StoreReading
  <2>3. CASE BatteryRound
    BY <1>1, <2>3 DEF TypeOK, BatteryRound, BatteryControlLoop, LoadLow, Disable, LoadHigh, Enable
  <2>4. CASE UNCHANGED battVars
    BY <1>1, <2>4 DEF TypeOK, battVars
  <2>5. ASSUME ~Reset, ~AdcRound, ~BatteryRound PROVE UNCHANGED battVars
    BY <2>5, StepKinds DEF AppMain, StartBatteryControl, LoadConfig, StartStation, InitWifi,
       SoftAp, ApTimeout, InitServo, InitThingsboard, StartThread, Poll, DeinitThingsboard,
       SystemDrop, Join, ThreadStep, LoopExit, SolarRound, PublishTop, PublishSend, AttemptEnds,
       LinkChanges, HttpdStep, vars, partVars
  <2> QED
    BY <2>1, <2>2, <2>3, <2>4, <2>5
<1>3. WifiTypeOK'
  <2> USE RetryAssumption DEF WifiTypeOK
  <2>1. CASE Reset
    BY <2>1 DEF Reset
  <2>2. CASE StartStation \/ SoftAp
    BY <1>1, <2>2 DEF TypeOK, StartStation, StaStart, Connect, SoftAp, StaStop
  <2>3. CASE StaDisconnected(sys_conf.ssid)
    <3>1. (sta \in {"connecting", "associated", "online", "idle"}
           /\ s_retry_num \in 0 .. EXAMPLE_ESP_MAXIMUM_RETRY /\ failures \in Nat)'
      BY <1>1, <2>3 DEF TypeOK, StaDisconnected, Connect
    <3>2. bits' = bits \/ bits' = bits \cup {"FAIL"}
      BY <2>3 DEF StaDisconnected
    <3> QED
      BY <1>1, <3>1, <3>2 DEF TypeOK
  <2>4. CASE Associate \/ GotIp
    <3>1. bits' = bits \/ bits' = bits \cup {"CONNECTED"}
      BY <2>4 DEF Associate, GotIp
    <3>2. bits' \subseteq {"CONNECTED", "FAIL"}
      BY <1>1, <3>1 DEF TypeOK
    <3> QED
      BY <1>1, <2>4, <3>2 DEF TypeOK, Associate, GotIp
  <2>5. CASE UNCHANGED wifiVars
    BY <1>1, <2>5 DEF TypeOK, wifiVars
  <2>6. ASSUME ~Reset, ~StartStation, ~SoftAp, ~StaDisconnected(sys_conf.ssid), ~Associate, ~GotIp
        PROVE  UNCHANGED wifiVars
    BY <2>6, StepKinds DEF AppMain, StartBatteryControl, LoadConfig, InitWifi, ApTimeout,
       InitServo, InitThingsboard, StartThread, Poll, DeinitThingsboard, SystemDrop, Join,
       ThreadStep, LoopExit, AdcRound, BatteryRound, SolarRound, PublishTop, PublishSend,
       AttemptEnds, LinkChanges, HttpdStep, vars, partVars
  <2> QED
    BY <2>1, <2>2, <2>3, <2>4, <2>5, <2>6
<1>4. FileTypeOK'
  <2> USE DEF FileTypeOK
  <2>1. NoUpload \in Uploads
    BY DEF NoUpload, Uploads
  <2>2. CASE Reset
    BY <1>1, <2>1, <2>2 DEF TypeOK, Reset, Done
  <2>3. CASE SoftAp
    BY <1>1, <2>3 DEF TypeOK, SoftAp, start_file_server
  <2>4. CASE HttpdStep
    <3>1. upload.what \in Uploads /\ (upload.what.file = "config" => upload.what.content \in Documents)
      BY <1>1 DEF TypeOK, Uploads
    <3>2. CASE ServerStep
      <4>1. upload' \in [pc : {"idle", "open", "receive", "close", "restart"}, what : Uploads]
        <5>1. Done \/ \E pc \in {"receive", "close", "restart"} : Goes(pc)
          BY <3>2 DEF ServerStep, UploadOpen, UploadReceive, UploadBroken, UploadClose
        <5>2. CASE Done
          BY <2>1, <5>2 DEF Done
        <5>3. CASE \E pc \in {"receive", "close", "restart"} : Goes(pc)
          BY <1>1, <5>3 DEF TypeOK, Goes
        <5> QED
          BY <5>1, <5>2, <5>3
      <4>2. UNCHANGED disk \/ \E x \in {"partial", "absent", upload.what.content} : Put(x)
        BY <3>2 DEF ServerStep, UploadOpen, UploadReceive, UploadBroken, UploadClose
      <4>3. disk' \in Documents \cup {"absent", "partial"}
        BY <1>1, <3>1, <4>2 DEF TypeOK, Put
      <4>4. UNCHANGED httpd
        BY <3>2 DEF ServerStep, UploadOpen, UploadReceive, UploadBroken, UploadClose
      <4> QED
        BY <1>1, <4>1, <4>3, <4>4 DEF TypeOK
    <3>3. CASE DeleteFile \/ \E what \in Uploads : UploadBegin(what)
      BY <1>1, <3>3 DEF TypeOK, DeleteFile, UploadBegin
    <3> QED
      BY <2>4, <3>2, <3>3 DEF HttpdStep
  <2>5. CASE UNCHANGED fileVars
    BY <1>1, <2>5 DEF TypeOK, fileVars
  <2>6. ASSUME ~Reset, ~SoftAp, ~HttpdStep PROVE UNCHANGED fileVars
    BY <2>6, StepKinds DEF AppMain, StartBatteryControl, LoadConfig, StartStation, InitWifi,
       ApTimeout, InitServo, InitThingsboard, StartThread, Poll, DeinitThingsboard, SystemDrop,
       Join, ThreadStep, LoopExit, AdcRound, BatteryRound, SolarRound, PublishTop, PublishSend,
       AttemptEnds, LinkChanges, vars, partVars
  <2> QED
    BY <2>2, <2>3, <2>4, <2>5, <2>6
<1>5. SunTypeOK'
  BY SunStep DEF Steady
<1>6. (sys_conf \in {Loads(f) : f \in Documents \cup {"absent", "partial"}})'
  <2>1. Zeroed = Loads("absent")
    BY ConfigurationAssumption DEF Loads
  <2>2. CASE Reset
    BY <2>1, <2>2 DEF Reset
  <2>3. CASE LoadConfig
    BY <1>1, <2>3 DEF LoadConfig, InitConfig, TypeOK, FileTypeOK
  <2>4. CASE SolarRound
    BY <1>1, <2>4 DEF SolarRound, TypeOK
  <2> QED
    BY <1>1, <2>2, <2>3, <2>4, SunFrame DEF TypeOK
<1>7. (/\ mpc \in MainSteps
       /\ started \in 0 .. Len(StartOrder) /\ joined \in 0 .. Len(JoinOrder))'
  <2> USE Lengths DEF MainSteps, mainVars
  <2>1. CASE Reset
    BY <2>1 DEF Reset
  <2>2. CASE AppMain
    BY <1>1, <2>2 DEF AppMain, TypeOK, IInv, Phases, StartBatteryControl, LoadConfig,
       StartStation, InitWifi, SoftAp, ApTimeout, InitServo, InitThingsboard, StartThread, Poll,
       DeinitThingsboard, SystemDrop, Join
  <2>3. ASSUME ~Reset, ~AppMain PROVE UNCHANGED <<mpc, started, joined>>
    BY <2>3, StepKinds DEF ThreadStep, LoopExit, AdcRound, BatteryRound, SolarRound, PublishTop,
       PublishSend, AttemptEnds, LinkChanges, HttpdStep, vars
  <2> QED
    BY <1>1, <2>1, <2>2, <2>3 DEF TypeOK
<1>8. (running \in SUBSET Threads /\ done \in SUBSET Threads)'
  <2> USE DEF thrVars
  <2>1. CASE Reset
    BY <2>1 DEF Reset
  <2>2. CASE StartBatteryControl \/ InitServo
    BY <1>1, <2>2, ThreadsAre DEF TypeOK, StartBatteryControl, InitServo, Stoppable
  <2>3. CASE StartThread
    <3>1. started' \in 1 .. 4
      BY <1>1, <2>3, Lengths DEF TypeOK, StartThread, IInv, Phases
    <3> QED
      BY <1>1, <2>3, <3>1, ThreadsAre DEF TypeOK, StartThread
  <2>4. CASE \E t \in {"publish"} \cup Stoppable : Return(t)
    BY <1>1, <2>4, ThreadsAre DEF TypeOK, Return
  <2>5. CASE UNCHANGED <<running, done>>
    BY <1>1, <2>5 DEF TypeOK
  <2>6. ASSUME ~Reset, ~StartBatteryControl, ~InitServo, ~StartThread,
               ~(\E t \in {"publish"} \cup Stoppable : Return(t))
        PROVE  UNCHANGED <<running, done>>
    BY <2>6, StepKinds DEF AppMain, LoadConfig, StartStation, InitWifi, SoftAp, ApTimeout,
       InitThingsboard, Poll, DeinitThingsboard, SystemDrop, Join, ThreadStep, LoopExit, AdcRound,
       BatteryRound, SolarRound, PublishTop, PublishSend, AttemptEnds, LinkChanges, HttpdStep, vars
  <2> QED
    BY <2>1, <2>2, <2>3, <2>4, <2>5, <2>6
<1>9. (/\ to_sleep \in BOOLEAN /\ wifi_ok \in BOOLEAN
       /\ tb \in {"unset", "alive", "destroyed"}
       /\ pub \in {"top", "send"} /\ sampled \in BOOLEAN
       /\ panic \in {"none", "solar", "softap"} /\ around \in Surroundings)'
  <2> USE DEF mainVars, thrVars
  <2>1. CASE Reset
    BY <1>1, <2>1 DEF TypeOK, Reset
  <2>2. CASE AppMain
    <3>1. CASE InitWifi
      <4>1. wifi_ok' \in BOOLEAN
        BY <3>1 DEF InitWifi
      <4> QED
        BY <1>1, <3>1, <4>1, Zenon DEF TypeOK, InitWifi
    <3>2. CASE SoftAp
      <4>1. panic' \in {"none", "softap"}
        BY <3>2 DEF SoftAp
      <4> QED
        BY <1>1, <3>2, <4>1 DEF TypeOK, SoftAp
    <3>3. CASE StartBatteryControl \/ LoadConfig \/ StartStation \/ ApTimeout \/ InitServo
               \/ StartThread \/ Poll \/ Join
      BY <1>1, <3>3 DEF TypeOK, StartBatteryControl, LoadConfig, StartStation, ApTimeout,
         InitServo, StartThread, Poll, Join
    <3>4. CASE InitThingsboard \/ DeinitThingsboard \/ SystemDrop
      BY <1>1, <3>4 DEF TypeOK, InitThingsboard, DeinitThingsboard, SystemDrop
    <3> QED
      BY <2>2, <3>1, <3>2, <3>3, <3>4 DEF AppMain
  <2>3. CASE ThreadStep
    BY <1>1, <2>3 DEF TypeOK, ThreadStep, LoopExit, AdcRound, BatteryRound, SolarRound,
       PublishTop, PublishSend
  <2>4. CASE AttemptEnds \/ LinkChanges \/ HttpdStep \/ UNCHANGED vars
    BY <1>1, <2>4 DEF TypeOK, AttemptEnds, LinkChanges, HttpdStep, vars
  <2> QED
    BY <2>1, <2>2, <2>3, <2>4, StepKinds
<1> QED
  BY <1>2, <1>3, <1>4, <1>5, <1>6, <1>7, <1>8, <1>9 DEF TypeOK

(* The invariant holds at the first boot. *)
LEMMA InitIInv == Init => IInv
<1> SUFFICES ASSUME Init PROVE IInv
    OBVIOUS
<1>1. TypeOK
  <2>1. BatteryTypeOK
    BY Zenon DEF Init, BatteryInit, BatteryTypeOK
  <2>2. WifiTypeOK
    BY RetryAssumption DEF Init, WifiInit, WifiTypeOK
  <2>3. FileTypeOK
    BY DEF Init, FileInit, FileTypeOK, Uploads, NoUpload
  <2>4. sys_conf = Loads("absent")
    BY ConfigurationAssumption DEF Init, ConfigurationInit, Loads
  <2>5. mpc \in MainSteps /\ started \in 0 .. Len(StartOrder) /\ joined \in 0 .. Len(JoinOrder)
    BY Lengths DEF Init, MainSteps
  <2>6. running \in SUBSET Threads /\ done \in SUBSET Threads
    BY DEF Init
  <2>7. /\ to_sleep \in BOOLEAN /\ wifi_ok \in BOOLEAN /\ sampled \in BOOLEAN
        /\ tb = "unset" /\ pub = "top" /\ panic = "none" /\ around \in Surroundings
    BY Zenon DEF Init
  <2> QED
    BY <2>1, <2>2, <2>3, <2>4, <2>5, <2>6, <2>7, InitSteady DEF Steady, TypeOK
<1>2. Phases
  BY Lengths DEF Init, Phases, Booting, ControlSteps
<1>3. Served
  BY DEF Init, FileInit, Served, ControlSteps
<1>4. Counted /\ GivesUpLast
  BY DEF Init, WifiInit, Counted, GivesUpLast
<1>5. Fresh /\ panic = "none"
  BY DEF Init, SunInit, Fresh
<1> QED
  BY <1>1, <1>2, <1>3, <1>4, <1>5, InitSteady DEF IInv

(* Every step keeps the invariant. *)
LEMMA NextIInv == IInv /\ [Next]_vars => IInv'
BY TypeStep, PhasesStep, ServedStep, CountedStep, SunStep, FailsStep DEF IInv

(* The conjunction of the properties with what they need of each other     *)
(* holds in every state of the board, in every boot.                       *)
THEOREM InductiveInvariant == Spec => []IInv
BY InitIInv, NextIInv, PTL DEF Spec

(* Every variable keeps its type: no reading, configuration, request or    *)
(* interrupted write leads outside it.                                     *)
THEOREM TypeCorrect == Spec => []TypeOK
<1>1. IInv => TypeOK
  BY DEF IInv
<1> QED
  BY <1>1, InductiveInvariant, PTL

(* send_telemetry never runs before init_thingsboard (domohelios.cpp:192). *)
THEOREM ClientIsSet == Spec => []TbSetBeforeUse
<1>1. IInv => TbSetBeforeUse
  BY DEF IInv, Phases, TbSetBeforeUse
<1> QED
  BY <1>1, InductiveInvariant, PTL

(* The file server and the control system never share a boot's time        *)
(* (domohelios.cpp:179-187).                                               *)
THEOREM ServerAlone == Spec => []ApExcludesControl
<1>1. IInv => ApExcludesControl
  BY DEF IInv, TypeOK, MainSteps, Phases, Booting, Served, ControlSteps, ApExcludesControl
<1> QED
  BY <1>1, InductiveInvariant, PTL

(* What is on the disk is what the control system was configured with,     *)
(* whatever uploads, deletions and resets there were before.               *)
THEOREM ConfiguredAsStored == Spec => []ControlsAsStored
<1>1. IInv => ControlsAsStored
  BY DEF IInv, Served, ControlSteps, ControlsAsStored
<1> QED
  BY <1>1, InductiveInvariant, PTL

(* No retry is lost: a station with an ssid stops trying only after a full *)
(* budget of failures in a row (wifi_def.c:17-27).                         *)
THEOREM RetriesSpent == Spec => []GivesUpLast
<1>1. IInv => GivesUpLast
  BY DEF IInv
<1> QED
  BY <1>1, InductiveInvariant, PTL

(* For any light, any rotations and any resolution of the imbalance a      *)
(* target stays in half a turn or, for a servo that turns all round, in a  *)
(* turn, whatever part of it max_rotation is (solar_sys.hpp:82-119).       *)
THEOREM TargetsStayInRange == Spec => []TargetsInRange
<1>1. IInv => TargetsInRange
  BY DEF IInv, Steady
<1> QED
  BY <1>1, InductiveInvariant, PTL

(* The flag that is only ever toggled still tells the side of the middle   *)
(* (solar_sys.hpp:101-105).                                                *)
THEOREM ReverseTellsSide == Spec => []ReversedBeyondHalf
<1>1. IInv => ReversedBeyondHalf
  BY DEF IInv, Steady
<1> QED
  BY <1>1, InductiveInvariant, PTL

(* A board that was brought down by the configuration of its tracker is so *)
(* again, boot after boot, until it gets to the access point: no reset and *)
(* no interrupted upload repairs the file (domohelios.cpp:179-187).        *)
THEOREM RepairNeedsAccessPoint == Spec => RepairedOnlyOffline
<1>1. IInv /\ panic = "solar" => Stuck
  BY DEF IInv
<1>2. IInv /\ Stuck /\ [Next]_vars /\ (mpc # "ap")' => Stuck'
  BY StuckStep
<1>3. Stuck => Misconfigured
  BY DEF Stuck
<1> QED
  BY <1>1, <1>2, <1>3, InductiveInvariant, PTL DEF Spec, RepairedOnlyOffline
=============================================================================
