---------------------------- MODULE SolarTracker ----------------------------
(***************************************************************************)
(* The solar tracker (src/main/include/solar_sys/solar_sys.hpp): once a    *)
(* second enhance_focus compares the light on opposite sides of the panel  *)
(* and moves the targets of two servos.  Angles are integers in hundredths *)
(* of a degree.                                                            *)
(*                                                                         *)
(* The readings of a round are any; what counts is the imbalance they      *)
(* give, a fraction between -1 and 1 of the light, and there is none       *)
(* unless there are two LDRs.  A round moves one axis, the other or both:  *)
(* an action per axis makes all of these.  Imbalances leaves out what the  *)
(* threshold of 175 ignores.                                               *)
(***************************************************************************)
EXTENDS Configuration

CONSTANTS Imbalances,  \* x_diff, y_diff in units of 1 / Whole
          Whole
ASSUME TrackerAssumption == Whole \in Nat \ {0} /\ Imbalances \subseteq -Whole .. Whole

VARIABLES
  target,   \* target_servo: <<servo_b_target, servo_a_target>>
  reverse,  \* of servo.at(1), the only one that is asked
  centred   \* history: servo.at(1) has been exactly at axis_half

sunVars == <<target, reverse, centred>>

Degree == 100
HalfTurn == 180 * Degree
Level == [i \in 1 .. 2 |-> 0]
SunTypeOK == target \in [1 .. 2 -> Int] /\ reverse \in BOOLEAN /\ centred \in BOOLEAN
SunInit   == target = Level /\ reverse = FALSE /\ centred = FALSE

full_360(servo) == 10 * servo.max_rotation >= 3599 * Degree

(* Mutant: the lower end is forgotten. *)
ClampedAbove(x) == IF x > HalfTurn THEN HalfTurn - 1 ELSE x
Clamped(x) == IF x < 0 THEN 0 ELSE IF x > HalfTurn THEN HalfTurn - 1 ELSE x

(* One turn is taken off or added, once. *)
Wrapped(x) == LET turn == 2 * HalfTurn
                  once == IF x < 0 THEN x + turn ELSE IF x > turn THEN x - turn ELSE x
              IN IF once = turn THEN 0 ELSE once

(* inc_offset: the new target. *)
inc_offset(servo, val, inc) ==
  IF full_360(servo)
  THEN Wrapped(val + (HalfTurn * inc) \div Whole)
  ELSE Clamped(val + (servo.max_rotation * inc) \div Whole)

(* Mutant: the way back is forgotten. *)
CrossesHalfUp(servo, val, to) ==
  /\ ~full_360(servo) /\ servo.can_reverse_logic
  /\ 2 * val < servo.max_rotation /\ 2 * to > servo.max_rotation

CrossesHalf(servo, val, to) ==
  ~full_360(servo) /\ servo.can_reverse_logic
  /\ ((2 * val < servo.max_rotation /\ 2 * to > servo.max_rotation)
      \/ (2 * val > servo.max_rotation /\ 2 * to < servo.max_rotation))

(* servo.at(i) *)
Has(i) == i < Len(sys_conf.servo)

(* What a round may see.  init_json_sys_config takes the source of a fifth *)
(* LDR from behind an array of four: then it is anything.                  *)
Seen == IF sys_conf.LDR_count < 2 THEN {}
        ELSE Imbalances \cup (IF sys_conf.LDR_count > 4 THEN {-3 * Whole, 3 * Whole} ELSE {})

TrackX(inc) ==
  /\ Has(0) /\ Has(1)
  /\ target' = [target EXCEPT ![1] = inc_offset(sys_conf.servo[1], @, IF reverse THEN -inc ELSE inc)]
  /\ UNCHANGED <<reverse, centred>>

TrackY(inc) ==
  /\ Has(1)
  /\ LET servo == sys_conf.servo[2]
     IN /\ target' = [target EXCEPT ![2] = inc_offset(servo, @, inc)]
        /\ reverse' = (reverse # CrossesHalf(servo, target[2], target'[2]))
        /\ centred' = (centred \/ 2 * target'[2] = servo.max_rotation)

Track == \E inc \in Seen : TrackX(inc) \/ TrackY(inc)

(* std::out_of_range, which nobody catches, or a load from nowhere. *)
TrackFails == (Seen # {} /\ ~(Has(0) /\ Has(1))) \/ sys_conf.LDR_count > 4
=============================================================================
