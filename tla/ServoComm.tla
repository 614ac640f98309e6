----------------------------- MODULE ServoComm -----------------------------
(***************************************************************************)
(* The servo library (src/main/include/servo_ctrl/servo_util.cpp, .hpp):   *)
(* one thread per Servo_comm that sweeps its servo towards a shared target *)
(* angle, and an owner thread that turns the servos off, restores them and *)
(* re-targets them, as the comment before servo_thread_init lays out.      *)
(*                                                                         *)
(* Angles are integers in units of which Deg make a degree.  Duties are    *)
(* unsigned integers of DutyMod values (2^32 in the code).  Converting a   *)
(* negative float to uint32_t is undefined in C++; the build's conversion  *)
(* truncates and keeps the two's complement, which moving a servo back     *)
(* relies on.                                                              *)
(***************************************************************************)
EXTENDS Integers, FiniteSets

CONSTANTS NServos,       \* size of servo_bind
          Angles,        \* target angles that other threads store
          Deg,           \* angle units in a degree
          ROT_MAX_DEG,   \* 180, in angle units
          Reversed,      \* the servos whose REVERSED is 1
          DUTY_RANGE_US, \* duty between the two ends of the rotation
          STEPS,         \* duty updates of a sweep
          InitialDuty,   \* (1 << bits) * initial_duty / 20000
          DutyMod,
          AwaitEntry     \* TRUE: the owner calls the library only once every thread it
                         \* started runs task(), as the 7 s exercise of init_servo ensures

Servos == 1 .. NServos

ASSUME ServoAssumption ==
  /\ NServos \in Nat \ {0} /\ Angles \subseteq Nat /\ Reversed \subseteq Servos
  /\ Deg \in Nat \ {0} /\ ROT_MAX_DEG \in Nat \ {0} /\ DUTY_RANGE_US \in Nat
  /\ STEPS \in Nat \ {0} /\ InitialDuty \in Nat /\ DutyMod \in Nat
  /\ InitialDuty + DUTY_RANGE_US < DutyMod
  /\ AwaitEntry \in BOOLEAN

VARIABLES
  angle,      \* the shared std::atomic<float> target of each servo
  \* Servo_comm, one per servo
  end,        \* the plain char that asks the thread to leave task()
  _target_,   \* "real" or "dummy": where the pointer points
  tpc,        \* step of the thread; "none" while there is none to join
  bound,      \* the reference task() took from _target_ when it began
  goal, left, \* target_rc and remaining duty updates of the sweep
  step,       \* duty_step_change
  rot_current, duty_current,
  \* the owner
  opc, i      \* its step and its loop index

servoVars == <<tpc, bound, goal, left, step, rot_current, duty_current>>
ownerVars == <<opc, i>>
vars == <<angle, end, _target_, servoVars, ownerVars>>

Pointers == {"real", "dummy"}
ThreadSteps == {"none", "entry", "bind", "test", "read", "sweep", "exit"}

TypeOK == /\ angle \in [Servos -> Angles]
          /\ end \in [Servos -> BOOLEAN]
          /\ _target_ \in [Servos -> Pointers]
          /\ tpc \in [Servos -> ThreadSteps]
          /\ bound \in [Servos -> Pointers]
          /\ goal \in [Servos -> Int] /\ rot_current \in [Servos -> Int]
          /\ left \in [Servos -> 0 .. STEPS]
          /\ step \in [Servos -> 0 .. DutyMod - 1]
          /\ duty_current \in [Servos -> 0 .. DutyMod - 1]
          /\ opc \in {"on", "off", "end", "join", "restore", "set", "unset"}
          /\ i \in 1 .. NServos + 1

(* The constructors, and servo_thread_init: every thread is created. *)
Init == /\ angle \in [Servos -> {0} \cap Angles]
        /\ end = [s \in Servos |-> FALSE]
        /\ _target_ = [s \in Servos |-> "real"]
        /\ tpc = [s \in Servos |-> "entry"]
        /\ bound = [s \in Servos |-> "dummy"]
        /\ goal = [s \in Servos |-> 0] /\ rot_current = [s \in Servos |-> 0]
        /\ left = [s \in Servos |-> 0] /\ step = [s \in Servos |-> 0]
        /\ duty_current = [s \in Servos |-> InitialDuty]
        /\ opc = "on" /\ i = 1
-----------------------------------------------------------------------------
Magnitude(x) == IF x < 0 THEN -x ELSE x

(* f(|x|) with the sign of x: C's round and truncation are odd functions.  *)
Signed(x, m) == IF x < 0 THEN -m ELSE m

(* round(DUTY_RANGE_US * rot_relat): to the nearest, halves away from 0.   *)
DutyOf(rot) ==
  Signed(rot, (2 * DUTY_RANGE_US * Magnitude(rot) + ROT_MAX_DEG) \div (2 * ROT_MAX_DEG))

(* (uint32_t)(round(...) / STEPS) *)
DutyStep(rot) ==
  Signed(rot, Magnitude(DutyOf(rot)) \div STEPS) % DutyMod

(* REVERSED ? 180.0f - target_rc : target_rc *)
TargetRc(s) == IF s \in Reversed THEN 180 * Deg - angle[s] ELSE angle[s]

(* Mutant: the far end of the rotation is refused.                         *)
MovesBelowMax(s) == /\ 2 * Magnitude(TargetRc(s) - rot_current[s]) >= Deg
                    /\ TargetRc(s) < ROT_MAX_DEG

(* Not (fabs(target_rc - rot_current) < 5e-1 || target_rc > ROT_MAX_DEG) *)
Moves(s) == /\ 2 * Magnitude(TargetRc(s) - rot_current[s]) >= Deg
            /\ TargetRc(s) <= ROT_MAX_DEG

(* operator()(): end = 0. *)
Enter(s) ==
  /\ tpc[s] = "entry"
  /\ end' = [end EXCEPT ![s] = FALSE]
  /\ tpc' = [tpc EXCEPT ![s] = "bind"]
  /\ UNCHANGED <<angle, _target_, bound, goal, left, step, rot_current, duty_current, ownerVars>>

(* task(): std::atomic<float>& target = *_target_. *)
Bind(s) ==
  /\ tpc[s] = "bind"
  /\ bound' = [bound EXCEPT ![s] = _target_[s]]
  /\ tpc' = [tpc EXCEPT ![s] = "test"]
  /\ UNCHANGED <<angle, end, _target_, goal, left, step, rot_current, duty_current, ownerVars>>

(* Mutants: end is ignored; a sweep ends an update early; the duty is      *)
(* wider than its register.                                                *)
TestEndNot(s) ==
  /\ tpc[s] = "test"
  /\ tpc' = [tpc EXCEPT ![s] = IF bound[s] = "dummy" THEN "test" ELSE "read"]
  /\ UNCHANGED <<angle, end, _target_, bound, goal, left, step, rot_current, duty_current,
                 ownerVars>>
ReadTargetShort(s) ==
  /\ tpc[s] = "read" /\ Moves(s)
  /\ goal' = [goal EXCEPT ![s] = TargetRc(s)]
  /\ step' = [step EXCEPT ![s] = DutyStep(TargetRc(s) - rot_current[s])]
  /\ left' = [left EXCEPT ![s] = STEPS - 1]
  /\ tpc' = [tpc EXCEPT ![s] = "sweep"]
  /\ UNCHANGED <<angle, end, _target_, bound, rot_current, duty_current, ownerVars>>
SweepUnwrapped(s) ==
  /\ tpc[s] = "sweep"
  /\ duty_current' = [duty_current EXCEPT ![s] = @ + step[s]]
  /\ left' = [left EXCEPT ![s] = @ - 1]
  /\ IF left[s] = 1
     THEN /\ rot_current' = [rot_current EXCEPT ![s] = goal[s]]
          /\ tpc' = [tpc EXCEPT ![s] = "test"]
     ELSE UNCHANGED <<rot_current, tpc>>
  /\ UNCHANGED <<angle, end, _target_, bound, goal, step, ownerVars>>

(* for (; !end; usleep(rest)), and the skip of an unset target. *)
TestEnd(s) ==
  /\ tpc[s] = "test"
  /\ tpc' = [tpc EXCEPT ![s] = CASE end[s] -> "exit"
                                 [] ~end[s] /\ bound[s] = "dummy" -> "test"
                                 [] OTHER -> "read"]
  /\ UNCHANGED <<angle, end, _target_, bound, goal, left, step, rot_current, duty_current,
                 ownerVars>>

(* target.load(): one copy of the target decides the whole sweep. *)
ReadTarget(s) ==
  /\ tpc[s] = "read"
  /\ IF Moves(s)
     THEN /\ goal' = [goal EXCEPT ![s] = TargetRc(s)]
          /\ step' = [step EXCEPT ![s] = DutyStep(TargetRc(s) - rot_current[s])]
          /\ left' = [left EXCEPT ![s] = STEPS]
          /\ tpc' = [tpc EXCEPT ![s] = "sweep"]
     ELSE /\ tpc' = [tpc EXCEPT ![s] = "test"]
          /\ UNCHANGED <<goal, step, left>>
  /\ UNCHANGED <<angle, end, _target_, bound, rot_current, duty_current, ownerVars>>

(* One turn of the inner for; the last one is followed by rot_current = target_rc. *)
Sweep(s) ==
  /\ tpc[s] = "sweep"
  /\ duty_current' = [duty_current EXCEPT ![s] = (@ + step[s]) % DutyMod]
  /\ left' = [left EXCEPT ![s] = @ - 1]
  /\ IF left[s] = 1
     THEN /\ rot_current' = [rot_current EXCEPT ![s] = goal[s]]
          /\ tpc' = [tpc EXCEPT ![s] = "test"]
     ELSE UNCHANGED <<rot_current, tpc>>
  /\ UNCHANGED <<angle, end, _target_, bound, goal, step, ownerVars>>

ServoThread(s) == Enter(s) \/ Bind(s) \/ TestEnd(s) \/ ReadTarget(s) \/ Sweep(s)
-----------------------------------------------------------------------------
(* The solar task, init_servo: some other thread stores a target angle. *)
StoreAngle(s) ==
  /\ \E a \in Angles : angle' = [angle EXCEPT ![s] = a]
  /\ UNCHANGED <<end, _target_, servoVars, ownerVars>>

OwnerReady == AwaitEntry => \A s \in Servos : tpc[s] # "entry"

(* turn_off_servo_control is called. *)
TurnOff ==
  /\ opc = "on" /\ OwnerReady
  /\ opc' = "end" /\ i' = 1
  /\ UNCHANGED <<angle, end, _target_, servoVars>>

(* end_now(): end = 1. *)
EndNow ==
  /\ opc = "end"
  /\ end' = [end EXCEPT ![i] = TRUE]
  /\ opc' = "join"
  /\ UNCHANGED <<angle, _target_, servoVars, i>>

(* Mutants: the thread is left to itself; a running servo is re-targeted.  *)
JoinNot ==
  /\ opc = "join"
  /\ i' = i + 1
  /\ opc' = IF i = NServos THEN "off" ELSE "end"
  /\ UNCHANGED <<angle, end, _target_, servoVars>>
RetargetAlways(s) ==
  /\ opc \in {"on", "off"} /\ OwnerReady
  /\ opc' \in {"set", "unset"} /\ i' = s
  /\ UNCHANGED <<angle, end, _target_, servoVars>>

(* join() returns; the next servo, or the end of the function. *)
Join ==
  /\ opc = "join" /\ tpc[i] = "exit"
  /\ tpc' = [tpc EXCEPT ![i] = "none"]
  /\ i' = i + 1
  /\ opc' = IF i = NServos THEN "off" ELSE "end"
  /\ UNCHANGED <<angle, end, _target_, bound, goal, left, step, rot_current, duty_current>>

(* restore_servo_control is called, and creates the threads one by one. *)
Restore ==
  /\ opc = "off"
  /\ opc' = "restore" /\ i' = 1
  /\ UNCHANGED <<angle, end, _target_, servoVars>>

Spawn ==
  /\ opc = "restore"
  /\ tpc' = [tpc EXCEPT ![i] = "entry"]
  /\ i' = i + 1
  /\ opc' = IF i = NServos THEN "on" ELSE "restore"
  /\ UNCHANGED <<angle, end, _target_, bound, goal, left, step, rot_current, duty_current>>

(* set_target, unset_target: the test of end ... *)
Retarget(s) ==
  /\ opc \in {"on", "off"} /\ OwnerReady
  /\ end[s]
  /\ opc' \in {"set", "unset"} /\ i' = s
  /\ UNCHANGED <<angle, end, _target_, servoVars>>

(* ... and the assignment of the pointer; the owner's phase is as before.  *)
AssignTarget ==
  /\ opc \in {"set", "unset"}
  /\ _target_' = [_target_ EXCEPT ![i] = IF opc = "set" THEN "real" ELSE "dummy"]
  /\ opc' = IF \A s \in Servos : tpc[s] = "none" THEN "off" ELSE "on"
  /\ UNCHANGED <<angle, end, servoVars, i>>

Owner == TurnOff \/ EndNow \/ Join \/ Restore \/ Spawn \/ AssignTarget
         \/ \E s \in Servos : Retarget(s)

Next == \/ \E s \in Servos : ServoThread(s) \/ StoreAngle(s)
        \/ Owner

Spec == Init /\ [][Next]_vars

(* Servo threads run; the owner finishes the calls it has begun. *)
FairSpec == Spec /\ \A s \in Servos : WF_vars(ServoThread(s))
                 /\ WF_vars(EndNow \/ Join \/ Spawn \/ AssignTarget)
-----------------------------------------------------------------------------
(* The duty that stands for an angle: InitialDuty is angle 0.              *)
DutyAt(rot) == InitialDuty + DutyOf(rot)

(* A servo at rest stands where rot_current says, to within the rounding   *)
(* of one sweep, however many sweeps brought it there (servo_util.cpp:     *)
(* 160-168).                                                               *)
DutyTracksRotation ==
  \A s \in Servos : tpc[s] # "sweep" =>
    Magnitude(duty_current[s] - DutyAt(rot_current[s])) < STEPS

(* What a servo will err by when it is next at rest: its duty less the one *)
(* of the rotation it books then, in the register.                         *)
Drift(s) == IF tpc[s] = "sweep"
            THEN (duty_current[s] + left[s] * step[s] - DutyAt(goal[s])) % DutyMod
            ELSE (duty_current[s] - DutyAt(rot_current[s])) % DutyMod

(* At most STEPS units, in either sense. *)
OfOneSweep == (0 .. STEPS) \cup (DutyMod - STEPS .. DutyMod - 1)

(* Whatever its targets, a servo errs only by the truncation of a duty     *)
(* step, once for each sweep and by at most STEPS units: the updates of a  *)
(* sweep, its end, a new target meanwhile, turning the servo off and       *)
(* restoring it add nothing, also where the duty wraps below 0             *)
(* (servo_util.cpp:160-168, 240-255).                                      *)
DriftsBySweep ==
  [][\A s \in Servos : Drift(s)' # Drift(s) =>
       /\ tpc[s] = "read" /\ tpc'[s] = "sweep"
       /\ (Drift(s)' - Drift(s)) % DutyMod \in OfOneSweep]_vars

(* A thread is joined, or replaced by restore_servo_control, only after    *)
(* its task has returned, at rest.                                         *)
OffMeansStopped == opc = "off" => \A s \in Servos : tpc[s] = "none" /\ end[s]

(* A running task reads the target its Servo_comm names: the pointer "can  *)
(* only be changed when servo is in canceled state" (servo_util.cpp:96),   *)
(* and task() looks at it only once, when it begins.                       *)
TargetStableWhileRunning ==
  \A s \in Servos : ~end[s] /\ tpc[s] \in {"test", "read", "sweep"} => bound[s] = _target_[s]

Commands(s, a) == /\ angle[s] = a /\ TargetRc(s) <= ROT_MAX_DEG
                  /\ ~end[s] /\ bound[s] = "real" /\ tpc[s] \in {"test", "read", "sweep"}

Near == (Deg - 1) \div 2   \* the largest distance below half a degree

AtTarget == {s \in Servos : /\ TargetRc(s) - rot_current[s] \in -Near .. Near
                            /\ tpc[s] # "sweep"}

(* A servo whose target rests reaches it and comes to rest, unless it is   *)
(* turned off: no target stored during a sweep is missed.  How far its     *)
(* duty is off then is what DriftsBySweep bounds.                          *)
Settles == \A s \in Servos, a \in Angles :
             <>[]Commands(s, a) => <>[](s \in AtTarget)

(* turn_off_servo_control "joins every needed thread" (servo_util.cpp:227),*)
(* so a call of it returns.                                                *)
TurnOffReturns == opc = "end" ~> opc = "off"
=============================================================================
