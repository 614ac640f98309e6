----------------------------- MODULE ServoProofs -----------------------------
(***************************************************************************)
(* The safety of the servo library for every number of servos, set of      *)
(* target angles and geometry of the servo.                                *)
(*                                                                         *)
(* OffMeansStopped needs to know, in every phase of the owner, which       *)
(* threads there are, and that a thread which left task() was told to:     *)
(* Phases and Threads.  That a running task reads the target its           *)
(* Servo_comm names also needs the owner to wait until every thread it     *)
(* started runs task() (AwaitEntry).  DriftsBySweep is arithmetic: what    *)
(* rounding and truncation lose in one move, modulo the register.          *)
(***************************************************************************)
EXTENDS ServoComm, TLAPS

Threads == \A s \in Servos : /\ tpc[s] = "sweep" => left[s] # 0
                             /\ tpc[s] \in {"exit", "none"} => end[s]

Phases ==
  /\ opc \notin {"on", "off"} => i \in Servos
  /\ opc \in {"end", "join"} => \A s \in Servos : tpc[s] = "none" <=> s < i
  /\ opc = "restore" => \A s \in Servos : tpc[s] = "none" <=> ~(s < i)
  /\ opc = "on" => \A s \in Servos : tpc[s] # "none"
  /\ opc = "off" => \A s \in Servos : tpc[s] = "none"
  /\ opc \in {"set", "unset"} => \/ \A s \in Servos : tpc[s] = "none"
                                 \/ \A s \in Servos : tpc[s] # "none"

SInv == TypeOK /\ Threads /\ Phases
-----------------------------------------------------------------------------
(* Duty steps and duties stay within their register. *)
LEMMA ModRange == \A x \in Int : x % DutyMod \in 0 .. DutyMod - 1
<1>1. DutyMod \in Nat \ {0}
  BY ServoAssumption
<1>2. QED
  BY <1>1

(* The target of a servo, reversed or not, is an integer. *)
LEMMA TargetType ==
  ASSUME angle \in [Servos -> Angles], NEW s \in Servos
  PROVE  TargetRc(s) \in Int
<1>1. angle[s] \in Angles /\ Angles \subseteq Nat /\ Deg \in Nat
  BY ServoAssumption
<1>2. angle[s] \in Nat
  BY <1>1
<1>3. QED
  BY <1>1, <1>2 DEF TargetRc

(* The duty of an angle and its share of a move are integers, and a duty   *)
(* step lies in the register.                                              *)
LEMMA DutyType ==
  /\ \A x \in Int : Magnitude(x) \in Nat
  /\ \A x \in Int : DutyOf(x) \in Int
  /\ \A x \in Int : Signed(x, Magnitude(DutyOf(x)) \div STEPS) \in Int
  /\ \A x \in Int : DutyStep(x) \in 0 .. DutyMod - 1
<1>1. \A x \in Int : Magnitude(x) \in Nat
  BY DEF Magnitude
<1>2. ASSUME NEW x \in Int PROVE DutyOf(x) \in Int
  <2>1. /\ 2 * DUTY_RANGE_US * Magnitude(x) + ROT_MAX_DEG \in Nat
        /\ 2 * ROT_MAX_DEG \in Nat \ {0}
    BY <1>1, ServoAssumption
  <2>2. (2 * DUTY_RANGE_US * Magnitude(x) + ROT_MAX_DEG) \div (2 * ROT_MAX_DEG) \in Int
    BY <2>1
  <2>3. QED
    BY <2>2 DEF DutyOf, Signed
<1>3. ASSUME NEW x \in Int PROVE Signed(x, Magnitude(DutyOf(x)) \div STEPS) \in Int
  <2>1. Magnitude(DutyOf(x)) \in Nat /\ STEPS \in Nat \ {0}
    BY <1>1, <1>2, ServoAssumption
  <2>2. Magnitude(DutyOf(x)) \div STEPS \in Int
    BY <2>1
  <2>3. QED
    BY <2>2 DEF Signed
<1>4. QED
  BY <1>1, <1>2, <1>3, ModRange DEF DutyStep

(* Every servo starts in its thread, before its first step, not told to    *)
(* end.                                                                    *)
LEMMA InitSInv == Init => SInv
<1>1. SUFFICES ASSUME Init PROVE SInv
  OBVIOUS
<1>2. /\ NServos \in Nat \ {0} /\ 1 \in 1 .. NServos + 1 /\ 0 \in 0 .. STEPS
      /\ 0 \in 0 .. DutyMod - 1 /\ InitialDuty \in 0 .. DutyMod - 1
  BY ServoAssumption
<1>3. TypeOK
  BY <1>1, <1>2 DEF Init, TypeOK, Pointers, ThreadSteps
<1>4. QED
  BY <1>1, <1>3 DEF Init, SInv, Threads, Phases

(* A servo thread moves between its own steps and never ends by itself. *)
LEMMA ThreadStep ==
  ASSUME SInv, NEW s \in Servos, ServoThread(s)
  PROVE  SInv'
<1>1. TypeOK /\ Threads /\ Phases
  BY DEF SInv
<1>2. UNCHANGED <<angle, _target_, opc, i>>
  BY DEF ServoThread, Enter, Bind, TestEnd, ReadTarget, Sweep, ownerVars
<1>3. \E p \in ThreadSteps \ {"none"} : tpc' = [tpc EXCEPT ![s] = p]
  <2>1. CASE Sweep(s)
    <3>1. CASE left[s] = 1
      BY <2>1, <3>1 DEF Sweep, ThreadSteps
    <3>2. CASE left[s] # 1
      BY <1>1, <2>1, <3>2 DEF Sweep, ThreadSteps, TypeOK
    <3>3. QED
      BY <3>1, <3>2
  <2>2. CASE Enter(s) \/ Bind(s) \/ TestEnd(s) \/ ReadTarget(s)
    BY <2>2 DEF Enter, Bind, TestEnd, ReadTarget, ThreadSteps
  <2>3. QED
    BY <2>1, <2>2 DEF ServoThread
<1>4. tpc[s] # "none"
  BY DEF ServoThread, Enter, Bind, TestEnd, ReadTarget, Sweep
<1>5. Phases'
  BY <1>1, <1>2, <1>3, <1>4 DEF Phases, TypeOK
<1>6. TypeOK' /\ Threads'
  <2>1. tpc' \in [Servos -> ThreadSteps]
    BY <1>1, <1>3 DEF TypeOK
  <2>2. CASE Enter(s)
    BY <1>1, <2>1, <2>2 DEF Enter, TypeOK, Threads, ownerVars
  <2>3. CASE Bind(s)
    BY <1>1, <2>1, <2>3 DEF Bind, TypeOK, Threads, ownerVars
  <2>4. CASE TestEnd(s)
    BY <1>1, <2>1, <2>4 DEF TestEnd, TypeOK, Threads, ownerVars
  <2>5. CASE ReadTarget(s)
    <3>1. /\ TargetRc(s) \in Int /\ DutyStep(TargetRc(s) - rot_current[s]) \in 0 .. DutyMod - 1
          /\ STEPS \in 0 .. STEPS /\ STEPS # 0
      BY <1>1, TargetType, DutyType, ServoAssumption DEF TypeOK
    <3>2. QED
      BY <1>1, <2>1, <2>5, <3>1 DEF ReadTarget, TypeOK, Threads, ownerVars
  <2>6. CASE Sweep(s)
    <3>1. left[s] - 1 \in 0 .. STEPS /\ (left[s] # 1 => left[s] - 1 # 0)
      BY <1>1, <2>6, ServoAssumption DEF Sweep, TypeOK, Threads
    <3>2. (duty_current[s] + step[s]) % DutyMod \in 0 .. DutyMod - 1
      <4>1. duty_current[s] \in Int /\ step[s] \in Int
        BY <1>1, ServoAssumption DEF TypeOK
      <4>2. duty_current[s] + step[s] \in Int
        BY <4>1
      <4>3. QED
        BY <4>2, ModRange
    <3>3. goal[s] \in Int
      BY <1>1 DEF TypeOK
    <3>4. QED
      BY <1>1, <2>1, <2>6, <3>1, <3>2, <3>3 DEF Sweep, TypeOK, Threads, ownerVars
  <2>7. QED
    BY <2>2, <2>3, <2>4, <2>5, <2>6 DEF ServoThread
<1>7. QED
  BY <1>5, <1>6 DEF SInv

(* The owner goes through the servos in order; it joins a thread only      *)
(* after its task returned.                                                *)
LEMMA OwnerStep == SInv /\ Owner => SInv'
<1>1. SUFFICES ASSUME SInv, Owner PROVE SInv'
  OBVIOUS
<1>2. TypeOK /\ Threads /\ Phases /\ NServos \in Nat \ {0}
  BY <1>1, ServoAssumption DEF SInv
<1>3. 1 \in Servos /\ \A s \in Servos : s \in Nat /\ ~(s < 1) /\ s < NServos + 1
  BY <1>2 DEF Servos
<1>4. CASE TurnOff
  BY <1>2, <1>3, <1>4 DEF TurnOff, SInv, TypeOK, Threads, Phases, Servos, servoVars
<1>5. CASE EndNow
  BY <1>2, <1>3, <1>5 DEF EndNow, SInv, TypeOK, Threads, Phases, Servos, servoVars
<1>6. CASE Join
  <2>1. i \in Servos /\ \A s \in Servos : s < i + 1 <=> s < i \/ s = i
    BY <1>2, <1>6 DEF Join, Phases, Servos
  <2>2. i + 1 \in 1 .. NServos + 1 /\ (i # NServos => i + 1 \in Servos)
    BY <1>2, <2>1 DEF Servos
  <2>3. TypeOK' /\ Threads'
    BY <1>2, <1>6, <2>1, <2>2 DEF Join, TypeOK, Threads, ThreadSteps
  <2>4. Phases'
    BY <1>2, <1>3, <1>6, <2>1, <2>2 DEF Join, TypeOK, Phases
  <2>5. QED
    BY <2>3, <2>4 DEF SInv
<1>7. CASE Restore
  BY <1>2, <1>3, <1>7 DEF Restore, SInv, TypeOK, Threads, Phases, Servos, servoVars
<1>8. CASE Spawn
  <2>1. i \in Servos /\ \A s \in Servos : s < i + 1 <=> s < i \/ s = i
    BY <1>2, <1>8 DEF Spawn, Phases, Servos
  <2>2. i + 1 \in 1 .. NServos + 1 /\ (i # NServos => i + 1 \in Servos)
    BY <1>2, <2>1 DEF Servos
  <2>3. TypeOK' /\ Threads'
    BY <1>2, <1>8, <2>1, <2>2 DEF Spawn, TypeOK, Threads, ThreadSteps
  <2>4. Phases'
    BY <1>2, <1>3, <1>8, <2>1, <2>2 DEF Spawn, TypeOK, Phases
  <2>5. QED
    BY <2>3, <2>4 DEF SInv
<1>9. CASE AssignTarget
  <2>1. /\ UNCHANGED <<angle, end, servoVars, i>> /\ opc \in {"set", "unset"}
        /\ opc' = IF \A s \in Servos : tpc[s] = "none" THEN "off" ELSE "on"
        /\ _target_' \in [Servos -> Pointers]
    BY <1>2, <1>9 DEF AssignTarget, TypeOK, Pointers
  <2>2. opc' \in {"off", "on"}
    BY <2>1
  <2>3. TypeOK' /\ Threads'
    BY <1>2, <2>1, <2>2 DEF TypeOK, Threads, servoVars
  <2>4. Phases'
    BY <1>2, <1>3, <2>1, <2>2 DEF Phases, servoVars
  <2>5. QED
    BY <2>3, <2>4 DEF SInv
<1>10. CASE \E s \in Servos : Retarget(s)
  <2>1. /\ UNCHANGED <<angle, end, _target_, servoVars>> /\ opc \in {"on", "off"}
        /\ opc' \in {"set", "unset"} /\ i' \in Servos
    BY <1>10 DEF Retarget
  <2>2. i' \in 1 .. NServos + 1
    BY <1>2, <2>1 DEF Servos
  <2>3. TypeOK' /\ Threads'
    BY <1>2, <2>1, <2>2 DEF TypeOK, Threads, servoVars
  <2>4. Phases'
    BY <1>2, <2>1 DEF Phases, servoVars
  <2>5. QED
    BY <2>3, <2>4 DEF SInv
<1>11. QED
  BY <1>1, <1>4, <1>5, <1>6, <1>7, <1>8, <1>9, <1>10 DEF Owner

(* No step of a thread or of the owner leaves the invariant. *)
LEMMA NextSInv == SInv /\ [Next]_vars => SInv'
<1>1. ASSUME SInv, NEW s \in Servos, StoreAngle(s) PROVE SInv'
  BY <1>1 DEF SInv, TypeOK, Threads, Phases, StoreAngle, servoVars, ownerVars
<1>2. ASSUME SInv, UNCHANGED vars PROVE SInv'
  BY <1>2 DEF SInv, TypeOK, Threads, Phases, vars, servoVars, ownerVars
<1>3. QED
  BY <1>1, <1>2, ThreadStep, OwnerStep DEF Next

(* Every reachable state satisfies the invariant. *)
LEMMA Invariance == Spec => []SInv
<1>1. QED
  BY InitSInv, NextSInv, PTL DEF Spec

(* The types of the servos and their owner, the duties within their        *)
(* register of DutyMod values, for every geometry of the servo.            *)
THEOREM TypeCorrect == Spec => []TypeOK
<1>1. SInv => TypeOK
  BY DEF SInv
<1>2. QED
  BY <1>1, Invariance, PTL

(* turn_off_servo_control, servo_util.cpp: when it has returned, every     *)
(* thread has left its task because it was told to, and has been joined.   *)
THEOREM OffStopped == Spec => []OffMeansStopped
<1>1. SInv => OffMeansStopped
  BY DEF SInv, Threads, Phases, OffMeansStopped
<1>2. QED
  BY <1>1, Invariance, PTL
-----------------------------------------------------------------------------
(* While the pointer of a servo is assigned, its thread is on its way out  *)
(* of task() and none is about to enter it.                                *)
Assigning == opc \in {"set", "unset"} => end[i] /\ \A s \in Servos : tpc[s] # "entry"

PInv == Assigning /\ TargetStableWhileRunning

(* While threads start only before the library is called, no step gives a  *)
(* running task another target.                                            *)
LEMMA NextPInv == AwaitEntry /\ SInv /\ PInv /\ [Next]_vars => PInv'
<1>1. SUFFICES ASSUME AwaitEntry, SInv, PInv, [Next]_vars PROVE PInv'
  OBVIOUS
<1>2. TypeOK /\ Phases
  BY <1>1 DEF SInv
<1>3. ASSUME NEW s \in Servos, ServoThread(s) PROVE PInv'
  <2>1. CASE Enter(s)
    BY <1>1, <1>2, <2>1
       DEF PInv, Assigning, TargetStableWhileRunning, TypeOK, Enter, ownerVars
  <2>2. CASE Bind(s)
    BY <1>1, <1>2, <2>2
       DEF PInv, Assigning, TargetStableWhileRunning, TypeOK, Bind, ownerVars
  <2>3. CASE TestEnd(s)
    BY <1>1, <1>2, <2>3
       DEF PInv, Assigning, TargetStableWhileRunning, TypeOK, TestEnd, ownerVars
  <2>4. CASE ReadTarget(s)
    BY <1>1, <1>2, <2>4
       DEF PInv, Assigning, TargetStableWhileRunning, TypeOK, ReadTarget, ownerVars
  <2>5. CASE Sweep(s)
    BY <1>1, <1>2, <2>5
       DEF PInv, Assigning, TargetStableWhileRunning, TypeOK, Sweep, ownerVars
  <2>6. QED
    BY <1>3, <2>1, <2>2, <2>3, <2>4, <2>5 DEF ServoThread
<1>4. CASE TurnOff \/ Restore
  BY <1>1, <1>4
     DEF PInv, Assigning, TargetStableWhileRunning, TurnOff, Restore, servoVars
<1>5. CASE EndNow
  BY <1>1, <1>2, <1>5
     DEF PInv, Assigning, TargetStableWhileRunning, TypeOK, Phases, EndNow, servoVars
<1>6. CASE Join \/ Spawn
  BY <1>1, <1>2, <1>6
     DEF PInv, Assigning, TargetStableWhileRunning, TypeOK, Phases, Join, Spawn
<1>7. CASE AssignTarget
  BY <1>1, <1>2, <1>7
     DEF PInv, Assigning, TargetStableWhileRunning, TypeOK, Phases, AssignTarget, servoVars
<1>8. CASE \E s \in Servos : Retarget(s)
  BY <1>1, <1>8
     DEF PInv, Assigning, TargetStableWhileRunning, Retarget, OwnerReady, servoVars
<1>9. CASE \E s \in Servos : StoreAngle(s)
  BY <1>1, <1>9
     DEF PInv, Assigning, TargetStableWhileRunning, StoreAngle, servoVars, ownerVars
<1>10. CASE UNCHANGED vars
  BY <1>1, <1>10
     DEF PInv, Assigning, TargetStableWhileRunning, vars, servoVars, ownerVars
<1>11. QED
  BY <1>1, <1>3, <1>4, <1>5, <1>6, <1>7, <1>8, <1>9, <1>10 DEF Next, Owner

(* servo_util.cpp:96, set_target and unset_target: if the owner uses the   *)
(* library only once the threads it started run, a running task reads the  *)
(* target its Servo_comm names, whenever the pointer is assigned.          *)
THEOREM TargetStable ==
  ASSUME AwaitEntry
  PROVE  Spec => []TargetStableWhileRunning
<1>1. Init => PInv
  BY DEF Init, PInv, Assigning, TargetStableWhileRunning
<1>2. SInv /\ PInv /\ [Next]_vars => PInv'
  BY NextPInv
<1>3. PInv => TargetStableWhileRunning
  BY DEF PInv
<1>4. QED
  BY <1>1, <1>2, <1>3, Invariance, PTL DEF Spec
-----------------------------------------------------------------------------
(* Division with remainder, and the remainders of sums. *)
LEMMA DivMod ==
  ASSUME NEW m \in Nat \ {0}, NEW x \in Int
  PROVE  x = m * (x \div m) + (x % m) /\ x % m \in 0 .. m - 1 /\ x \div m \in Int
<1>1. x = m * (x \div m) + (x % m)
  OBVIOUS
<1>2. x % m \in 0 .. m - 1
  OBVIOUS
<1>3. x \div m \in Int
  OBVIOUS
<1>4. QED
  BY <1>1, <1>2, <1>3

(* The remainder of a division is unique. *)
LEMMA Remainder ==
  ASSUME NEW m \in Nat \ {0}, NEW q1 \in Int, NEW q2 \in Int,
         NEW r1 \in 0 .. m - 1, NEW r2 \in 0 .. m - 1, m * q1 + r1 = m * q2 + r2
  PROVE  r1 = r2
  OBVIOUS

(* Multiplication by a sum. *)
LEMMA Distribute ==
  ASSUME NEW m \in Int, NEW x \in Int, NEW y \in Int
  PROVE  m * (x + y) = m * x + m * y
  OBVIOUS

(* Whole multiples of the divisor do not change the remainder. *)
LEMMA ModShift ==
  ASSUME NEW m \in Nat \ {0}, NEW x \in Int, NEW k \in Int
  PROVE  (x + m * k) % m = x % m
<1>1. PICK y \in Int : y = x + m * k
  OBVIOUS
<1>2. PICK dx \in Int, rx \in 0 .. m - 1 : x = m * dx + rx /\ rx = x % m
  BY DivMod
<1>3. PICK dy \in Int, ry \in 0 .. m - 1 : y = m * dy + ry /\ ry = y % m
  BY DivMod
<1>4. m * (dx + k) = m * dx + m * k
  BY Distribute
<1>5. dx + k \in Int /\ m * dx \in Int /\ m * k \in Int
  OBVIOUS
<1>6. m * dy + ry = m * (dx + k) + rx
  BY <1>1, <1>2, <1>3, <1>4, <1>5
<1>7. ry = rx
  BY <1>5, <1>6, Remainder
<1>8. QED
  BY <1>1, <1>2, <1>3, <1>7

(* A number below the divisor is its own remainder. *)
LEMMA ModSmall ==
  ASSUME NEW m \in Nat \ {0}, NEW x \in 0 .. m - 1
  PROVE  x % m = x
<1>1. x \in Int
  OBVIOUS
<1>2. PICK d \in Int, r \in 0 .. m - 1 : x = m * d + r /\ r = x % m
  BY <1>1, DivMod
<1>3. m * 0 + x = m * d + r
  BY <1>2
<1>4. QED
  BY <1>2, <1>3, Remainder

(* A sum has the same remainder when its first summand is reduced first. *)
LEMMA ModAdd ==
  ASSUME NEW m \in Nat \ {0}, NEW x \in Int, NEW y \in Int
  PROVE  ((x % m) + y) % m = (x + y) % m
<1>1. PICK d \in Int, r \in 0 .. m - 1 : x = m * d + r /\ r = x % m
  BY DivMod
<1>2. r + y \in Int /\ m * d \in Int
  OBVIOUS
<1>3. x + y = (r + y) + m * d
  BY <1>1, <1>2
<1>4. ((r + y) + m * d) % m = (r + y) % m
  BY <1>2, ModShift
<1>5. QED
  BY <1>1, <1>3, <1>4

(* So has a difference. *)
LEMMA ModSubtract ==
  ASSUME NEW m \in Nat \ {0}, NEW x \in Int, NEW y \in Int
  PROVE  ((x % m) - (y % m)) % m = (x - y) % m
<1>1. PICK d \in Int, r \in 0 .. m - 1 : x = m * d + r /\ r = x % m
  BY DivMod
<1>2. PICK e \in Int, t \in 0 .. m - 1 : y = m * e + t /\ t = y % m
  BY DivMod
<1>3. PICK k \in Int : k = d - e
  OBVIOUS
<1>4. m * d = m * (e + k) /\ m * (e + k) = m * e + m * k
  BY <1>3, Distribute
<1>5. r - t \in Int /\ m * e \in Int /\ m * k \in Int
  OBVIOUS
<1>6. x - y = (r - t) + m * k
  <2>1. PICK ME \in Int, MK \in Int : ME = m * e /\ MK = m * k
    BY <1>5
  <2>2. m * d = ME + MK
    BY <1>4, <2>1
  <2>3. x = (ME + MK) + r /\ y = ME + t
    BY <1>1, <1>2, <2>1, <2>2
  <2>4. QED
    BY <2>1, <2>3
<1>7. ((r - t) + m * k) % m = (r - t) % m
  BY <1>5, ModShift
<1>8. QED
  BY <1>1, <1>2, <1>6, <1>7

(* An error of at most STEPS units, as the register shows it. *)
LEMMA ErrorOfOneSweep ==
  ASSUME NEW x \in -STEPS .. STEPS
  PROVE  x % DutyMod \in OfOneSweep
<1>1. DutyMod \in Nat \ {0} /\ STEPS \in Nat \ {0} /\ x \in Int
  BY ServoAssumption
<1>2. CASE x \in 0 .. DutyMod - 1
  <2>1. x % DutyMod = x
    BY <1>1, <1>2, ModSmall
  <2>2. QED
    BY <1>1, <1>2, <2>1 DEF OfOneSweep
<1>3. CASE -x \in 1 .. DutyMod
  <2>1. PICK k \in Int : k = 1
    OBVIOUS
  <2>2. PICK y \in 0 .. DutyMod - 1 : y = x + DutyMod /\ y \in DutyMod - STEPS .. DutyMod - 1
    BY <1>1, <1>3
  <2>3. (x + DutyMod * k) % DutyMod = x % DutyMod
    BY <1>1, ModShift
  <2>4. x + DutyMod * k = y
    BY <1>1, <2>1, <2>2
  <2>5. y % DutyMod = y
    BY <1>1, ModSmall
  <2>6. QED
    BY <2>2, <2>3, <2>4, <2>5 DEF OfOneSweep
<1>4. CASE STEPS >= DutyMod
  <2>1. x % DutyMod \in 0 .. DutyMod - 1
    BY <1>1, ModRange
  <2>2. QED
    BY <1>1, <1>4, <2>1 DEF OfOneSweep
<1>5. QED
  BY <1>1, <1>2, <1>3, <1>4
-----------------------------------------------------------------------------
(* round() errs by at most a half, here scaled by twice ROT_MAX_DEG. *)
LEMMA Rounds ==
  ASSUME NEW x \in Int
  PROVE  2 * ROT_MAX_DEG * DutyOf(x) - 2 * (DUTY_RANGE_US * x) \in -ROT_MAX_DEG .. ROT_MAX_DEG
<1>1. ROT_MAX_DEG \in Nat \ {0} /\ DUTY_RANGE_US \in Nat
  BY ServoAssumption
<1>2. PICK m \in Nat \ {0} : m = 2 * ROT_MAX_DEG
  BY <1>1
<1>3. PICK a \in Nat : a = Magnitude(x)
  BY DutyType
<1>4. PICK p \in Nat : p = DUTY_RANGE_US * a
  BY <1>1
<1>5. PICK n \in Int : n = 2 * p + ROT_MAX_DEG
  BY <1>1
<1>6. PICK q \in Int, r \in 0 .. m - 1 : n = m * q + r /\ q = n \div m
  BY DivMod
<1>7. DutyOf(x) = Signed(x, q)
  <2>1. 2 * DUTY_RANGE_US * a = 2 * p
    BY <1>1, <1>4
  <2>2. QED
    BY <1>2, <1>3, <1>5, <1>6, <2>1 DEF DutyOf
<1>8. PICK z \in Int : z = m * q
  OBVIOUS
<1>9. z - 2 * p \in -ROT_MAX_DEG .. ROT_MAX_DEG
  BY <1>1, <1>2, <1>5, <1>6, <1>8
<1>10. CASE x < 0
  <2>1. a = -x /\ DutyOf(x) = -q
    BY <1>3, <1>7, <1>10 DEF Magnitude, Signed
  <2>2. m * (-q) = -z
    BY <1>8
  <2>3. DUTY_RANGE_US * x = -p
    <3>1. x = -a /\ DUTY_RANGE_US * (-a) = -(DUTY_RANGE_US * a)
      BY <1>1, <2>1
    <3>2. QED
      BY <1>4, <3>1
  <2>4. -z - 2 * (-p) \in -ROT_MAX_DEG .. ROT_MAX_DEG
    BY <1>1, <1>9
  <2>5. QED
    BY <1>2, <2>1, <2>2, <2>3, <2>4
<1>11. CASE ~(x < 0)
  <2>1. a = x /\ DutyOf(x) = q
    BY <1>3, <1>7, <1>11 DEF Magnitude, Signed
  <2>2. QED
    BY <1>2, <1>4, <1>8, <1>9, <2>1
<1>12. QED
  BY <1>10, <1>11

(* So the duty of a move and the difference of the duties it moves between *)
(* are one unit apart at most.                                             *)
LEMMA RoundsOnce ==
  ASSUME NEW g \in Int, NEW r \in Int
  PROVE  DutyOf(g - r) - (DutyOf(g) - DutyOf(r)) \in -1 .. 1
<1>1. ROT_MAX_DEG \in Nat \ {0} /\ DUTY_RANGE_US \in Nat
  BY ServoAssumption
<1>2. PICK m \in Nat \ {0} : m = 2 * ROT_MAX_DEG
  BY <1>1
<1>3. PICK u \in Int, v \in Int, w \in Int : u = DutyOf(g - r) /\ v = DutyOf(g) /\ w = DutyOf(r)
  <2>1. g - r \in Int
    OBVIOUS
  <2>2. QED
    BY <2>1, DutyType
<1>4. PICK b \in Int, c \in Int : b = DUTY_RANGE_US * g /\ c = DUTY_RANGE_US * r
  BY <1>1
<1>5. DUTY_RANGE_US * (g - r) = b - c
  BY <1>1, <1>4
<1>6. PICK mu \in Int, mv \in Int, mw \in Int : mu = m * u /\ mv = m * v /\ mw = m * w
  OBVIOUS
<1>7. /\ mu - 2 * (b - c) \in -ROT_MAX_DEG .. ROT_MAX_DEG
      /\ mv - 2 * b \in -ROT_MAX_DEG .. ROT_MAX_DEG
      /\ mw - 2 * c \in -ROT_MAX_DEG .. ROT_MAX_DEG
  <2>1. g - r \in Int
    OBVIOUS
  <2>2. QED
    BY <1>2, <1>3, <1>4, <1>5, <1>6, <2>1, Rounds
<1>8. PICK k \in Int : k = u - (v - w)
  OBVIOUS
<1>9. m * k = mu - (mv - mw)
  BY <1>6, <1>8
<1>10. m * k < 2 * m /\ -(2 * m) < m * k
  BY <1>1, <1>2, <1>4, <1>6, <1>7, <1>9
<1>11. k < 2
  <2>1. SUFFICES ASSUME k >= 2 PROVE FALSE
    OBVIOUS
  <2>2. PICK j \in Nat : k = 2 + j
    BY <2>1
  <2>3. m * k = 2 * m + m * j /\ m * j \in Nat
    BY <2>2
  <2>4. QED
    BY <1>10, <2>3
<1>12. -2 < k
  <2>1. SUFFICES ASSUME k <= -2 PROVE FALSE
    OBVIOUS
  <2>2. PICK j \in Nat : k = -(2 + j)
    <3>1. -k - 2 \in Nat /\ k = -(2 + (-k - 2))
      BY <2>1
    <3>2. QED
      BY <3>1
  <2>3. m * k = -(2 * m) - m * j /\ m * j \in Nat
    BY <2>2
  <2>4. QED
    BY <1>10, <2>3
<1>13. QED
  BY <1>3, <1>8, <1>11, <1>12

(* STEPS truncated duty steps are less than STEPS units short of the move. *)
LEMMA Truncates ==
  ASSUME NEW x \in Int
  PROVE  DutyOf(x) - STEPS * Signed(x, Magnitude(DutyOf(x)) \div STEPS) \in -(STEPS - 1) .. STEPS - 1
<1>1. STEPS \in Nat \ {0}
  BY ServoAssumption
<1>2. PICK n \in Nat : n = Magnitude(DutyOf(x))
  BY DutyType
<1>3. DutyOf(x) = Signed(x, n)
  <2>1. PICK q \in Nat : DutyOf(x) = Signed(x, q)
    <3>1. /\ 2 * DUTY_RANGE_US * Magnitude(x) + ROT_MAX_DEG \in Nat
          /\ 2 * ROT_MAX_DEG \in Nat \ {0}
      BY DutyType, ServoAssumption
    <3>2. (2 * DUTY_RANGE_US * Magnitude(x) + ROT_MAX_DEG) \div (2 * ROT_MAX_DEG) \in Nat
      BY <3>1
    <3>3. QED
      BY <3>2 DEF DutyOf
  <2>2. QED
    BY <1>2, <2>1 DEF Signed, Magnitude
<1>4. PICK q \in Int, r \in 0 .. STEPS - 1 : n = STEPS * q + r /\ q = n \div STEPS
  BY <1>1, DivMod
<1>5. PICK z \in Int : z = STEPS * q /\ STEPS * (-q) = -z
  BY <1>1
<1>6. n - z \in 0 .. STEPS - 1 /\ -n - (-z) \in -(STEPS - 1) .. 0
  BY <1>1, <1>4, <1>5
<1>7. CASE x < 0
  <2>1. DutyOf(x) = -n /\ Signed(x, n \div STEPS) = -q
    BY <1>3, <1>4, <1>7 DEF Signed
  <2>2. QED
    BY <1>1, <1>2, <1>5, <1>6, <2>1
<1>8. CASE ~(x < 0)
  <2>1. DutyOf(x) = n /\ Signed(x, n \div STEPS) = q
    BY <1>3, <1>4, <1>8 DEF Signed
  <2>2. QED
    BY <1>1, <1>2, <1>5, <1>6, <2>1
<1>9. QED
  BY <1>7, <1>8

(* The duty a sweep adds, less the difference it should make. *)
LEMMA MoveErrs ==
  ASSUME NEW g \in Int, NEW r \in Int
  PROVE  (STEPS * DutyStep(g - r) - (DutyAt(g) - DutyAt(r))) % DutyMod \in OfOneSweep
<1>1. STEPS \in Nat \ {0} /\ DutyMod \in Nat \ {0} /\ InitialDuty \in Int /\ g - r \in Int
  BY ServoAssumption
<1>2. PICK D \in Int : D = Signed(g - r, Magnitude(DutyOf(g - r)) \div STEPS)
  BY <1>1, DutyType
<1>3. PICK d \in Int, e \in 0 .. DutyMod - 1 : D = DutyMod * d + e /\ e = D % DutyMod
  BY <1>1, DivMod
<1>4. DutyStep(g - r) = e
  BY <1>2, <1>3 DEF DutyStep
<1>5. PICK x \in Int : x = STEPS * D - (DutyAt(g) - DutyAt(r))
  BY <1>1, DutyType DEF DutyAt
<1>6. x \in -STEPS .. STEPS
  <2>1. DutyOf(g - r) - STEPS * D \in -(STEPS - 1) .. STEPS - 1
    BY <1>1, <1>2, Truncates
  <2>2. DutyOf(g - r) - (DutyOf(g) - DutyOf(r)) \in -1 .. 1
    BY RoundsOnce
  <2>3. DutyOf(g) \in Int /\ DutyOf(r) \in Int /\ DutyOf(g - r) \in Int /\ STEPS * D \in Int
    BY <1>1, DutyType
  <2>4. x = STEPS * D - (DutyOf(g) - DutyOf(r))
    BY <1>1, <1>5, <2>3 DEF DutyAt
  <2>5. QED
    BY <1>1, <2>1, <2>2, <2>3, <2>4
<1>7. PICK k \in Int : k = -(STEPS * d)
  BY <1>1
<1>8. STEPS * e - (DutyAt(g) - DutyAt(r)) = x + DutyMod * k
  <2>1. STEPS * D = STEPS * (DutyMod * d) + STEPS * e
    BY <1>1, <1>3, Distribute
  <2>2. STEPS * (DutyMod * d) = -(DutyMod * k)
    BY <1>1, <1>7
  <2>3. DutyAt(g) - DutyAt(r) \in Int /\ STEPS * D \in Int /\ STEPS * e \in Int /\ DutyMod * k \in Int
    BY <1>1, <1>7, DutyType DEF DutyAt
  <2>4. QED
    BY <1>5, <2>1, <2>2, <2>3
<1>9. (x + DutyMod * k) % DutyMod = x % DutyMod
  BY <1>1, ModShift
<1>10. QED
  BY <1>4, <1>6, <1>8, <1>9, ErrorOfOneSweep
-----------------------------------------------------------------------------
(* An update of a sweep, the last one too, leaves the error as it is. *)
LEMMA SweepKeepsDrift ==
  ASSUME SInv, NEW s \in Servos, Sweep(s)
  PROVE  Drift(s)' = Drift(s)
<1>1. /\ duty_current[s] \in Int /\ step[s] \in Int /\ left[s] \in Int /\ goal[s] \in Int
      /\ DutyMod \in Nat \ {0} /\ tpc[s] = "sweep"
  BY ServoAssumption DEF SInv, TypeOK, Sweep
<1>2. PICK a \in Int : a = DutyAt(goal[s])
  BY <1>1, DutyType, ServoAssumption DEF DutyAt
<1>3. PICK k \in Int : k = (left[s] - 1) * step[s]
  BY <1>1
<1>4. left[s] * step[s] = step[s] + k
  BY <1>1, <1>3
<1>5. /\ duty_current'[s] = (duty_current[s] + step[s]) % DutyMod
      /\ left'[s] = left[s] - 1 /\ goal' = goal /\ step' = step
      /\ IF left[s] = 1 THEN rot_current'[s] = goal[s] /\ tpc'[s] = "test"
                        ELSE tpc'[s] = "sweep"
  BY <1>1 DEF SInv, TypeOK, Sweep
<1>6. Drift(s) = (duty_current[s] + left[s] * step[s] - a) % DutyMod
  BY <1>1, <1>2 DEF Drift
<1>7. Drift(s)' = (duty_current'[s] + (k - a)) % DutyMod
  <2>1. duty_current'[s] \in Int
    BY <1>1, <1>5, ModRange
  <2>2. CASE left[s] = 1
    <3>1. k = 0
      BY <1>1, <1>3, <2>2
    <3>2. Drift(s)' = (duty_current'[s] - DutyAt(goal[s])) % DutyMod
      BY <1>5, <2>2 DEF Drift, DutyAt
    <3>3. duty_current'[s] - a = duty_current'[s] + (k - a)
      BY <2>1, <3>1
    <3>4. QED
      BY <1>2, <3>2, <3>3
  <2>3. CASE left[s] # 1
    <3>1. Drift(s)' = (duty_current'[s] + k - DutyAt(goal[s])) % DutyMod
      BY <1>3, <1>5, <2>3 DEF Drift, DutyAt
    <3>2. duty_current'[s] + k - a = duty_current'[s] + (k - a)
      BY <2>1
    <3>3. QED
      BY <1>2, <3>1, <3>2
  <2>4. QED
    BY <2>2, <2>3
<1>8. (((duty_current[s] + step[s]) % DutyMod) + (k - a)) % DutyMod
        = ((duty_current[s] + step[s]) + (k - a)) % DutyMod
  <2>1. duty_current[s] + step[s] \in Int /\ k - a \in Int
    BY <1>1
  <2>2. QED
    BY <1>1, <2>1, ModAdd
<1>9. (duty_current[s] + step[s]) + (k - a) = duty_current[s] + left[s] * step[s] - a
  BY <1>1, <1>4
<1>10. QED
  BY <1>5, <1>6, <1>7, <1>8, <1>9

(* The start of a sweep is where it changes, by the error of the move. *)
LEMMA ReadDrifts ==
  ASSUME SInv, NEW s \in Servos, ReadTarget(s), Drift(s)' # Drift(s)
  PROVE  /\ tpc[s] = "read" /\ tpc'[s] = "sweep"
         /\ (Drift(s)' - Drift(s)) % DutyMod \in OfOneSweep
<1>1. CASE Moves(s)
  <2>1. PICK g \in Int, r \in Int : g = TargetRc(s) /\ r = rot_current[s]
    BY TargetType DEF SInv, TypeOK
  <2>2. /\ goal'[s] = g /\ step'[s] = DutyStep(g - r) /\ left'[s] = STEPS /\ tpc'[s] = "sweep"
        /\ duty_current' = duty_current /\ tpc[s] = "read"
    BY <1>1, <2>1 DEF SInv, TypeOK, ReadTarget
  <2>3. /\ DutyMod \in Nat \ {0} /\ duty_current[s] \in Int
        /\ DutyAt(g) \in Int /\ DutyAt(r) \in Int /\ STEPS * DutyStep(g - r) \in Int
    <3>1. g - r \in Int
      OBVIOUS
    <3>2. DutyStep(g - r) \in Int /\ STEPS \in Int /\ InitialDuty \in Int
      BY <3>1, DutyType, ServoAssumption
    <3>3. QED
      BY <3>2, DutyType, ServoAssumption DEF SInv, TypeOK, DutyAt
  <2>4. PICK x \in Int, y \in Int : /\ x = duty_current[s] + STEPS * DutyStep(g - r) - DutyAt(g)
                                   /\ y = duty_current[s] - DutyAt(r)
    BY <2>3
  <2>5. Drift(s)' = x % DutyMod /\ Drift(s) = y % DutyMod
    BY <2>1, <2>2, <2>4 DEF Drift, DutyAt
  <2>6. x - y = STEPS * DutyStep(g - r) - (DutyAt(g) - DutyAt(r))
    BY <2>3, <2>4
  <2>7. (Drift(s)' - Drift(s)) % DutyMod = (x - y) % DutyMod
    <3>1. ((x % DutyMod) - (y % DutyMod)) % DutyMod = (x - y) % DutyMod
      BY <2>3, ModSubtract
    <3>2. QED
      BY <2>5, <3>1
  <2>8. (x - y) % DutyMod \in OfOneSweep
    BY <2>6, MoveErrs
  <2>9. QED
    BY <2>2, <2>7, <2>8
<1>2. CASE ~Moves(s)
  <2>1. tpc[s] = "read" /\ tpc'[s] = "test" /\ UNCHANGED <<duty_current, rot_current>>
    BY <1>2 DEF SInv, TypeOK, ReadTarget
  <2>2. Drift(s)' = Drift(s)
    BY <2>1 DEF Drift, DutyAt
  <2>3. QED
    BY <2>2
<1>3. QED
  BY <1>1, <1>2

(* Nothing else touches it. *)
LEMMA OthersKeepDrift ==
  ASSUME SInv, [Next]_vars, NEW s \in Servos, ~Sweep(s), ~ReadTarget(s)
  PROVE  Drift(s)' = Drift(s)
<1>1. SUFFICES /\ tpc[s] = "sweep" <=> tpc'[s] = "sweep"
               /\ duty_current'[s] = duty_current[s] /\ rot_current'[s] = rot_current[s]
               /\ left'[s] = left[s] /\ step'[s] = step[s] /\ goal'[s] = goal[s]
  BY DEF Drift, DutyAt
<1>2. ASSUME NEW u \in Servos, Enter(u) \/ Bind(u) \/ TestEnd(u)
      PROVE  /\ tpc[s] = "sweep" <=> tpc'[s] = "sweep"
             /\ UNCHANGED <<goal, left, step, rot_current, duty_current>>
  <2>1. PICK p \in ThreadSteps \ {"sweep"} : tpc' = [tpc EXCEPT ![u] = p]
    BY <1>2 DEF Enter, Bind, TestEnd, ThreadSteps
  <2>2. tpc[u] # "sweep" /\ UNCHANGED <<goal, left, step, rot_current, duty_current>>
    BY <1>2 DEF Enter, Bind, TestEnd
  <2>3. QED
    BY <2>1, <2>2 DEF SInv, TypeOK
<1>3. ASSUME NEW u \in Servos \ {s}, Sweep(u) \/ ReadTarget(u)
      PROVE  /\ tpc'[s] = tpc[s] /\ duty_current'[s] = duty_current[s]
             /\ rot_current'[s] = rot_current[s]
             /\ left'[s] = left[s] /\ step'[s] = step[s] /\ goal'[s] = goal[s]
  <2>1. CASE Sweep(u)
    BY <2>1 DEF SInv, TypeOK, Sweep
  <2>2. CASE ReadTarget(u)
    BY <2>2 DEF SInv, TypeOK, ReadTarget
  <2>3. QED
    BY <1>3, <2>1, <2>2
<1>4. CASE Join \/ Spawn
  <2>1. i \in Servos /\ tpc[i] # "sweep"
    <3>1. i \in Servos
      BY <1>4 DEF SInv, Phases, Join, Spawn
    <3>2. ~(i < i)
      BY <3>1 DEF Servos
    <3>3. QED
      BY <1>4, <3>1, <3>2 DEF SInv, Phases, Join, Spawn
  <2>2. QED
    BY <1>4, <2>1 DEF SInv, TypeOK, Join, Spawn
<1>5. CASE \/ TurnOff \/ EndNow \/ Restore \/ AssignTarget \/ UNCHANGED vars
           \/ \E u \in Servos : Retarget(u) \/ StoreAngle(u)
  BY <1>5 DEF TurnOff, EndNow, Restore, AssignTarget, Retarget, StoreAngle, vars, servoVars
<1>6. QED
  BY <1>2, <1>3, <1>4, <1>5 DEF Next, Owner, ServoThread

(* servo_util.cpp:160-168: whatever angles it is sent to, a servo errs     *)
(* only by the truncation of its duty step, once for each sweep and by at  *)
(* most STEPS units.  After n sweeps it is off by n * STEPS at most; that  *)
(* it may come to that is what the run of MCServoDrift.cfg shows.          *)
THEOREM DriftBounded == Spec => DriftsBySweep
<1>1. SInv /\ [Next]_vars =>
        [\A s \in Servos : Drift(s)' # Drift(s) =>
           /\ tpc[s] = "read" /\ tpc'[s] = "sweep"
           /\ (Drift(s)' - Drift(s)) % DutyMod \in OfOneSweep]_vars
  <2>1. ASSUME SInv, [Next]_vars, NEW s \in Servos, Drift(s)' # Drift(s)
        PROVE  /\ tpc[s] = "read" /\ tpc'[s] = "sweep"
               /\ (Drift(s)' - Drift(s)) % DutyMod \in OfOneSweep
    BY <2>1, SweepKeepsDrift, ReadDrifts, OthersKeepDrift
  <2>2. QED
    BY <2>1
<1>2. QED
  BY <1>1, Invariance, PTL DEF Spec, DriftsBySweep
=============================================================================
