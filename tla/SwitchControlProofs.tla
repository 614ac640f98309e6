------------------------ MODULE SwitchControlProofs ------------------------
(***************************************************************************)
(* The safety invariants of SwitchControl for every number of switches, of *)
(* callbacks and of pins, every set of voltages and every client request.  *)
(*                                                                         *)
(* PinsFollowBuffer is not inductive: the end of a round needs PinsInRound *)
(* and the start of one needs PinsFollowBuffer, so IInv is both with the   *)
(* types.  One lemma per group of actions; app_main, the ADC and battery   *)
(* threads leave the pins, the buffer and the loop alone.                  *)
(***************************************************************************)
EXTENDS SwitchControl, TLAPS

IInv == TypeOK /\ PinsFollowBuffer /\ PinsInRound

(* A request selects bits of the switch byte only: 1 << (desp % 8) stays   *)
(* within the byte for a non-negative desp.                                *)
LEMMA MasksType == \A desp \in RpcArgs : Masks(desp) \subseteq SUBSET Bits
<1>1. SUFFICES ASSUME NEW desp \in RpcArgs
               PROVE  Masks(desp) \subseteq SUBSET Bits
  OBVIOUS
<1>2. desp \in Int /\ NBits \in Nat \ {0}
  BY SwitchAssumption
<1>3. desp % NBits \in 0 .. NBits - 1
  BY <1>2
<1>4. QED
  BY <1>3 DEF Masks, Bits

(* The battery thread and a reading keep the types of the battery monitor. *)
LEMMA BatteryTypes ==
  ASSUME BatteryTypeOK
  PROVE  /\ BatteryControlLoop => BatteryTypeOK'
         /\ \A v \in Readings : StoreReading(v) => BatteryTypeOK'
  BY DEF BatteryTypeOK, BatteryControlLoop, LoadLow, Disable, LoadHigh, Enable, StoreReading

(* At the start every switch and every pin is off, between two rounds. *)
LEMMA InitIInv == Init => IInv
<1>1. SUFFICES ASSUME Init PROVE IInv
  OBVIOUS
<1>2. TypeOK
  <2>1. BatteryTypeOK
    BY <1>1 DEF Init, BatteryInit, BatteryTypeOK
  <2>2. rpc \in Rpcs
    BY <1>1 DEF Init, Rpcs, RpcIdle
  <2>3. 0 \in 0 .. NCallbacks
    BY SwitchAssumption
  <2>4. QED
    BY <1>1, <2>1, <2>2, <2>3 DEF Init, TypeOK
<1>3. PinsFollowBuffer /\ PinsInRound
  BY <1>1 DEF Init, PinsFollowBuffer, PinsInRound
<1>4. QED
  BY <1>2, <1>3 DEF IInv

(* The RPC writes switch_ and its own locals; the pins do not move. *)
LEMMA RpcStep == IInv /\ ToggleRpc => IInv'
<1>1. SUFFICES ASSUME IInv, ToggleRpc PROVE IInv'
  OBVIOUS
<1>2. TypeOK'
  <2>1. CASE \E desp \in RpcArgs : ToggleSwitch(desp)
    <3>1. PICK desp \in RpcArgs : ToggleSwitch(desp)
      BY <2>1
    <3>2. PICK m \in Masks(desp) : rpc' = [RpcIdle EXCEPT !.pc = "load", !.mask = m]
      BY <3>1 DEF ToggleSwitch
    <3>3. m \in SUBSET Bits
      BY <3>2, MasksType
    <3>4. rpc' \in Rpcs
      BY <3>2, <3>3 DEF Rpcs, RpcIdle
    <3>5. QED
      BY <1>1, <3>1, <3>4
         DEF IInv, TypeOK, BatteryTypeOK, ToggleSwitch, battVars, loopVars, mainVars
  <2>2. CASE ToggleLoad
    BY <1>1, <2>2
       DEF IInv, TypeOK, BatteryTypeOK, ToggleLoad, Rpcs, battVars, loopVars, mainVars
  <2>3. CASE ToggleStore
    <3>1. rpc.old \in SUBSET Bits /\ rpc.mask \in SUBSET Bits
      BY <1>1 DEF IInv, TypeOK, Rpcs
    <3>2. switch_' \in SUBSET Bits /\ rpc' \in Rpcs
      BY <2>3, <3>1 DEF ToggleStore, Xor, RpcIdle, Rpcs
    <3>3. QED
      BY <1>1, <2>3, <3>2
         DEF IInv, TypeOK, BatteryTypeOK, ToggleStore, battVars, loopVars, mainVars
  <2>4. QED
    BY <1>1, <2>1, <2>2, <2>3 DEF ToggleRpc
<1>3. UNCHANGED loopVars
  BY <1>1 DEF ToggleRpc, ToggleSwitch, ToggleLoad, ToggleStore
<1>4. QED
  BY <1>1, <1>2, <1>3 DEF IInv, PinsFollowBuffer, PinsInRound, loopVars

(* One callback moves its own pin, and only if its bit changed. *)
LEMMA CallbackStep == IInv /\ LoopCallback => IInv'
<1>1. SUFFICES ASSUME IInv, LoopCallback PROVE IInv'
  OBVIOUS
<1>2. /\ NCallbacks \in Nat /\ next \in Nat /\ PinBits \subseteq Nat
      /\ pins \in SUBSET PinBits
  BY <1>1, SwitchAssumption DEF IInv, TypeOK, Bits
<1>3. pins' \in SUBSET PinBits /\ next' \in 0 .. NCallbacks
  BY <1>1, <1>2 DEF LoopCallback, DrivePin
<1>4. TypeOK'
  BY <1>1, <1>3
     DEF IInv, TypeOK, BatteryTypeOK, LoopCallback, battVars, rpcVars, mainVars
<1>5. spc' = "callbacks"
  BY <1>1 DEF LoopCallback
<1>6. pins' = {b \in PinBits : b \in IF b < next' THEN switch_buff' ELSE load'}
  <2>1. pins = {b \in PinBits : b \in IF b < next THEN switch_buff ELSE load}
    BY <1>1 DEF IInv, PinsInRound, LoopCallback
  <2>2. \A b \in PinBits : b # next => (b < next' <=> b < next)
    BY <1>1, <1>2 DEF LoopCallback
  <2>3. next < next' /\ ~(next < next)
    BY <1>1, <1>2 DEF LoopCallback
  <2>4. \A b \in PinBits : b # next => (b \in pins' <=> b \in pins)
    BY <1>1 DEF LoopCallback, DrivePin
  <2>5. next \in PinBits => (next \in pins' <=> next \in switch_buff)
    BY <1>1, <2>1, <2>3 DEF LoopCallback, DrivePin, Xor
  <2>6. switch_buff' = switch_buff /\ load' = load
    BY <1>1 DEF LoopCallback
  <2>7. QED
    BY <1>3, <2>1, <2>2, <2>3, <2>4, <2>5, <2>6
<1>7. QED
  BY <1>4, <1>5, <1>6 DEF IInv, PinsFollowBuffer, PinsInRound

(* A round starts with the pins at the old buffered value, and ends, after *)
(* every callback, with the pins at the new one.                           *)
LEMMA LoopStep == IInv /\ SwitchChildCallbacksLoop => IInv'
<1>1. SUFFICES ASSUME IInv, SwitchChildCallbacksLoop PROVE IInv'
  OBVIOUS
<1>2. CASE LoopTop \/ LoopCheck \/ LoopClear
  BY <1>1, <1>2
     DEF IInv, TypeOK, BatteryTypeOK, PinsFollowBuffer, PinsInRound, LoopTop, LoopCheck,
         LoopClear, battVars, rpcVars, mainVars
<1>3. CASE LoopSample
  <2>1. TypeOK'
    BY <1>1, <1>3, SwitchAssumption
       DEF IInv, TypeOK, BatteryTypeOK, LoopSample, battVars, rpcVars, mainVars
  <2>2. pins = switch_buff \cap PinBits
    BY <1>1, <1>3 DEF IInv, PinsFollowBuffer, LoopSample
  <2>3. PinsFollowBuffer'
    BY <1>3, <2>2 DEF LoopSample, PinsFollowBuffer
  <2>4. PinsInRound'
    <3>1. \A b \in PinBits : ~(b < 0)
      BY SwitchAssumption DEF Bits
    <3>2. spc' = "callbacks" => load' = switch_buff /\ next' = 0 /\ pins' = pins
      BY <1>3 DEF LoopSample
    <3>3. QED
      BY <2>2, <3>1, <3>2 DEF PinsInRound
  <2>5. QED
    BY <2>1, <2>3, <2>4 DEF IInv
<1>4. CASE LoopCallback
  BY <1>1, <1>4, CallbackStep
<1>5. CASE LoopEnd
  <2>1. TypeOK'
    BY <1>1, <1>5
       DEF IInv, TypeOK, BatteryTypeOK, LoopEnd, battVars, rpcVars, mainVars
  <2>2. \A b \in PinBits : b < next
    BY <1>5, SwitchAssumption DEF LoopEnd, Bits
  <2>3. pins = switch_buff \cap PinBits
    BY <1>1, <1>5, <2>2 DEF IInv, PinsInRound, LoopEnd
  <2>4. QED
    BY <1>5, <2>1, <2>3 DEF LoopEnd, IInv, PinsFollowBuffer, PinsInRound
<1>6. QED
  BY <1>1, <1>2, <1>3, <1>4, <1>5 DEF SwitchChildCallbacksLoop

(* app_main, misc_adc_read and battery_control_loop. *)
LEMMA OtherStep ==
  IInv /\ (MainPoll \/ MainDrop \/ AdcTop \/ AdcRead \/ BatteryThread) => IInv'
<1>1. SUFFICES ASSUME IInv, MainPoll \/ MainDrop \/ AdcTop \/ AdcRead \/ BatteryThread
               PROVE  IInv'
  OBVIOUS
<1>2. BatteryTypeOK'
  BY <1>1, BatteryTypes
     DEF IInv, TypeOK, BatteryTypeOK, MainPoll, MainDrop, AdcTop, AdcRead, BatteryThread, battVars
<1>3. UNCHANGED <<loopVars, rpcVars, switch_>>
  BY <1>1 DEF MainPoll, MainDrop, AdcTop, AdcRead, BatteryThread
<1>4. /\ mpc' \in {"poll", "drop", "cleanup"} /\ adc' \in {"top", "read", "done"}
      /\ to_sleep' \in BOOLEAN
  BY <1>1
     DEF IInv, TypeOK, MainPoll, MainDrop, AdcTop, AdcRead, BatteryThread, mainVars
<1>5. QED
  BY <1>1, <1>2, <1>3, <1>4
     DEF IInv, TypeOK, PinsFollowBuffer, PinsInRound, loopVars, rpcVars

(* A stuttering step keeps the invariant. *)
LEMMA StutterStep == IInv /\ UNCHANGED vars => IInv'
  BY DEF IInv, TypeOK, BatteryTypeOK, PinsFollowBuffer, PinsInRound, vars, battVars, rpcVars,
         loopVars, mainVars

(* No step of any thread or client leaves the invariant. *)
LEMMA NextIInv == IInv /\ [Next]_vars => IInv'
  BY RpcStep, LoopStep, OtherStep, StutterStep DEF Next

(* Every reachable state is well typed and has the pins where the buffered *)
(* switches say, in a round of callbacks as between two of them.           *)
THEOREM InductiveInvariant == Spec => []IInv
  BY InitIInv, NextIInv, PTL DEF Spec

(* The switches keep their types, for every request a client may send. *)
THEOREM TypeCorrect == Spec => []TypeOK
<1>1. IInv => TypeOK
  BY DEF IInv
<1>2. QED
  BY <1>1, InductiveInvariant, PTL

(* Outside a round of callbacks the pins are exactly the buffered switches:*)
(* the loop never skips the callback of a bit that changed.                *)
THEOREM PinsAreBuffered == Spec => []PinsFollowBuffer
<1>1. IInv => PinsFollowBuffer
  BY DEF IInv
<1>2. QED
  BY <1>1, InductiveInvariant, PTL

(* Within a round every pin is at its old or its new value, in order.      *)
THEOREM PinsChangeInOrder == Spec => []PinsInRound
<1>1. IInv => PinsInRound
  BY DEF IInv
<1>2. QED
  BY <1>1, InductiveInvariant, PTL

(* The only update that toggle_switch can overwrite between its load and   *)
(* its store is the clear of the callbacks loop.                           *)
THEOREM ToggleLosesOnlyClear == Spec => []OnlyClearIsLost
<1>1. Init => OnlyClearIsLost
  BY DEF Init, RpcIdle, OnlyClearIsLost
<1>2. IInv /\ OnlyClearIsLost /\ [Next]_vars => OnlyClearIsLost'
  <2>1. SUFFICES ASSUME IInv, OnlyClearIsLost, [Next]_vars PROVE OnlyClearIsLost'
    OBVIOUS
  <2>2. rpc \in Rpcs
    BY <2>1 DEF IInv, TypeOK
  <2>3. CASE \E desp \in RpcArgs : ToggleSwitch(desp)
    BY <2>3 DEF ToggleSwitch, RpcIdle, OnlyClearIsLost
  <2>4. CASE ToggleLoad
    BY <2>2, <2>4 DEF ToggleLoad, Rpcs, OnlyClearIsLost
  <2>5. CASE ToggleStore
    BY <2>5 DEF ToggleStore, RpcIdle, OnlyClearIsLost
  <2>6. CASE LoopClear
    BY <2>6 DEF LoopClear, OnlyClearIsLost
  <2>7. CASE UNCHANGED <<switch_, rpc>>
    BY <2>1, <2>7 DEF OnlyClearIsLost
  <2>8. QED
    BY <2>1, <2>3, <2>4, <2>5, <2>6, <2>7
       DEF Next, ToggleRpc, SwitchChildCallbacksLoop, LoopTop, LoopCheck, LoopSample,
           LoopCallback, LoopEnd, MainPoll, MainDrop, AdcTop, AdcRead, BatteryThread, rpcVars,
           vars
<1>3. QED
  BY <1>1, <1>2, InductiveInvariant, PTL DEF Spec
=============================================================================
