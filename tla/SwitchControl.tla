--------------------------- MODULE SwitchControl ---------------------------
(***************************************************************************)
(* The remote switches of DomoHelios (src/main/domohelios.cpp), composed   *)
(* with the battery monitor.  Five threads share atomics and no lock:      *)
(*                                                                         *)
(*   the MQTT event task runs the toggle_switch RPC, which flips one bit   *)
(*     of switch_ by a load and a later store;                             *)
(*   switch_child_callbacks_loop clears switch_ while the externals are    *)
(*     disabled, copies it to switch_buff and drives the GPIO pins;        *)
(*   battery_control_loop and misc_adc_read (module Battery);              *)
(*   app_main polls the battery and, when it is critical, destroys the     *)
(*     ThingsBoard client and raises to_sleep, which ends the loops.       *)
(*                                                                         *)
(* A byte of switches is the set of its bits that are 1.                   *)
(***************************************************************************)
EXTENDS Battery, FiniteSets

CONSTANTS NBits,        \* bits of switch_ (8 in the code)
          NCallbacks,   \* size of children_callback_functions (4 in the code)
          PinBits,      \* the callbacks that drive a pin: 0 is GPIO 15, 1 is GPIO 2
          RpcArgs       \* values of toggle_switch_select that clients send

Bits == 0 .. NBits - 1

ASSUME SwitchAssumption == /\ NBits \in Nat \ {0} /\ NCallbacks \in Nat
                           /\ PinBits \subseteq Bits \cap 0 .. NCallbacks - 1
                           /\ RpcArgs \subseteq Int

VARIABLES
  \* shared
  switch_,       \* std::atomic<char>: the commanded switches
  to_sleep,      \* std::atomic_bool
  \* toggle_switch, on the MQTT event task
  rpc,           \* [pc, mask, old]: step, 1 << (desp % 8), value of switch_.load()
  \* switch_child_callbacks_loop
  spc, load,     \* step of the loop; the buffered value before this round
  next,          \* index of the callback to consider
  switch_buff,   \* std::atomic<char>, written by this thread only
  pins,          \* bits of the pins that are driven high
  \* misc_adc_read, app_main
  adc, mpc

rpcVars    == <<rpc>>
loopVars   == <<spc, load, next, switch_buff, pins>>
mainVars   == <<mpc, to_sleep>>
vars       == <<battVars, switch_, rpcVars, loopVars, mainVars, adc>>

RpcIdle == [pc |-> "idle", mask |-> {}, old |-> {}]
Rpcs == [pc : {"idle", "load", "store"}, mask : SUBSET Bits, old : SUBSET Bits]

TypeOK == /\ BatteryTypeOK
          /\ switch_ \in SUBSET Bits
          /\ to_sleep \in BOOLEAN
          /\ rpc \in Rpcs
          /\ spc \in {"top", "check", "clear", "sample", "callbacks", "done"}
          /\ load \in SUBSET Bits
          /\ next \in 0 .. NCallbacks
          /\ switch_buff \in SUBSET Bits
          /\ pins \in SUBSET PinBits
          /\ adc \in {"top", "read", "done"}
          /\ mpc \in {"poll", "drop", "cleanup"}

Init == /\ BatteryInit
        /\ switch_ = {} /\ to_sleep = FALSE
        /\ rpc = RpcIdle
        /\ spc = "top" /\ load = {} /\ next = 0
        /\ switch_buff = {} /\ pins = {}
        /\ adc = "top" /\ mpc = "poll"
-----------------------------------------------------------------------------
(* The C operator ^ on bytes. *)
Xor(a, b) == (a \ b) \cup (b \ a)

(* What 1 << (desp % 8) may give once it is stored in a char.  C's         *)
(* remainder of a negative desp is negative (unless it is 0) and shifting  *)
(* by it is undefined: no bit, or any one bit.                             *)
Masks(desp) == IF desp >= 0 \/ desp % NBits = 0
               THEN {{desp % NBits}}
               ELSE {{}} \cup {{b} : b \in Bits}

(* Mutant: the switches can be toggled while the externals are disabled.   *)
ToggleSwitchUnguarded(desp) ==
  /\ rpc.pc = "idle"
  /\ \E m \in Masks(desp) : rpc' = [RpcIdle EXCEPT !.pc = "load", !.mask = m]
  /\ UNCHANGED <<battVars, switch_, loopVars, mainVars, adc>>

(* toggle_switch: if(!disable_external.load()).  The static mqttClient     *)
(* outlives tb and keeps its callback into it: after MainPoll has destroyed*)
(* tb a request is undefined behaviour, served from the freed callbacks or *)
(* lost.                                                                   *)
ToggleSwitch(desp) ==
  /\ rpc.pc = "idle"
  /\ ~disable_external
  /\ \E m \in Masks(desp) : rpc' = [RpcIdle EXCEPT !.pc = "load", !.mask = m]
  /\ UNCHANGED <<battVars, switch_, loopVars, mainVars, adc>>

(* switch_.load() *)
ToggleLoad ==
  /\ rpc.pc = "load"
  /\ rpc' = [rpc EXCEPT !.pc = "store", !.old = switch_]
  /\ UNCHANGED <<battVars, switch_, loopVars, mainVars, adc>>

(* switch_.store(... ^ ...): what another thread stored since is lost. *)
ToggleStore ==
  /\ rpc.pc = "store"
  /\ switch_' = Xor(rpc.old, rpc.mask)
  /\ rpc' = RpcIdle
  /\ UNCHANGED <<battVars, loopVars, mainVars, adc>>

ToggleRpc == (\E desp \in RpcArgs : ToggleSwitch(desp)) \/ ToggleLoad \/ ToggleStore
-----------------------------------------------------------------------------
(* Mutants. The loop has no end; the clear spares what is not on yet; the  *)
(* round starts at the second callback; a pin shows the old value; a pin   *)
(* is only ever switched on; one callback too many.                        *)
LoopTopEndless ==
  /\ spc = "top"
  /\ spc' = "check"
  /\ UNCHANGED <<battVars, switch_, rpcVars, load, next, switch_buff, pins, mainVars, adc>>
LoopClearOn ==
  /\ spc = "clear"
  /\ switch_' = switch_ \ switch_buff
  /\ spc' = "sample"
  /\ UNCHANGED <<battVars, rpcVars, load, next, switch_buff, pins, mainVars, adc>>
LoopSampleFromOne ==
  /\ spc = "sample"
  /\ IF switch_ # switch_buff
     THEN /\ load' = switch_buff /\ switch_buff' = switch_
          /\ next' = 1 /\ spc' = "callbacks"
     ELSE /\ spc' = "top"
          /\ UNCHANGED <<load, switch_buff, next>>
  /\ UNCHANGED <<battVars, switch_, rpcVars, pins, mainVars, adc>>
DrivePinOld(b) == IF b \in load THEN pins \cup {b} ELSE pins \ {b}
DrivePinOn(b) == pins \cup {b}
LoopCallbackOneMore ==
  /\ spc = "callbacks" /\ next <= NCallbacks
  /\ pins' = IF next \in PinBits THEN pins \cup {next} ELSE pins
  /\ next' = next + 1
  /\ UNCHANGED <<battVars, switch_, rpcVars, spc, load, switch_buff, mainVars, adc>>

(* while(!to_sleep.load()) *)
LoopTop ==
  /\ spc = "top"
  /\ spc' = IF to_sleep THEN "done" ELSE "check"
  /\ UNCHANGED <<battVars, switch_, rpcVars, load, next, switch_buff, pins, mainVars, adc>>

(* if(disable_external.load()) *)
LoopCheck ==
  /\ spc = "check"
  /\ spc' = IF disable_external THEN "clear" ELSE "sample"
  /\ UNCHANGED <<battVars, switch_, rpcVars, load, next, switch_buff, pins, mainVars, adc>>

(* switch_.store(0x00000000) *)
LoopClear ==
  /\ spc = "clear"
  /\ switch_' = {}
  /\ spc' = "sample"
  /\ UNCHANGED <<battVars, rpcVars, load, next, switch_buff, pins, mainVars, adc>>

(* load = switch_buff; target = switch_; when they differ the target is    *)
(* buffered and the callbacks run, else the thread pauses.                 *)
LoopSample ==
  /\ spc = "sample"
  /\ IF switch_ # switch_buff
     THEN /\ load' = switch_buff /\ switch_buff' = switch_
          /\ next' = 0 /\ spc' = "callbacks"
     ELSE /\ spc' = "top"
          /\ UNCHANGED <<load, switch_buff, next>>
  /\ UNCHANGED <<battVars, switch_, rpcVars, pins, mainVars, adc>>

(* toggle_gpio_A, toggle_gpio_B: the pin takes its bit of switch_buff.     *)
DrivePin(b) == IF b \in switch_buff THEN pins \cup {b} ELSE pins \ {b}

(* One turn of the for: if((load ^ target) & next) func(); next <<= 1      *)
LoopCallback ==
  /\ spc = "callbacks" /\ next < NCallbacks
  /\ pins' = IF next \in Xor(load, switch_buff) \cap PinBits THEN DrivePin(next) ELSE pins
  /\ next' = next + 1
  /\ UNCHANGED <<battVars, switch_, rpcVars, spc, load, switch_buff, mainVars, adc>>

(* The end of the for, and the pause. *)
LoopEnd ==
  /\ spc = "callbacks" /\ next = NCallbacks
  /\ spc' = "top"
  /\ UNCHANGED <<battVars, switch_, rpcVars, load, next, switch_buff, pins, mainVars, adc>>

SwitchChildCallbacksLoop ==
  LoopTop \/ LoopCheck \/ LoopClear \/ LoopSample \/ LoopCallback \/ LoopEnd
-----------------------------------------------------------------------------
(* while (!battery_is_critical()) {}, then deinit_thingsboard().           *)
MainPoll ==
  /\ mpc = "poll" /\ BatteryIsCritical
  /\ mpc' = "drop"
  /\ UNCHANGED <<battVars, switch_, rpcVars, loopVars, adc, to_sleep>>

(* low_battery_sys_drop: to_sleep.store(1). *)
MainDrop ==
  /\ mpc = "drop"
  /\ to_sleep' = TRUE
  /\ mpc' = "cleanup"
  /\ UNCHANGED <<battVars, switch_, rpcVars, loopVars, adc>>

(* misc_adc_read: while(!to_sleep.load()) *)
AdcTop ==
  /\ adc = "top"
  /\ adc' = IF to_sleep THEN "done" ELSE "read"
  /\ UNCHANGED <<battVars, switch_, rpcVars, loopVars, mainVars>>

(* The rest of its round: a fresh reading, whatever to_sleep is by now.    *)
AdcRead ==
  /\ adc = "read"
  /\ adc' = "top"
  /\ \E v \in Readings : StoreReading(v)
  /\ UNCHANGED <<switch_, rpcVars, loopVars, mainVars>>

BatteryThread ==
  /\ BatteryControlLoop
  /\ UNCHANGED <<switch_, rpcVars, loopVars, mainVars, adc>>

Next == \/ ToggleRpc
        \/ SwitchChildCallbacksLoop
        \/ MainPoll \/ MainDrop
        \/ AdcTop \/ AdcRead
        \/ BatteryThread

Spec == Init /\ [][Next]_vars

(* The threads that app_main starts keep being scheduled; nothing obliges  *)
(* a client to send a request or the battery to change.                    *)
FairSpec == Spec /\ WF_vars(SwitchChildCallbacksLoop)
                 /\ WF_vars(BatteryThread)
                 /\ WF_vars(ToggleLoad \/ ToggleStore)
                 /\ WF_vars(MainPoll) /\ WF_vars(MainDrop)
-----------------------------------------------------------------------------
(* Outside a round of callbacks the pins show exactly the buffered         *)
(* switches: no change of switch_buff is left without its callback, though *)
(* callbacks run only for the bits that changed (domohelios.cpp:493-497).  *)
PinsFollowBuffer == spc # "callbacks" => pins = switch_buff \cap PinBits

(* The same in the middle of a round: the callbacks that already ran left  *)
(* their pin at the new value, the others are still at the old one.        *)
PinsInRound ==
  spc = "callbacks" =>
    pins = {b \in PinBits : b \in IF b < next THEN switch_buff ELSE load}

(* toggle_switch is a load and a store, not one atomic operation.  Between *)
(* them only the clear of the callbacks loop can slip in (and be undone):  *)
(* no other client's toggle is ever lost.                                  *)
OnlyClearIsLost == rpc.pc = "store" => switch_ \in {rpc.old, {}}

(* While the system runs and the externals stay disabled, the pins are     *)
(* driven low and stay low, whatever toggle was under way when the battery *)
(* ran low (domohelios.cpp:485-487).                                       *)
OffWhileDisabled ==
  ([]~to_sleep /\ <>[]disable_external) => <>[](pins = {} /\ switch_ = {})

(* While the system runs, once clients stop toggling, the pins settle on   *)
(* what switch_, and so the SW-0 and SW-1 telemetry, says.                 *)
PinsSettle ==
  ([]~to_sleep /\ <>[](rpc.pc = "idle")) => <>[](pins = switch_ \cap PinBits)

(* to_sleep ends the callbacks loop, so that its thread can be joined.     *)
LoopEnds == to_sleep ~> spc = "done"

(* "Turn off after low battery has been triggered", says the comment of    *)
(* the clear (domohelios.cpp:485): when the battery stays low the outputs  *)
(* end up off.  The code stops the loop first: MainDrop ends it with the   *)
(* pins as they are.                                                       *)
TurnOffAfterLowBattery == <>[](adc_batt < LowV /\ adc_batt > 0) => <>[](pins = {})
=============================================================================
