# DomoHelios in TLA+

DomoHelios is the firmware of an ESP32 board that follows the sun with two servos,
switches loads on request of a ThingsBoard server, watches its battery, and can be
configured over a built-in file server. This directory holds TLA+ models of the
firmware under `src/main`, TLC runs over them, and TLAPS proofs.

Paths below are relative to `src/main` unless they begin with `src/`.

## 1. The system

| Component | Source | State | Operations | Talks to |
|---|---|---|---|---|
| application | `domohelios.cpp` | file-scope atomics (`adc_batt`, `to_sleep`, `disable_external`, `switch_`, `switch_buff`), the `tb` pointer, six `std::thread`s | `app_main` (boot, access point or control, low-battery drop, cleanup), `battery_control_loop`, `misc_adc_read`, `publish_loop`, `switch_child_callbacks_loop`, RPC `toggle_switch` | everything, through atomics and calls |
| servo control | `include/servo_ctrl` | per servo: `end`, `_target_`, `rot_current`, `duty_current`; a shared atomic target | `operator()`/`task`, `end_now`, `set_target`, `unset_target`, `servo_thread_init`, `turn_off_servo_control`, `restore_servo_control` | targets stored by the solar tracker and `init_servo` |
| over the air update | `include/thingsboard/OTA_Handler.h`, `Callback_Watchdog`, `Espressif_Updater`, `HashGenerator`, `OTA_Update_Callback` | chunk counter, retries, hash, watchdog timer, OTA partition | start, packet received, timeout, stop, finish | MQTT event task and esp_timer task, ThingsBoard client, flash |
| ThingsBoard client | `include/thingsboard/ThingsBoard.h`, `Espressif_MQTT_Client.cpp` and callback classes | vectors of RPC, attribute and provisioning callbacks, request ids | subscribe, request, publish, dispatch of a received message, clean up, resubscribe on reconnection | MQTT broker, application, the event task of esp-mqtt |
| solar tracker | `include/solar_sys/solar_sys.hpp` | targets and direction of two servos, LDR readings | `inc_offset`, `enhance_focus` once a second | ADC atomics and `sys_conf` in, servo targets out |
| Wi-Fi | `include/wifi/wifi_def.c` | retry counter, event group | `wifi_init_sta`, event handler, `wifi_init_softap` | `app_main` through `wifi_ok` |
| file server | `include/server/as_server_server.c` | `server_data`, files under `/data` | start, download, upload (may restart the board), delete | storage, configuration |
| storage | `include/storage` | mounted SPIFFS | mount | file server, configuration |
| configuration reader | `include/json_read_DH_cfg` | `sys_conf` | parse `config.json` | application |
| Bluetooth transfer | `include/bt_handle` | packet queue, L2CAP channels | compiled, never started | |
| ADC | `include/adc_read` | calibration | averaged reading | application |
| third-party code | `src/components`, `src/managed_components` | | cJSON, ArduinoJson, spi_flash, ssd1306 | |

What is hard about it. There is no mutex in the application: six threads, the MQTT
event task and the timer task share atomics, plain variables and objects, on two cores.
Threads end only when they happen to look at a flag. Callbacks run on tasks that the
code which registered them does not control. MQTT requests are lost, answered late or
twice, the watchdog races with the answer, and the board may restart at any time.
`PROJECT.json` lists these hazards line by line, with the properties that cover them.

What makes each component correct:

- *switches*: the pins show the switches that telemetry reports, no change is skipped
  or lost, and everything is off while the battery is low;
- *battery*: the hysteresis holds although its two loads race with the ADC thread, and
  the monitor follows the battery without chatter;
- *life cycle*: nothing is used before it exists, the access point and the control
  system exclude each other, and a low battery stops what it must;
- *Wi-Fi, files, configuration*: the station uses all its retries before it gives up, a
  board without a network can be reached and given a new configuration, and control never
  runs with a configuration other than the stored one, whatever upload was cut short;
- *solar tracker*: targets stay within the half turn that the servo library accepts and the
  direction of the second one is known, for any light;
- *ThingsBoard client*: a request is answered at most once, through its own callback;
  whatever is waited for is subscribed; slots and topics are released;
- *servos*: a servo reaches its target, what its duty loses against its angle is bounded and
  has one cause, nothing drives a servo that was turned off, and turning off returns;
- *update*: only a complete image with the right checksum is ever booted, whatever the
  network does; every update ends, and says so once.

## 2. Modules

| Module | Models | Uses |
|---|---|---|
| `Battery` | `adc_batt`, `disable_external`, one step per load and store of `battery_control_loop`, `misc_adc_read`, `battery_is_critical` | |
| `BatteryHysteresis` | the monitor with the loads it acted on as history | `Battery` |
| `BatteryProofs` | theorems about it | `BatteryHysteresis` |
| `SwitchControl` | `toggle_switch`, `switch_child_callbacks_loop`, the GPIO callbacks, the low-battery drop, the ADC thread | `Battery` |
| `SwitchControlProofs` | theorems about it | `SwitchControl` |
| `Configuration` | `init_config`, `check_and_dump_cfg`: what a boot makes of `config.json` | |
| `WifiStation` | the Wi-Fi event handler, its retry counter and event bits | |
| `FileServer` | `start_file_server`, upload, deletion, and the file that outlives a reset | `Configuration` |
| `SolarTracker` | `enhance_focus`, `inc_offset` | `Configuration` |
| `Lifecycle` | `app_main`, the start and join of every thread, the life of `tb`, every reset; composes the four above with the battery monitor | `Battery`, `WifiStation`, `FileServer`, `SolarTracker` |
| `LifecycleProofs` | theorems about it | `Lifecycle` |
| `TbRequest` | what a request promises the application (abstract) | |
| `TbClient` | subscriptions, request tables, connection and dispatch of the ThingsBoard client; implements `TbRequest` | `TbRequest` |
| `TbProofs` | theorems about it | `TbClient` |
| `ServoComm` | the servo library, one thread per servo, and its owner | |
| `ServoProofs` | theorems about it | `ServoComm` |
| `FirmwareUpdate` | what an update promises the application (abstract) | |
| `OtaHandler` | the update handler, its two tasks, the network and the flash; implements `FirmwareUpdate` | `FirmwareUpdate` |
| `OtaProofs` | theorems about it | `OtaHandler` |
| `MC*` | the instances TLC checks | |

A `Battery` action is a step of the thread; `SwitchControl`, `Lifecycle` and
`BatteryHysteresis` compose it with the steps of other threads. Program counters
(`spc`, `bpc`, `tpc`, `rpc.pc`, `task[t].pc`, `call[t].pc`, `mpc`) cut a function where another thread can
observe or disturb it, which is at every load or store of a shared variable.

Correspondence, beyond names that are those of the source:

- a byte of switches is the set of its 1 bits; `1 << (desp % 8)` of a negative `desp`
  is undefined in C++ and gives no bit or any one bit;
- voltages are integers in hundredths of a volt. `battery_is_critical` is true up to
  and including 3.20 V, the monitor disables strictly below;
- after `tb->~ThingsBoard()` the static `mqttClient` still holds a callback into the
  destroyed object, so a late request is undefined behaviour: the model serves it from
  the freed callbacks or loses it. A crash at that point, which restarts the board, is
  `Init` again and is left out of `SwitchControl`;
- angles are integers with `Deg` units to the degree; `uint32_t` duties are
  integers modulo `DutyMod`; rounding and truncation are as in the code. The conversion
  of a negative float to `uint32_t` is undefined too, and moving a servo back relies on
  what the build does: it keeps the two's complement;
- a firmware chunk is the version it belongs to, or `Junk`; a hash is the sequence of the
  chunks it was fed; `OtaHandler!crashed` says that a null `m_fw_callback` was called;
- `TbClient`: RPC requests, attribute requests and provisioning have the same code three
  times, so one set of actions serves them: a table per kind, a topic per kind. Provisioning
  has one callback and no ids, which is a table of one entry and the id 0. The lines in `map`
  are those of the attribute requests where the three agree. `call[t]` is the call a task is
  in, with the slot address `registeredCallback` it keeps. The vectors have reserved their
  capacity and do not reallocate, so the write through an address hits a slot, or reserved
  memory that is not in use when the vector has shrunk meanwhile;
- the vectors have no lock. The application's calls are cut into `push_back` (`PushBack`),
  `&back()` (`Back`), the write of the id, publication and `clear()`, the event task's handler
  into the search with the call, `erase`, the test for empty, `clear()` and the unsubscription, and
  in the racing use they come in any order. What C++ leaves undefined there ends the behaviour, as
  `crashed`: `back()` of a vector a handler has emptied (`Back`), a `clear()` under a callback
  that is being called (`ClearTopic`, whose handler would go on to erase behind the end), and
  two accesses at the same time (`Race`, possible whenever both tasks are about to access one
  vector);
- RPCs and shared attributes that arrive change nothing in the client (`SwitchControl!ToggleSwitch`
  is the RPC's callback), and the firmware topic is `OtaHandler`'s;
- esp-mqtt and the broker are external: calls exclude each other and the event task's
  handlers, a session is clean, an answer that is under way when its topic is left may still
  be delivered. `publish` is not acknowledged, so request or answer may be lost unnoticed;
- a `config.json` is a record: how many of its members are read before the first bad one and
  the contents the program depends on. A truncated document has no closing brace and
  never parses, like one longer than the buffer of `init_config`; the boot then runs
  with `sys_conf` zeroed. Of `wifi.csv` nothing is ever read except by the upload handler,
  which restarts the board for it;
- `Lifecycle!Reset` is every reset, by power, `esp_restart` or panic: everything but the disk
  starts over. A file that was being written stays as far as it got: missing, partial or
  complete. `around` is rigid and says what disturbs a behaviour: the battery, the
  radio and the power, or the light. Panics and restarts happen under each;
- the result of `esp_wifi_connect` is ignored by the code: without a network name it may
  refuse, and no event follows;
- angles of the tracker are hundredths of a degree, and what the LDRs see is the imbalance
  they give, a fraction of the light;
- a fifth LDR takes its source from behind an array of four: any reading, or a panic;
- the mutated forms of definitions, marked *Mutants*, are plausible slips kept next to the
  code they resemble. They are not part of any specification; with one of them in the place
  of its original, the property listed for it in `PROJECT.json` fails.

## 3. Runs

| Run | Kind | Shows |
|---|---|---|
| `switch_control` | pass | the pins follow the buffered switches inside and outside a round; a toggle can only overwrite the loop's own clear; while the system runs and the battery stays low everything ends off; pins settle on the switches; the loop ends |
| `battery_hysteresis` | pass | re-activation needs a load more than 0.2 V above the one that disabled; the monitor follows a steady battery; a battery between the thresholds causes no chatter |
| `lifecycle` | pass | `tb` is set before telemetry uses it; the access point excludes control; control runs with the stored configuration; the station uses up its retries; targets stay within what the tracker clamps to and the direction is known; a configuration that brings the tracker down outlives every reset until a boot gets to the access point; every stoppable loop stops; the cleanup ends up waiting for `battery_control_loop`; a boot that stays without a network serves files for good, unless the server could not start or the board waits for ever in `wifi_init_sta` |
| `tb_client` | pass | whatever is waited for is subscribed; slots and topics are released with the last answer and no two tasks are in one vector (both for calls that exclude handlers); every request that is sent is answered or given up; the client implements `TbRequest`, in the racing use up to the first undefined access |
| `servo_comm` | pass | a servo's duty errs only by the truncation of a step, once a sweep and by at most `STEPS` units (also modulo 2^32), threads are joined at rest, a running task never reads a stale pointer, a resting target is reached, turning off returns |
| `ota_handler` | pass | only verified images boot; without late answers and cancellation there is no crash and one finish call; every update with an intact binary ends; the handler implements `FirmwareUpdate` |
| `switch_low_battery` | disagreement | `domohelios.cpp:485`: the drop ends the loop before it switches the outputs off |
| `lifecycle_first_reading` | disagreement | `domohelios.cpp:367`: the monitor decides on the initial 0, with no reading taken |
| `servo_drift` | disagreement | `src/README.md:49`: the truncated duty step accumulates |
| `servo_turn_off` | disagreement | `servo_util.cpp:227`: `end = 0` at the entry of the thread may erase `end_now()`, and the join hangs |
| `tb_reconnect` | disagreement | `ThingsBoard.h:418-420`, `1428`: `connect()` subscribes again before there is a connection; after one is lost the RPCs stay unheard |
| `ota_corrupt` | disagreement | `OTA_Handler.h:276-278`: a wrong binary is downloaded for ever, retries are refilled |

`CleanupStopsAtBattery` is a statement of what the code does, not of what it should: the
joins after the servos', `delete tb` and `enter_sleep` are unreachable, because
`battery_control_loop` has no exit (neither has the solar task). Should someone give the
loop an exit, the run fails and the double destruction of `tb` behind it needs a look.

### Bounds, and why they are enough

- `switch_control`: two switch bits instead of eight, three callbacks (two with a pin,
  one without), one voltage in each band of the thresholds. The bits do not influence each
  other except through the order of callbacks, for which two pins and a third callback are
  enough. Requests name each bit, one beyond the byte, and a negative one.
- `battery_hysteresis`: readings on both sides of each threshold and exactly at it.
- `lifecycle`: readings 3.15, 3.20 (critical, but not low), 3.30 and 3.45 V. Any number
  of access-point rounds, disconnections and resets; three retries, as in the code. Five
  configurations: a good one, one whose first servo turns all the way round and whose second
  makes a quarter turn, less than the tracker clamps to, one that breaks off in the servo list,
  one that breaks off before the network, and one with too many LDRs.
  Imbalances of a half and a whole, which reach both ends and the middle of each servo,
  and three times the whole for the LDR that does not exist.
  One kind of disturbance at a time: the battery matters only after the network is up, the
  light only moves the targets, the radio is noticed by the station alone, and no property
  relates two of them (attempts to connect may fail and panics reset the board in each, which is what
  `RepairedOnlyOffline` needs beside the light). `LifecycleProofs` allows any combination.
- `tb_client`: three attribute requests with room for two, and one provisioning request, so
  that a table is full, a slot is reused and an answer comes out of order. The complications
  (two tasks at once, callbacks that make requests, losses, registrations and cleanups) come
  one at a time: `MCUses` lists them. The racing use has all four requests, and three of them
  with one registration or cleanup in between. Two faults. `tb_reconnect` needs no request at all:
  one registration and one lost connection.
- `servo_comm`: two servos, one reversed, three updates a sweep; targets 0, 51 and 132 with
  362 duty units, where every move loses a part of a step, as nearly all of the tracker's do, and
  what a round trip loses adds up to nothing, which keeps the duties few. `servo_drift` uses the real 25 updates and 3000 units with targets a degree apart.
  Duties live modulo 2^20, which wraps below zero like 2^32 and stays within TLC's integers.
- `ota_handler`: two assignments, images of three chunks, the retries at 2, at most two
  answers in flight of a chunk and content (a third could only be another duplicate), at
  most two flash failures (a failing flash that never recovers would not end; see
  `ota_corrupt` for the cause). Versions are assigned in increasing order, by symmetry.
- Deadlock is checked everywhere but in the OTA runs, where a successful update and a crash
  are the end: the board reboots, and in the runs of the client, which may have nothing left
  to do.

### Fairness, and the assumptions of runs

Threads are weakly fair: FreeRTOS time-slices them and each loop sleeps. Nothing is
fair that depends on the outside: requests, readings, targets, assignments.

- `SwitchControl!OffWhileDisabled` and `PinsSettle` assume the system is not going to sleep;
  `TurnOffAfterLowBattery`, without that premise, is the disagreement.
- `ServoComm!AwaitEntry = TRUE` says that the library is called only once every thread has
  begun, which the seven seconds of exercise in `init_servo` ensure. `servo_turn_off` drops it.
  The property `Settles` only concerns targets in range and servos that stay on, and the angle a
  servo books; `DriftsBySweep` says how far its duty may be off.
- In `OtaHandler` the timer task, which has the higher priority, may interleave with the MQTT
  task at every step, but finishes its handler before the next message. The rigid variables
  `timely` (no answer is later than the timeout) and `stops` (the application cancels from
  the progress callback) let one run cover the good and the bad networks: safety of the boot
  partition and termination hold in all of them, `EndsOnce` and the refinement when both are quiet.
- In `Lifecycle` `app_main`, the loops that must notice `to_sleep`, the reset after a panic and
  the end of an attempt to connect are fair: the driver reports every attempt. An address
  after association is not: nothing bounds the wait for DHCP. `ServesFiles` is about a boot that
  in the end stays without a network: it stays in its server, in a start of it that failed
  (`server_data` is set before `httpd_start`, so nothing tries again) or in the wait that never ends.
  A server of an earlier boot does not count. httpd is not fair either, because a client may stay silent for ever.
- In `TbClient` the tasks are fair, `publish_loop` looks at the connection again and again, and
  the library makes its attempts; that an attempt succeeds is never assumed. `Listening`,
  `Released` and `Answered` are about calls that do not overlap with handlers, which is how
  the library can be used safely, and `Answered` about a connection that holds. When the
  application calls while a handler runs, only `TypeOK` and the refinement hold, and the model shows why:
  the topic is left just after another request has subscribed to it, `back()` finds the vector emptied,
  a cleanup clears the callback that is being called. The first access that C++ leaves undefined ends the
  behaviour, and the refinement is a promise up to there and none behind it. Nothing forces that end:
  the fairness conditions are those of a program that has not come to it (`~crashed`).
- The answers that the broker owes are weakly fair as a whole; losing an answer is a choice of
  the request that asked for it.

## 4. Proofs

Every invariant, action property and refinement that a passing run checks is also a theorem, for
all values of the constants that the assumptions and hypotheses in the table allow; liveness stays with
TLC (see the end of this section). `PROJECT.json` lists the theorems with the properties they state.

| Module | Assumptions on the constants | Theorems |
|---|---|---|
| `BatteryProofs` | `BatteryAssumption`: thresholds and readings are naturals, `LowV < HighV` | `TypeCorrect`, `HysteresisHolds` |
| `SwitchControlProofs` | also `SwitchAssumption`: at least one bit, pins are callbacks and bits | `TypeCorrect`, `PinsAreBuffered`, `PinsChangeInOrder`, `ToggleLosesOnlyClear` |
| `LifecycleProofs` | `BatteryAssumption`, `RetryAssumption`, `ConfigurationAssumption`, `TrackerAssumption`, `LifecycleAssumption` | `TypeCorrect`, `ClientIsSet`, `ServerAlone`, `ConfiguredAsStored`, `RetriesSpent`, `TargetsStayInRange`, `ReverseTellsSide`, `RepairNeedsAccessPoint` |
| `OtaProofs` | `OtaAssumption` | `TypeCorrect`, `OnlyVerifiedBoots`; with `ChunkRetries # 0`: `UpdateEndsOnce`, `UpdateImplemented` |
| `ServoProofs` | `ServoAssumption` | `TypeCorrect`, `OffStopped`, `DriftBounded`; with `AwaitEntry`: `TargetStable` |
| `TbProofs` | `ClientAssumption` | `TypeCorrect`, `KeepsListening`, `ReleasesAll`; with `OneCaller`: `RequestsImplemented` |

Almost none of the properties is inductive by itself. The proofs follow one pattern: a strengthened invariant, TLC
on it with the instance of the run, one lemma per action that it survives the action, and the property from it.
What the strengthening has to say is what the code relies on without saying so.

### Battery and switches

- `BatteryProofs!HysteresisHolds`: `ReactivationGap`. Both loads lie in the past when the
  externals come back, so the property is not inductive. `LoadsRecorded` adds, per program
  counter, on which side of the thresholds the recorded loads lie.
- `SwitchControlProofs!InductiveInvariant`: `TypeOK`, `PinsFollowBuffer` and `PinsInRound` are
  inductive together: a round begins with the pins at the old buffered value (`PinsFollowBuffer`
  gives `PinsInRound` with no callback done) and ends when the callback counter has passed every
  pin, which gives `PinsFollowBuffer` back. `CallbackStep` is the step in between.
- `ToggleLosesOnlyClear`: a toggle in flight can only be overwritten by the clear, because
  the MQTT task runs one handler at a time.

### Life cycle

`LifecycleProofs` proves every invariant of the run `lifecycle` from `BatteryAssumption`,
`RetryAssumption`, `ConfigurationAssumption`, `TrackerAssumption` and `LifecycleAssumption`: any documents,
retry budget, imbalances and surroundings. None of the invariants is inductive alone.
`InductiveInvariant` proves `IInv`, the conjunction of `TypeOK` with

- `Phases`: which threads run and whether `tb` exists at each step of `app_main`. It gives
  `TbSetBeforeUse`: the telemetry thread is started two steps after the client;
- `Served`: the server has not been started at the steps of control, and until it is the
  disk is as `init_config` found it. With `Phases` it gives `ApExcludesControl`, and alone
  `ControlsAsStored`: the only steps that change the file need a server in the same boot;
- `Counted`: while the station tries, it has failed as often as it has retried, which makes
  `GivesUpLast` inductive;
- `Fresh` and `Steady`: the tracker starts level with the configuration of its boot, and each
  round keeps `TargetsInRange` and `ReversedBeyondHalf`. An axis is moved by at most one
  rotation (`Fraction`, the one nonlinear step), so one clamp or one turn brings it back
  (`IncOffsetType`, `IncOffsetWraps`, `AxisInRange`); a servo that was never centred is
  never exactly in the middle (`Tracked`), so a crossing is one from side to side;
- `Stuck`: the server was not started in this boot and the stored configuration is too short or too long.
  A panic of the tracker leaves the board there (`FailsStuck`), and every step that does not enter the
  access point keeps it (`StuckStep`), resets included, because what is written to the disk is written by the server.
  `RepairNeedsAccessPoint` (`RepairedOnlyOffline`) is temporal: from a panic on, if no boot gets
  to the access point, the file never changes for the better.

`TypeStep` has one step per variable, `PhasesStep`, `ServedStep` and `CountedStep` one per group of
actions that can disturb them. Before the proofs TLC checked the strengthening on the
instance of the run.

### Over the air update

`OnlyVerifiedBoots` is about the one step that changes what boots, `End`, but what is then in the
partition was written long before, by two tasks that share the chunk counter and the hash. `OInv` adds to `TypeOK`

- `TasksApart`: the timer task only repeats a request, and from the moment an expected chunk is taken until it is worked
  on the MQTT task is alone, at that chunk. It rests on the watchdog being disarmed before the first write;
- `HashLength`: the hash covers exactly the chunks that were counted, except after the digest was
  spent (`Spent`: `mbedtls_md_finish` has been called and the update has to start over);
- `FlashHashed`: an open partition holds what was hashed, and at the last step an intact image;
- `FromServer` and `Unassigned`: contents are a version's or junk, and nothing is on its way before an assignment.

`HashVerifies` then gives the image: a hash equal to that of an assigned version is of that version's chunks.

`UpdateEndsOnce` and `UpdateImplemented` need `QInv`, about updates that nobody stops and whose answers are not later than
the timeout: an ongoing update has its callback (`Ongoing`), the tasks alternate with the watchdog (`Alternate`), and once a retry
is spent at most one answer is in flight (`Retries`, `Single`), so that an update which gives up leaves
none behind (`Nothing`). The last part needs a retry: with `ChunkRetries = 0` TLC finds the null
`m_fw_callback` called, because a second assignment leaves an answer to the first in flight, a failed write gives
up at once, and the left answer is taken for the expected chunk. `CHUNK_RETRIES` is 12
(`OTA_Update_Callback.h:29`), and only `Set_Chunk_Retries(0)` makes it 0.

### Servos

- `OffStopped` follows from `Threads` (a thread that left `task()` was told to) and `Phases` (which threads exist at each step of
  the owner's loops), for any use of the library.
- `TargetStable` has the hypothesis `AwaitEntry`, which the seven seconds of exercise in `init_servo` justify. The pointer is only
  assigned while its thread is on the way out (`Assigning`); a thread still at its first instruction would reset `end` and
  go on with the reference it binds then.
- `DriftBounded` has no hypothesis on the moves. `Drift` is the error a servo will have when it is next at rest: what its
  duty will be after the updates that are left, less the duty of the angle it books then. An update takes one from
  `left` and adds one `step` (`SweepKeepsDrift`), so `Drift` moves only where a sweep computes its step, by the
  remainder of one division (`ReadDrifts`), and nothing else touches it (`OthersKeepDrift`). Modulo `DutyMod`, so also
  where a backward step is a huge unsigned one. The errors of sweeps add up without a bound: that is what the run
  `servo_drift` shows.

### ThingsBoard client

`TbProofs` is the longest, because two callers, the event task and the reconnection interleave at every step. `NextCases` splits the
next-state relation by who takes the step, and the `...Effect` lemmas say once what each action does to the parts it touches; four
invariants share them.

- `TInv` holds in every use: what a call carries at each step (`InCall`), that a callback calls only while its handler waits
  (`ByHandler`), that the two callers exclude each other when they should (`Excluded`), and that what passed the test for
  room still has it (`Room`). The last is what makes the capacity in `TypeOK` inductive: the test is two steps before the insertion.
- `HInv`, for calls that do not overlap with handlers, gives `Listening`: who is about to wait has subscribed, and who is about
  to unsubscribe has left nothing behind that waits (`CallsHeard`, `NothingLeft`, `WantedHeard`). `Heard` counts topics that were lost with
  a connection, so a disconnection changes nothing.
- `RInv` gives `Released`: when calls exclude handlers, a vector that was pushed to has a last slot (`Pushed`) and nothing
  undefined happens (`NoCrash`), a slot belongs to one request (`OneSlotEach`)
  that is being made, waits, was refused or is in the handler's hands (`SlotsOccupied`), and an empty table that is listened for
  is about to be filled or left (`EmptyLeft`).
- `PInv` gives the refinement: a caller that holds the address of a slot finds its own request there or nothing (`Numbering`), the
  number it takes is nobody else's (`Slots`, `Sending`), and the answers in flight name the slot of their request (`Answering`).
  `OwnAnswer` is the consequence: the callback that is called is the one of the request that is answered. `OneGoesOn` and `SomeGivenUp` map the steps.
  Between `push_back` and `&back()` a handler may erase below or clear, and `BInv` says why the address is the caller's own all the same:
  with one caller the last slot stays the one it pushed (`Backs`), because what a handler erases is a request whose
  callback it has called, which is answered and not asking (`Handing`), while the caller's has no id yet. `TInv!Handled`, that the slot
  in the handler's hands is in the table, holds because `~crashed` rules out a clear under it.

`OneCaller` excludes that the application makes requests while a callback makes one. In that use the refinement
and the capacity really fail: two calls pass the test for the last slot; and when the handler erases a slot below the
one the application is filling, a request from the next callback takes its place and gets its id. Each of the two alone is allowed, and so
are the losses, cleanups and registrations, in any combination: TLC takes them one at a time. The theorem covers what the
program does up to its first undefined access (section 2); it is no statement that a racing program never comes to one,
and `Released` says that one whose calls exclude handlers does not.

### Left to TLC

Liveness under fairness is out of the prover's reach, because it needs `ENABLED`:
`OffWhileDisabled`, `PinsSettle`, `LoopEnds`, `MonitorFollows`, `BandIsQuiet`, `LoopsStop`, `CleanupStopsAtBattery`,
`ServesFiles`, `Settles`, `TurnOffReturns`, `Ends` and `Answered`. The properties of the runs that show a disagreement are
false and have no theorem. `RepairedOnlyOffline` is temporal but needs no fairness, and is proved.

## 5. Not modelled

- cJSON, ArduinoJson, spi_flash and ssd1306: third-party, or copies of ESP-IDF components; they
  are most of the lines under `src/`. The Bluetooth transfer, the HTTP client and the parse
  utilities: not used by the program.
- Contents and wording of telemetry, the ADC's calibration, credentials, the geometry
  behind the LDR factors, downloads and listings of files, the client server's web page.
- The client's calls that send (telemetry, attributes, claiming) and keep no state; answers
  whose payload is not JSON (discarded like a lost one) or has no data (the slot goes
  without a call). `publish` fails or is lost, but the buffer sizes behind it are not modelled.
- No memory to be had, anywhere; a full stack.
- The combination of several tasks and of callbacks that make requests in one behaviour of
  `TbClient`, which is too large for TLC and whose parts already break the promises.
- What a program does after undefined behaviour: `TbClient` ends there. RPC requests and shared
  attributes that arrive while `RPC_Subscribe` or a cleanup changes `m_rpc_callbacks` race in the same
  way; their handlers only read and have no step in the model.

Seen while modelling, and left without a run:

- `set_target` between `restore_servo_control` and the first instruction of the new thread (with
  `AwaitEntry = FALSE`, `TargetStableWhileRunning` fails); an answer that arrives after a
  cancelled update uses the cleared callback; late answers may call the finish callback
  twice; `publish_loop` may use `tb` after `deinit_thingsboard`.
- `init_thingsboard` calls `RPC_Subscribe` right after `connect()`, before there can be a
  connection: the subscription fails and the callback is not even registered. The run
  `tb_reconnect` is about the case that it was.
- A provisioning request from inside the provisioning callback, which the comment at
  `ThingsBoard.h:1880` says will be subscribed again, is undone by `Provision_Unsubscribe` after the callback.
- The second `wifi_init_softap`, after an hour in the access point, creates its network
  interface again; the library may assert, which restarts the board (`panic = "softap"`).
- A `config.json` with good Wi-Fi settings and a bad servo list makes the tracker throw in every
  boot, seconds after it began, and the server that could replace the file never comes up.
- A target that rests exactly on the middle leaves it without a reversal, after which the
  direction and the telemetry item `Inversion-Servo-X` disagree (`centred`). The
  telemetry also takes 90 degrees for the middle whatever `max_rotation` is.
- A servo configured to turn 360 degrees gets targets beyond the 180 that `Servo_comm` accepts.
- One configured for less than 180 degrees gets targets beyond its own `max_rotation`: `inc_offset`
  clamps at 180 whatever it is (`solar_sys.hpp:96-99`), and `Servo_comm` accepts up to 180
  (`domohelios.cpp:61-62`). `TargetsInRange` is about the 180.
- In the racing use an answer to another request is not called for the wrong one, as long as one caller
  is at work: the last slot is that caller's own, and an application that clears the table waits
  for the library's lock before it can ask again. What really happens is undefined behaviour: two tasks in a
  vector at once, `back()` of an emptied one, a callback cleared while it runs and then an `erase` behind the end.
- `fclose` is called with `NULL` when the uploaded file cannot be opened again, which the C
  library of the chip tolerates.

## 6. Plan

Done: the modules of section 2 and the theorems of section 4. Left, in this order:

1. That a use which is only racing, or only reentrant, keeps a weaker `Listening`: which topics can be left under a request.
2. The bound of `n` times `STEPS` units on the drift after `n` sweeps, summed up from `DriftBounded`.
3. `SolarTracker` feeding `ServoComm`, for the targets the servo library ignores.
