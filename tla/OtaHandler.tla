----------------------------- MODULE OtaHandler -----------------------------
(***************************************************************************)
(* The over the air update of the ThingsBoard client                       *)
(* (src/main/include/thingsboard/OTA_Handler.h, with Callback_Watchdog,    *)
(* Espressif_Updater, HashGenerator and the OTA part of ThingsBoard.h).    *)
(*                                                                         *)
(* Chunks are requested one at a time over MQTT.  Two tasks run the        *)
(* handler without a lock: the MQTT event task, which receives chunks and  *)
(* assignments, and the esp_timer task of the watchdog.  A request or its  *)
(* answer may be lost, an answer may be late; the answer to a repeated     *)
(* request is a duplicate.  Answers carry no version, so one that was      *)
(* asked for the version assigned before looks like one of the new one.    *)
(*                                                                         *)
(* Data: a chunk of version v is v, or junk when the binary on the server  *)
(* is not the one its checksum is of.  A hash stands for the sequence of   *)
(* chunks that went into it, a partition for the chunks written to it.     *)
(***************************************************************************)
EXTENDS Integers, Sequences

CONSTANTS Versions,    \* firmware versions the server assigns, in this order
          Intact,      \* those whose binary matches its checksum
          Chunks,      \* m_total_chunks = m_fw_size / chunk size + 1
          ChunkRetries,\* Get_Chunk_Retries()
          MaxCopies,   \* bound: answers of one chunk in flight
          MaxFaults    \* bound: failures of the flash driver

ASSUME OtaAssumption == /\ Versions \subseteq Nat \ {0} /\ Intact \subseteq Versions
                        /\ Chunks \in Nat \ {0} /\ ChunkRetries \in Nat
                        /\ MaxCopies \in Nat /\ MaxFaults \in Nat

VARIABLES
  \* ThingsBoard
  tb_callback,   \* its m_fw_callback is set: an update is subscribed
  \* OTA_Handler
  fw_callback,   \* its m_fw_callback is set
  fw_version,    \* the version m_fw_checksum and m_fw_size are of, 0 for none
  requested,     \* m_requested_chunks
  retries,       \* m_retries
  hash,          \* m_hash
  armed,         \* m_watchdog
  task,          \* step of the MQTT and of the timer task, chunk and data in hand
  \* outside
  timely,        \* constant: the timeout is longer than any answer takes
  stops,         \* constant: the progress callback may call Stop_Firmware_Update
  net,           \* answers in flight: how many of each chunk and content
  flash, open,   \* the partition and its OTA handle
  boot,          \* content of the partition that boots next, <<>> for the running one
  faults,        \* failures so far
  result,        \* history: what the finish callback told this update, "none" yet
  calls,         \* history: how often it was called for it
  crashed        \* a null m_fw_callback was dereferenced

tbVars  == <<tb_callback>>
memVars == <<requested, retries, hash, armed>>
extVars == <<flash, open, boot, faults>>
endVars == <<result, calls>>
envVars == <<timely, stops>>
vars == <<tbVars, fw_callback, fw_version, memVars, task, net, extVars, endVars, crashed, envVars>>

Tasks == {"mqtt", "timer"}
Junk == 0
Data(v) == IF v \in Intact THEN v ELSE Junk
Contents == Versions \cup {Junk}
Image(v) == [k \in 1 .. Chunks |-> v]

Steps == {"idle", "write", "advance", "next", "finish", "end", "retryUpdate",
          "retryChunk", "first"}
Idle == [pc |-> "idle", chunk |-> 0, data |-> Junk]

TaskType == [Tasks -> [pc : Steps, chunk : 0 .. Chunks - 1, data : Contents]]
NetType == [0 .. Chunks - 1 -> [Contents -> 0 .. MaxCopies]]

TypeOK == /\ tb_callback \in BOOLEAN /\ fw_callback \in BOOLEAN
          /\ fw_version \in Versions \cup {0}
          /\ requested \in 0 .. Chunks /\ retries \in 0 .. ChunkRetries
          /\ hash \in Seq(Contents) /\ Len(hash) <= Chunks
          /\ armed \in BOOLEAN
          /\ task \in TaskType /\ net \in NetType
          /\ flash \in Seq(Contents) /\ open \in BOOLEAN /\ boot \in Seq(Contents)
          /\ faults \in 0 .. MaxFaults
          /\ result \in {"none", "success", "failure"} /\ calls \in 0 .. 2
          /\ crashed \in BOOLEAN /\ timely \in BOOLEAN /\ stops \in BOOLEAN

NoAnswer == [c \in 0 .. Chunks - 1 |-> [d \in Contents |-> 0]]

(* The application has subscribed; no firmware is assigned yet. *)
Init == /\ tb_callback = TRUE /\ fw_callback = FALSE /\ fw_version = 0
        /\ requested = 0 /\ retries = 0 /\ hash = <<>> /\ armed = FALSE
        /\ task = [t \in Tasks |-> Idle]
        /\ net = NoAnswer
        /\ flash = <<>> /\ open = FALSE /\ boot = <<>> /\ faults = 0
        /\ result = "none" /\ calls = 0 /\ crashed = FALSE
        /\ timely \in BOOLEAN /\ stops \in BOOLEAN
-----------------------------------------------------------------------------
Goto(t, pc) == task' = [task EXCEPT ![t].pc = pc]
Return(t) == task' = [task EXCEPT ![t] = Idle]

(* A null pointer is used: the program panics, nothing else changes. *)
Crash == /\ crashed' = TRUE
         /\ UNCHANGED <<tbVars, fw_callback, fw_version, memVars, task, net, extVars, endVars>>

(* Call_Callback, and m_finish_callback: Firmware_OTA_Unsubscribe. *)
Conclude(r) == /\ result' = r
               /\ calls' = IF calls = 2 THEN 2 ELSE calls + 1
               /\ tb_callback' = FALSE

(* The timer task has the higher priority: its handler may begin, and run  *)
(* interleaved, at any step of the other's, but not outlast it into the    *)
(* next message.                                                           *)
Ready == task["mqtt"].pc = "idle" /\ task["timer"].pc = "idle"

(* An external call that may fail, at most MaxFaults times. *)
MayFail(ok) == \/ ok /\ UNCHANGED faults
               \/ ~ok /\ faults < MaxFaults /\ faults' = faults + 1

(* Subscribe_Firmware_Update again after a failed update. *)
Subscribe ==
  /\ Ready /\ ~tb_callback /\ result = "failure"
  /\ tb_callback' = TRUE
  /\ UNCHANGED <<fw_callback, fw_version, memVars, task, net, extVars, endVars, crashed>>

(* Firmware_Shared_Attribute_Received, Start_Firmware_Update.  A second    *)
(* assignment starts over, whatever the first one is doing.                *)
Start(v) ==
  /\ Ready /\ tb_callback
  /\ v > fw_version
  /\ fw_callback' = TRUE /\ fw_version' = v
  /\ result' = "none" /\ calls' = 0
  /\ Goto("mqtt", "first")
  /\ UNCHANGED <<tbVars, memVars, net, extVars, crashed>>

(* Mutants: the hash is not restarted; the watchdog only guards a request  *)
(* that went out.                                                          *)
RequestFirstSameHash(t) ==
  /\ task[t].pc = "first"
  /\ requested' = 0 /\ retries' = ChunkRetries /\ armed' = FALSE
  /\ open' = FALSE /\ flash' = <<>>
  /\ Goto(t, "next")
  /\ UNCHANGED <<tbVars, fw_callback, fw_version, hash, net, boot, faults, endVars, crashed>>
RequestNextUnguarded(t) ==
  /\ task[t].pc = "next" /\ tb_callback /\ fw_callback
  /\ IF requested >= Chunks
     THEN Goto(t, "finish") /\ UNCHANGED <<net, armed>>
     ELSE /\ \/ /\ net[requested][Data(fw_version)] < MaxCopies
                /\ net' = [net EXCEPT ![requested][Data(fw_version)] = @ + 1]
                /\ armed' = TRUE
             \/ UNCHANGED <<net, armed>>
          /\ Return(t)
  /\ UNCHANGED <<tbVars, fw_callback, fw_version, requested, retries, hash, extVars, endVars,
                 crashed>>

(* Request_First_Firmware_Packet *)
RequestFirst(t) ==
  /\ task[t].pc = "first"
  /\ requested' = 0 /\ retries' = ChunkRetries /\ hash' = <<>> /\ armed' = FALSE
  /\ open' = FALSE /\ flash' = <<>>
  /\ Goto(t, "next")
  /\ UNCHANGED <<tbVars, fw_callback, fw_version, net, boot, faults, endVars, crashed>>

(* Request_Next_Firmware_Packet: the publish, whose answer may come to     *)
(* nothing, and the watchdog in either case.                               *)
RequestNext(t) ==
  /\ task[t].pc = "next"
  /\ IF requested >= Chunks
     THEN /\ Goto(t, "finish")
          /\ UNCHANGED <<tbVars, fw_callback, fw_version, memVars, net, extVars, endVars, crashed>>
     ELSE IF ~tb_callback \/ ~fw_callback
     THEN Crash
     ELSE /\ \/ /\ net[requested][Data(fw_version)] < MaxCopies
                /\ net' = [net EXCEPT ![requested][Data(fw_version)] = @ + 1]
             \/ UNCHANGED net
          /\ armed' = TRUE
          /\ Return(t)
          /\ UNCHANGED <<tbVars, fw_callback, fw_version, requested, retries, hash, extVars,
                         endVars, crashed>>

(* Process_Firmware_Packet: an unexpected chunk is ignored, the expected   *)
(* one stops the watchdog.                                                 *)
Receive(c, d) ==
  /\ Ready /\ net[c][d] > 0
  /\ net' = [net EXCEPT ![c][d] = @ - 1]
  /\ IF c = requested
     THEN /\ task' = [task EXCEPT !["mqtt"] = [pc |-> "write", chunk |-> c, data |-> d]]
          /\ armed' = FALSE
     ELSE UNCHANGED <<task, armed>>
  /\ UNCHANGED <<tbVars, fw_callback, fw_version, requested, retries, hash, extVars, endVars,
                 crashed>>

(* Espressif_Updater::begin for the first chunk, write, and the hash.      *)
(* begin refuses when another partition than the running one boots next.   *)
Write ==
  /\ task["mqtt"].pc = "write"
  /\ LET c == task["mqtt"].chunk
         d == task["mqtt"].data
         ready == IF c = 0 THEN boot = <<>> ELSE open
     IN \E ok \in BOOLEAN :
          /\ IF ready THEN MayFail(ok) ELSE ~ok /\ UNCHANGED faults
          /\ IF ok
             THEN /\ flash' = Append(IF c = 0 THEN <<>> ELSE flash, d)
                  /\ hash' = Append(hash, d)
                  /\ open' = TRUE
                  /\ Goto("mqtt", "advance")
             ELSE /\ Goto("mqtt", "retryUpdate")
                  /\ UNCHANGED <<flash, hash, open>>
  /\ UNCHANGED <<tbVars, fw_callback, fw_version, requested, retries, armed, net, boot, endVars,
                 crashed>>

(* m_requested_chunks = current_chunk + 1 and the progress callback, in    *)
(* which the application may call Stop_Firmware_Update.                    *)
Advance ==
  /\ task["mqtt"].pc = "advance"
  /\ IF ~fw_callback
     THEN Crash
     ELSE /\ requested' = task["mqtt"].chunk + 1
          /\ retries' = ChunkRetries
          /\ Goto("mqtt", "next")
          /\ UNCHANGED <<tbVars, fw_callback, fw_version, hash, armed, net, extVars, endVars,
                         crashed>>

Stop ==
  /\ stops /\ task["mqtt"].pc = "advance" /\ fw_callback
  /\ requested' = task["mqtt"].chunk + 1
  /\ armed' = FALSE /\ open' = FALSE /\ flash' = <<>>
  /\ retries' = IF retries = 0 THEN 0 ELSE retries - 1
  /\ Conclude("failure")
  /\ fw_callback' = FALSE
  /\ Return("mqtt")
  /\ UNCHANGED <<fw_version, hash, net, boot, faults, crashed>>

(* Mutants: the digest is not compared; the boot partition is set even     *)
(* when esp_ota_end failed; the end of an update is followed by a retry.   *)
CheckHashNot(t) ==
  /\ task[t].pc = "finish"
  /\ Goto(t, "end")
  /\ hash' = <<>>
  /\ UNCHANGED <<tbVars, fw_callback, fw_version, requested, retries, armed, net, extVars,
                 endVars, crashed>>
EndAnyway(t) ==
  /\ task[t].pc = "end"
  /\ \E ok \in BOOLEAN :
       /\ IF open THEN MayFail(ok) ELSE ~ok /\ UNCHANGED faults
       /\ open' = FALSE /\ boot' = flash
       /\ IF ok
          THEN Conclude("success") /\ Return(t)
          ELSE Goto(t, "retryUpdate") /\ UNCHANGED <<tbVars, endVars>>
  /\ UNCHANGED <<fw_callback, fw_version, memVars, net, flash, crashed>>
HandleFailureOn(t) ==
  /\ task[t].pc \in {"retryChunk", "retryUpdate"}
  /\ Goto(t, IF task[t].pc = "retryChunk" THEN "next" ELSE "first")
  /\ IF retries = 0
     THEN Conclude("failure") /\ UNCHANGED retries
     ELSE retries' = retries - 1 /\ UNCHANGED <<tbVars, endVars>>
  /\ UNCHANGED <<fw_callback, fw_version, requested, hash, armed, net, extVars, crashed>>

(* Finish_Firmware_Update: the digest is compared, and the hash is spent. *)
CheckHash(t) ==
  /\ task[t].pc = "finish"
  /\ Goto(t, IF hash = Image(fw_version) THEN "end" ELSE "retryUpdate")
  /\ hash' = <<>>
  /\ UNCHANGED <<tbVars, fw_callback, fw_version, requested, retries, armed, net, extVars,
                 endVars, crashed>>

(* Espressif_Updater::end, the success callback and the unsubscription.    *)
End(t) ==
  /\ task[t].pc = "end"
  /\ \E ok \in BOOLEAN :
       /\ IF open THEN MayFail(ok) ELSE ~ok /\ UNCHANGED faults
       /\ open' = FALSE
       /\ IF ok
          THEN boot' = flash /\ Conclude("success") /\ Return(t)
          ELSE Goto(t, "retryUpdate") /\ UNCHANGED <<boot, tbVars, endVars>>
  /\ UNCHANGED <<fw_callback, fw_version, memVars, net, flash, crashed>>

(* Handle_Failure(RETRY_CHUNK), (RETRY_UPDATE). *)
HandleFailure(t) ==
  /\ task[t].pc \in {"retryChunk", "retryUpdate"}
  /\ IF retries = 0
     THEN IF ~fw_callback
          THEN Crash
          ELSE /\ Conclude("failure") /\ Return(t)
               /\ UNCHANGED <<fw_callback, fw_version, memVars, net, extVars, crashed>>
     ELSE /\ retries' = retries - 1
          /\ Goto(t, IF task[t].pc = "retryChunk" THEN "next" ELSE "first")
          /\ UNCHANGED <<tbVars, fw_callback, fw_version, requested, hash, armed, net, extVars,
                         endVars, crashed>>

(* The watchdog of Request_Next_Firmware_Packet: Handle_Request_Timeout.   *)
Timeout ==
  /\ armed /\ task["timer"].pc = "idle"
  /\ timely => Ready /\ net = NoAnswer
  /\ armed' = FALSE
  /\ Goto("timer", "retryChunk")
  /\ UNCHANGED <<tbVars, fw_callback, fw_version, requested, retries, hash, net, extVars,
                 endVars, crashed>>

Handler(t) == \/ RequestFirst(t) \/ RequestNext(t) \/ CheckHash(t) \/ End(t) \/ HandleFailure(t)
              \/ t = "mqtt" /\ (Write \/ Advance \/ Stop)
Deliver == \E c \in 0 .. Chunks - 1, d \in Contents : Receive(c, d)

(* A crash is the end: the board resets. *)
Next == /\ ~crashed /\ UNCHANGED envVars
        /\ \/ Subscribe
           \/ \E v \in Versions : Start(v)
           \/ Deliver
           \/ Timeout
           \/ \E t \in Tasks : Handler(t)

Spec == Init /\ [][Next]_vars

(* The two tasks are scheduled; the broker delivers what it does not lose. *)
Running == ~crashed /\ UNCHANGED envVars
FairSpec == /\ Spec
            /\ WF_vars(Running /\ Deliver) /\ WF_vars(Running /\ Timeout)
            /\ \A t \in Tasks : WF_vars(Running /\ Handler(t))
-----------------------------------------------------------------------------
(* What boots next is the running firmware or a complete, unmixed image of *)
(* a version whose checksum it matches, whatever was lost, duplicated,     *)
(* late, stopped, or left over from an earlier assignment.                 *)
BootOnlyVerified == boot # <<>> => \E v \in Intact : boot = Image(v)

(* No answer is late and nothing is stopped half way. *)
Quiet == timely /\ ~stops

(* Then no handler uses a callback that the end of an update has cleared,  *)
(* and the finish callback is called at most once per update.              *)
EndsOnce == Quiet => ~crashed /\ calls <= 1

(* An update ends: by success, or by the callback that says it failed.     *)
(* When a binary does not match its checksum this is what Handle_Failure   *)
(* says, "as long as there are still retries remaining" (OTA_Handler.h:    *)
(* 276-278), and not what it does: Request_First_Firmware_Packet refills   *)
(* the retries, so the whole download repeats for ever.                    *)
Ends == (fw_version # 0 /\ calls = 0) ~> calls > 0

(* What the application sees of all this.  The finish callback follows the *)
(* change of the boot partition in the same step.                          *)
Update == INSTANCE FirmwareUpdate WITH
            NoVersion <- 0,
            phase     <- IF ~Quiet \/ fw_version = 0 THEN "idle"
                         ELSE CASE result = "none" -> "running"
                                [] result = "success" -> "succeeded"
                                [] result = "failure" -> "failed",
            version   <- IF Quiet THEN fw_version ELSE 0,
            installed <- IF Quiet /\ boot # <<>> THEN boot[1] ELSE 0

(* A quiet update implements FirmwareUpdate. *)
ImplementsUpdate == Update!UpdateSpec
=============================================================================
