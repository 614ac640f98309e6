------------------------------ MODULE OtaProofs ------------------------------
(***************************************************************************)
(* The safety of the over the air update for every number of versions, of  *)
(* chunks, of retries and of answers in flight.                            *)
(*                                                                         *)
(* BootOnlyVerified is about what the end of an update installs; that the  *)
(* partition then holds what was hashed rests on the two tasks being apart *)
(* while a chunk is worked on, on the hash and the partition having grown  *)
(* together, and on the hash having the length of what was received.  OInv *)
(* is the conjunction of these.                                            *)
(***************************************************************************)
EXTENDS OtaHandler, SequenceTheorems, TLAPS

mpc == task["mqtt"].pc
tpc == task["timer"].pc

(* Nothing is on its way. *)
Silent == \A c \in 0 .. Chunks - 1, d \in Contents : net[c][d] = 0

(* Before the first assignment nothing was asked for. *)
Unassigned == fw_version = 0 => ~armed /\ mpc = "idle" /\ tpc = "idle" /\ Silent

(* The timer task only repeats a request, and only before the next chunk   *)
(* arrives: from then on the MQTT task is alone, at the chunk it expected. *)
TasksApart ==
  /\ tpc \in {"idle", "retryChunk", "next"} /\ mpc # "retryChunk"
  /\ armed \/ tpc # "idle" => requested < Chunks
  /\ mpc \in {"write", "advance", "finish", "end", "retryUpdate"} => ~armed /\ tpc = "idle"
  /\ mpc = "next" /\ requested # 0 => ~armed /\ tpc = "idle"
  /\ mpc \in {"write", "advance"} => task["mqtt"].chunk = requested
  /\ mpc \in {"finish", "end"} => requested = Chunks

(* What the server sends is a binary that matches its checksum, or junk. *)
Binaries == Intact \cup {Junk}
FromServer ==
  /\ \A c \in 0 .. Chunks - 1, d \in Contents \ Binaries : net[c][d] = 0
  /\ mpc = "write" => task["mqtt"].data \in Binaries
  /\ hash \in Seq(Binaries)

(* The digest is spent: the update has to start over or is at its end. *)
Spent == hash = <<>> /\ requested = Chunks /\ mpc \notin {"advance", "next", "finish"}

(* The hash covers what was received, and an open partition is the same. *)
HashLength == Spent \/ Len(hash) = IF mpc = "advance" THEN requested + 1 ELSE requested
FlashHashed ==
  open => IF mpc = "end" THEN fw_version \in Intact /\ flash = Image(fw_version)
          ELSE Spent \/ flash = hash

OInv == /\ TypeOK /\ Unassigned /\ TasksApart /\ FromServer /\ HashLength /\ FlashHashed
        /\ BootOnlyVerified
-----------------------------------------------------------------------------
(* Going to a step keeps the chunk in hand and the other task. *)
LEMMA GotoStep ==
  ASSUME task \in TaskType, NEW t \in Tasks, NEW pc \in Steps, Goto(t, pc)
  PROVE  /\ task' \in TaskType
         /\ task'[t].pc = pc
         /\ task'[t].chunk = task[t].chunk /\ task'[t].data = task[t].data
         /\ \A u \in Tasks \ {t} : task'[u] = task[u]
  BY DEF Goto, TaskType

(* Returning from a handler. *)
LEMMA ReturnStep ==
  ASSUME task \in TaskType, NEW t \in Tasks, Return(t)
  PROVE  /\ task' \in TaskType /\ task'[t] = Idle /\ task'[t].pc = "idle"
         /\ \A u \in Tasks \ {t} : task'[u] = task[u]
<1>1. Idle \in [pc : Steps, chunk : 0 .. Chunks - 1, data : Contents]
  BY OtaAssumption DEF Idle, Steps, Contents
<1>2. Idle.pc = "idle"
  BY DEF Idle
<1>3. QED
  BY <1>1, <1>2 DEF Return, TaskType

(* One answer more or less in flight. *)
LEMMA NetStep ==
  ASSUME net \in NetType, NEW c \in 0 .. Chunks - 1, NEW d \in Contents,
         NEW n \in 0 .. MaxCopies, net' = [net EXCEPT ![c][d] = n]
  PROVE  /\ net' \in NetType
         /\ \A c2 \in 0 .. Chunks - 1, d2 \in Contents :
              net'[c2][d2] = IF c2 = c /\ d2 = d THEN n ELSE net[c2][d2]
  BY DEF NetType

(* A chunk is asked for by its number only, and the server answers with    *)
(* what it has: an intact binary or junk.                                  *)
LEMMA DataType ==
  /\ Binaries \subseteq Contents
  /\ \A v : Data(v) \in Binaries
  BY OtaAssumption DEF Binaries, Contents, Data

(* A hash equal to the image of an assigned version proves it intact. *)
LEMMA HashVerifies ==
  ASSUME NEW v \in Versions, hash \in Seq(Binaries), hash = Image(v)
  PROVE  v \in Intact
<1>1. 1 \in 1 .. Chunks
  BY OtaAssumption
<1>2. hash[1] = v /\ DOMAIN hash = 1 .. Chunks
  BY <1>1 DEF Image
<1>3. hash[1] \in Binaries
  <2>1. 1 \in 1 .. Len(hash)
    BY <1>1, <1>2, LenProperties
  <2>2. QED
    BY <2>1, ElementOfSeq
<1>4. QED
  BY <1>2, <1>3, OtaAssumption DEF Binaries, Junk
-----------------------------------------------------------------------------
(* Before the first assignment both tasks are idle and the partition is    *)
(* empty.                                                                  *)
LEMMA InitOInv == Init => OInv
<1>1. SUFFICES ASSUME Init PROVE OInv
  OBVIOUS
<1>2. Idle \in [pc : Steps, chunk : 0 .. Chunks - 1, data : Contents] /\ Idle.pc = "idle"
  BY OtaAssumption DEF Idle, Steps, Contents
<1>3. mpc = "idle" /\ tpc = "idle" /\ task \in TaskType
  BY <1>1, <1>2 DEF Init, mpc, tpc, TaskType, Tasks
<1>4. net \in NetType /\ Silent
  BY <1>1, OtaAssumption DEF Init, NoAnswer, NetType, Silent
<1>5. TypeOK
  <2>1. <<>> \in Seq(Contents) /\ Len(<<>>) = 0
    BY EmptySeq
  <2>2. 0 \in 0 .. Chunks /\ 0 \in 0 .. ChunkRetries /\ 0 \in 0 .. MaxFaults /\ 0 <= Chunks
        /\ 0 \in 0 .. 2
    BY OtaAssumption
  <2>3. QED
    BY <1>1, <1>3, <1>4, <2>1, <2>2 DEF Init, TypeOK
<1>6. Unassigned /\ TasksApart /\ HashLength /\ FlashHashed /\ BootOnlyVerified
  BY <1>1, <1>3, <1>4, OtaAssumption
     DEF Init, Unassigned, TasksApart, HashLength, Spent, FlashHashed, BootOnlyVerified
<1>7. FromServer
  BY <1>1, <1>3, <1>4, DataType DEF Init, FromServer, Silent
<1>8. QED
  BY <1>5, <1>6, <1>7 DEF OInv

(* A null pointer that is dereferenced changes nothing of all this. *)
LEMMA CrashStep == OInv /\ UNCHANGED envVars /\ Crash => OInv'
<1>1. SUFFICES ASSUME OInv, UNCHANGED envVars, Crash PROVE OInv'
  OBVIOUS
<1>2. /\ UNCHANGED <<tb_callback, fw_callback, fw_version, requested, retries, hash, armed, task,
                     net, flash, open, boot, faults, result, calls, timely, stops>>
      /\ crashed' = TRUE
  BY <1>1 DEF Crash, tbVars, memVars, extVars, endVars, envVars
<1>3. TypeOK'
  BY <1>1, <1>2 DEF OInv, TypeOK
<1>4. QED
  BY <1>1, <1>2, <1>3
     DEF OInv, Unassigned, TasksApart, FromServer, HashLength, FlashHashed, Silent,
         BootOnlyVerified, Spent, mpc, tpc

(* Subscribing again touches nothing that was received. *)
LEMMA SubscribeStep == OInv /\ UNCHANGED envVars /\ Subscribe => OInv'
  BY DEF OInv, TypeOK, Unassigned, TasksApart, FromServer, HashLength, FlashHashed,
         BootOnlyVerified, Spent, mpc, tpc, Silent, Subscribe, memVars, extVars, endVars, envVars

(* An assignment finds both tasks idle, not necessarily the watchdog. *)
LEMMA StartStep ==
  ASSUME OInv, UNCHANGED envVars, NEW v \in Versions, Start(v)
  PROVE  OInv'
<1>1. /\ task' \in TaskType /\ mpc' = "first" /\ tpc' = "idle"
  BY GotoStep DEF OInv, TypeOK, Start, Ready, Steps, Tasks, mpc, tpc
<1>2. TypeOK'
  BY <1>1 DEF OInv, TypeOK, Start, tbVars, memVars, extVars, envVars
<1>3. v # 0 /\ fw_version' = v
  BY OtaAssumption DEF Start
<1>4. Unassigned' /\ TasksApart'
  BY <1>1, <1>3 DEF OInv, Unassigned, TasksApart, Start, Ready, mpc, tpc, memVars
<1>5. FromServer'
  BY <1>1 DEF OInv, FromServer, Start, mpc, memVars
<1>6. HashLength' /\ FlashHashed' /\ BootOnlyVerified'
  BY <1>1 DEF OInv, HashLength, FlashHashed, BootOnlyVerified, Spent, Start, Ready, mpc, memVars,
              extVars
<1>7. QED
  BY <1>2, <1>4, <1>5, <1>6 DEF OInv

(* The first request starts over: hash, partition and count are reset. *)
LEMMA RequestFirstStep ==
  ASSUME OInv, UNCHANGED envVars, NEW t \in Tasks, RequestFirst(t)
  PROVE  OInv'
<1>1. t = "mqtt"
  BY DEF OInv, TasksApart, RequestFirst, Tasks, mpc, tpc
<1>2. task' \in TaskType /\ mpc' = "next" /\ tpc' = tpc
  BY <1>1, GotoStep DEF OInv, TypeOK, RequestFirst, Steps, Tasks, mpc, tpc
<1>3. TypeOK'
  <2>1. <<>> \in Seq(Contents) /\ Len(<<>>) = 0
    BY EmptySeq
  <2>2. 0 \in 0 .. Chunks /\ ChunkRetries \in 0 .. ChunkRetries /\ 0 <= Chunks
    BY OtaAssumption
  <2>3. QED
    BY <1>2, <2>1, <2>2 DEF OInv, TypeOK, RequestFirst, tbVars, endVars, envVars
<1>4. Unassigned' /\ TasksApart'
  BY <1>1, <1>2, OtaAssumption
     DEF OInv, Unassigned, TasksApart, RequestFirst, mpc, tpc
<1>5. FromServer'
  <2>1. <<>> \in Seq(Binaries)
    BY EmptySeq
  <2>2. QED
    BY <1>2, <2>1 DEF OInv, FromServer, RequestFirst
<1>6. HashLength' /\ FlashHashed' /\ BootOnlyVerified'
  BY <1>2, OtaAssumption DEF OInv, HashLength, FlashHashed, BootOnlyVerified, Spent, RequestFirst
<1>7. QED
  BY <1>3, <1>4, <1>5, <1>6 DEF OInv

(* A request of either task adds at most one answer, of a binary.          *)
LEMMA RequestNextStep ==
  ASSUME OInv, UNCHANGED envVars, NEW t \in Tasks, RequestNext(t)
  PROVE  OInv'
<1>1. CASE requested >= Chunks
  <2>1. t = "mqtt" /\ requested = Chunks
    BY <1>1, OtaAssumption DEF OInv, TypeOK, TasksApart, RequestNext, Tasks, mpc, tpc
  <2>2. task' \in TaskType /\ mpc' = "finish" /\ tpc' = tpc
    BY <1>1, <2>1, GotoStep DEF OInv, TypeOK, RequestNext, Steps, Tasks, mpc, tpc
  <2>3. TypeOK'
    BY <1>1, <2>2
       DEF OInv, TypeOK, RequestNext, tbVars, memVars, extVars, endVars, envVars
  <2>4. Unassigned' /\ TasksApart'
    BY <1>1, <2>1, <2>2, OtaAssumption
       DEF OInv, Unassigned, TasksApart, RequestNext, memVars, mpc, tpc
  <2>5. FromServer'
    BY <1>1, <2>2 DEF OInv, FromServer, RequestNext, memVars
  <2>6. HashLength' /\ FlashHashed' /\ BootOnlyVerified'
    BY <1>1, <2>1, <2>2
       DEF OInv, HashLength, FlashHashed, BootOnlyVerified, Spent, RequestNext, memVars, extVars,
           mpc
  <2>7. QED
    BY <2>3, <2>4, <2>5, <2>6 DEF OInv
<1>2. CASE ~(requested >= Chunks) /\ (~tb_callback \/ ~fw_callback)
  BY <1>2, CrashStep DEF RequestNext
<1>3. CASE ~(requested >= Chunks) /\ tb_callback /\ fw_callback
  <2>1. requested \in 0 .. Chunks - 1 /\ Data(fw_version) \in Contents /\ requested < Chunks
    BY <1>3, OtaAssumption, DataType DEF OInv, TypeOK
  <2>2. /\ task' \in TaskType /\ task'[t].pc = "idle"
        /\ \A u \in Tasks \ {t} : task'[u] = task[u]
    BY <1>3, ReturnStep DEF OInv, TypeOK, RequestNext
  <2>3. /\ net' \in NetType
        /\ \A c \in 0 .. Chunks - 1, d \in Contents \ Binaries : net'[c][d] = net[c][d]
    <3>1. CASE net' = net
      BY <3>1 DEF OInv, TypeOK
    <3>2. CASE net' # net
      <4> DEFINE n == net[requested][Data(fw_version)] + 1
      <4>1. net' = [net EXCEPT ![requested][Data(fw_version)] = n]
        BY <1>3, <3>2 DEF RequestNext
      <4>2. n \in 0 .. MaxCopies
        BY <1>3, <2>1, <3>2, OtaAssumption DEF RequestNext, OInv, TypeOK, NetType
      <4>3. Data(fw_version) \in Binaries /\ net \in NetType
        BY DataType DEF OInv, TypeOK
      <4> HIDE DEF n
      <4>4. /\ net' \in NetType
            /\ \A c \in 0 .. Chunks - 1, d \in Contents :
                 net'[c][d] = IF c = requested /\ d = Data(fw_version) THEN n ELSE net[c][d]
        BY <2>1, <4>1, <4>2, <4>3, NetStep
      <4>5. QED
        BY <4>3, <4>4
    <3>3. QED
      BY <3>1, <3>2
  <2>4. TypeOK'
    <3>1. /\ UNCHANGED <<tb_callback, fw_callback, fw_version, requested, retries, hash, flash,
                         open, boot, faults, result, calls, timely, stops, crashed>>
          /\ armed' = TRUE
      BY <1>3 DEF RequestNext, tbVars, extVars, endVars, envVars, Crash, Goto, memVars
    <3>2. QED
      BY <2>2, <2>3, <3>1 DEF OInv, TypeOK
  <2>5. /\ armed' = TRUE /\ requested' = requested /\ hash' = hash /\ fw_version' = fw_version
        /\ open' = open /\ flash' = flash /\ boot' = boot
    BY <1>3 DEF RequestNext, extVars
  <2>6. task[t].pc = "next"
    BY DEF RequestNext
  <2>7. Unassigned' /\ TasksApart'
    BY <2>1, <2>2, <2>5, <2>6 DEF OInv, Unassigned, TasksApart, Tasks, mpc, tpc
  <2>8. FromServer'
    BY <2>2, <2>3, <2>5, <2>6 DEF OInv, FromServer, Tasks, mpc
  <2>9. HashLength' /\ FlashHashed' /\ BootOnlyVerified'
    BY <2>1, <2>2, <2>5, <2>6
       DEF OInv, HashLength, FlashHashed, BootOnlyVerified, Spent, Tasks, mpc
  <2>10. QED
    BY <2>4, <2>7, <2>8, <2>9 DEF OInv
<1>4. QED
  BY <1>1, <1>2, <1>3

(* An answer leaves the net; only the expected one is worked on, by an     *)
(* MQTT task that is then alone.                                           *)
LEMMA ReceiveStep ==
  ASSUME OInv, UNCHANGED envVars,
         NEW c \in 0 .. Chunks - 1, NEW d \in Contents, Receive(c, d)
  PROVE  OInv'
<1>1. d \in Binaries
  BY DEF OInv, FromServer, Receive
<1>2. /\ net' \in NetType
      /\ \A c2 \in 0 .. Chunks - 1, d2 \in Contents :
           net'[c2][d2] = IF c2 = c /\ d2 = d THEN net[c][d] - 1 ELSE net[c2][d2]
  <2>1. net \in NetType /\ net[c][d] \in 0 .. MaxCopies /\ net[c][d] > 0
    BY DEF OInv, TypeOK, NetType, Receive
  <2>2. net[c][d] - 1 \in 0 .. MaxCopies
    BY <2>1, OtaAssumption
  <2>3. net' = [net EXCEPT ![c][d] = net[c][d] - 1]
    BY DEF Receive
  <2>4. QED
    BY <2>1, <2>2, <2>3, NetStep
<1>3. /\ UNCHANGED <<tb_callback, fw_callback, fw_version, requested, retries, hash, flash, open,
                     boot, faults, result, calls, timely, stops, crashed>>
      /\ armed' = IF c = requested THEN FALSE ELSE armed
      /\ mpc = "idle" /\ tpc = "idle"
  BY DEF Receive, Ready, tbVars, extVars, endVars, envVars, mpc, tpc
<1>4. /\ task' \in TaskType /\ tpc' = "idle" /\ mpc' = IF c = requested THEN "write" ELSE "idle"
      /\ c = requested => task'["mqtt"].chunk = c /\ task'["mqtt"].data = d
  BY <1>3 DEF OInv, TypeOK, TaskType, Receive, Steps, Tasks, mpc, tpc
<1>5. TypeOK'
  BY <1>2, <1>3, <1>4 DEF OInv, TypeOK
<1>6. fw_version # 0
  BY <1>2, OtaAssumption DEF OInv, TypeOK, NetType, Unassigned, Silent, Receive
<1>7. Unassigned' /\ TasksApart'
  BY <1>3, <1>4, <1>6, OtaAssumption DEF OInv, Unassigned, TasksApart
<1>8. FromServer'
  BY <1>1, <1>2, <1>3, <1>4 DEF OInv, FromServer
<1>9. HashLength' /\ FlashHashed' /\ BootOnlyVerified'
  BY <1>3, <1>4, OtaAssumption
     DEF OInv, HashLength, FlashHashed, BootOnlyVerified, Spent
<1>10. QED
  BY <1>5, <1>7, <1>8, <1>9 DEF OInv

(* A chunk goes to the partition and to the hash, or to neither. *)
LEMMA WriteStep == OInv /\ UNCHANGED envVars /\ Write => OInv'
<1>1. SUFFICES ASSUME OInv, UNCHANGED envVars, Write PROVE OInv'
  OBVIOUS
<1> DEFINE c == task["mqtt"].chunk
           d == task["mqtt"].data
<1>2. /\ c = requested /\ c \in 0 .. Chunks - 1 /\ d \in Binaries /\ d \in Contents
      /\ mpc = "write" /\ tpc = "idle" /\ ~armed /\ fw_version # 0
  BY <1>1, DataType
     DEF OInv, TypeOK, TaskType, Tasks, TasksApart, FromServer, Unassigned, Write, mpc, tpc
<1>3. /\ UNCHANGED <<tb_callback, fw_callback, fw_version, requested, retries, armed, net, boot,
                     result, calls, timely, stops, crashed>>
      /\ faults' \in 0 .. MaxFaults
  BY <1>1, OtaAssumption DEF OInv, TypeOK, Write, MayFail, tbVars, endVars, envVars
<1>4. CASE Goto("mqtt", "retryUpdate") /\ UNCHANGED <<flash, hash, open>>
  <2>1. task' \in TaskType /\ mpc' = "retryUpdate" /\ tpc' = "idle"
    BY <1>1, <1>2, <1>4, GotoStep DEF OInv, TypeOK, Steps, Tasks, mpc, tpc
  <2>2. TypeOK'
    BY <1>1, <1>3, <1>4, <2>1 DEF OInv, TypeOK
  <2>3. Unassigned' /\ TasksApart' /\ FromServer'
    BY <1>1, <1>2, <1>3, <1>4, <2>1, OtaAssumption
       DEF OInv, Unassigned, TasksApart, FromServer
  <2>4. HashLength' /\ FlashHashed' /\ BootOnlyVerified'
    BY <1>1, <1>2, <1>3, <1>4, <2>1
       DEF OInv, HashLength, FlashHashed, BootOnlyVerified, Spent
  <2>5. QED
    BY <2>2, <2>3, <2>4 DEF OInv
<1>5. CASE /\ c # 0 => open
           /\ flash' = Append(IF c = 0 THEN <<>> ELSE flash, d)
           /\ hash' = Append(hash, d) /\ open' = TRUE /\ Goto("mqtt", "advance")
  <2>1. /\ task' \in TaskType /\ mpc' = "advance" /\ tpc' = "idle"
        /\ task'["mqtt"].chunk = c
    BY <1>1, <1>2, <1>5, GotoStep DEF OInv, TypeOK, Steps, Tasks, mpc, tpc
  <2>2. /\ hash \in Seq(Contents) /\ hash \in Seq(Binaries) /\ flash \in Seq(Contents)
        /\ Len(hash) = c /\ Len(hash) \in Nat
    BY <1>1, <1>2, LenProperties
       DEF OInv, TypeOK, FromServer, HashLength, Spent
  <2>3. flash' = hash'
    <3>1. CASE c = 0
      BY <1>5, <2>2, <3>1, EmptySeq
    <3>2. CASE c # 0
      <4>1. flash = hash
        BY <1>1, <1>2, <1>5, <3>2 DEF OInv, FlashHashed, Spent
      <4>2. QED
        BY <1>5, <3>2, <4>1
    <3>3. QED
      BY <3>1, <3>2
  <2>4. hash' \in Seq(Contents) /\ hash' \in Seq(Binaries) /\ Len(hash') = c + 1
    BY <1>2, <1>5, <2>2, AppendProperties
  <2>5. TypeOK'
    <3>1. Len(hash') <= Chunks
      BY <1>2, <2>4, OtaAssumption
    <3>2. QED
      BY <1>1, <1>3, <1>5, <2>1, <2>3, <2>4, <3>1 DEF OInv, TypeOK
  <2>6. Unassigned' /\ TasksApart'
    BY <1>1, <1>2, <1>3, <1>5, <2>1, OtaAssumption
       DEF OInv, Unassigned, TasksApart
  <2>7. FromServer'
    BY <1>1, <1>3, <2>1, <2>4 DEF OInv, FromServer
  <2>8. HashLength' /\ FlashHashed' /\ BootOnlyVerified'
    BY <1>1, <1>2, <1>3, <2>1, <2>3, <2>4
       DEF OInv, HashLength, FlashHashed, BootOnlyVerified
  <2>9. QED
    BY <2>5, <2>6, <2>7, <2>8 DEF OInv
<1>6. QED
  BY <1>1, <1>4, <1>5 DEF Write

(* The count catches up with the hash. *)
LEMMA AdvanceStep == OInv /\ UNCHANGED envVars /\ Advance => OInv'
<1>1. SUFFICES ASSUME OInv, UNCHANGED envVars, Advance PROVE OInv'
  OBVIOUS
<1>2. /\ task["mqtt"].chunk = requested /\ requested \in 0 .. Chunks - 1
      /\ mpc = "advance" /\ tpc = "idle" /\ ~armed /\ fw_version # 0
  BY <1>1 DEF OInv, TypeOK, TaskType, Tasks, TasksApart, Unassigned, Advance, mpc, tpc
<1>3. CASE fw_callback
  <2>1. /\ UNCHANGED <<tb_callback, fw_callback, fw_version, hash, armed, net, flash, open, boot,
                       faults, result, calls, timely, stops, crashed>>
        /\ requested' = requested + 1 /\ retries' = ChunkRetries
    BY <1>1, <1>2, <1>3 DEF Advance, tbVars, extVars, endVars, envVars
  <2>2. task' \in TaskType /\ mpc' = "next" /\ tpc' = "idle"
    BY <1>1, <1>2, <1>3, GotoStep DEF OInv, TypeOK, Advance, Steps, Tasks, mpc, tpc
  <2>3. TypeOK'
    <3>1. requested' \in 0 .. Chunks /\ retries' \in 0 .. ChunkRetries
      BY <1>2, <2>1, OtaAssumption
    <3>2. QED
      BY <1>1, <2>1, <2>2, <3>1 DEF OInv, TypeOK
  <2>4. Unassigned' /\ TasksApart' /\ FromServer'
    BY <1>1, <1>2, <2>1, <2>2, OtaAssumption
       DEF OInv, Unassigned, TasksApart, FromServer
  <2>5. HashLength' /\ FlashHashed' /\ BootOnlyVerified'
    BY <1>1, <1>2, <2>1, <2>2
       DEF OInv, HashLength, FlashHashed, BootOnlyVerified, Spent
  <2>6. QED
    BY <2>3, <2>4, <2>5 DEF OInv
<1>4. CASE ~fw_callback
  BY <1>1, <1>4, CrashStep DEF Advance
<1>5. QED
  BY <1>3, <1>4

(* The application stops the update from its progress callback. *)
LEMMA StopStep == OInv /\ UNCHANGED envVars /\ Stop => OInv'
<1>1. SUFFICES ASSUME OInv, UNCHANGED envVars, Stop PROVE OInv'
  OBVIOUS
<1>2. /\ task["mqtt"].chunk = requested /\ requested \in 0 .. Chunks - 1
      /\ mpc = "advance" /\ tpc = "idle" /\ fw_version # 0
  BY <1>1 DEF OInv, TypeOK, TaskType, Tasks, TasksApart, Unassigned, Stop, mpc, tpc
<1>3. /\ UNCHANGED <<fw_version, hash, net, boot, faults, timely, stops, crashed>>
      /\ requested' = requested + 1 /\ armed' = FALSE /\ open' = FALSE /\ flash' = <<>>
      /\ tb_callback' = FALSE /\ fw_callback' = FALSE /\ result' = "failure"
  BY <1>1, <1>2 DEF Stop, Conclude, envVars
<1>4. task' \in TaskType /\ mpc' = "idle" /\ tpc' = "idle"
  BY <1>1, <1>2, ReturnStep DEF OInv, TypeOK, Stop, Tasks, mpc, tpc
<1>5. TypeOK'
  <2>1. requested' \in 0 .. Chunks /\ retries' \in 0 .. ChunkRetries /\ calls' \in 0 .. 2
    BY <1>1, <1>2, <1>3, OtaAssumption DEF OInv, TypeOK, Stop, Conclude
  <2>2. <<>> \in Seq(Contents)
    BY EmptySeq
  <2>3. QED
    BY <1>1, <1>3, <1>4, <2>1, <2>2 DEF OInv, TypeOK
<1>6. Unassigned' /\ TasksApart' /\ FromServer'
  BY <1>1, <1>2, <1>3, <1>4 DEF OInv, Unassigned, TasksApart, FromServer
<1>7. HashLength' /\ FlashHashed' /\ BootOnlyVerified'
  BY <1>1, <1>2, <1>3, <1>4 DEF OInv, HashLength, FlashHashed, BootOnlyVerified, Spent
<1>8. QED
  BY <1>5, <1>6, <1>7 DEF OInv

(* The digest is compared and spent: what goes on to the end is an intact  *)
(* image, in the partition too if that is still open.                      *)
LEMMA CheckHashStep ==
  ASSUME OInv, UNCHANGED envVars, NEW t \in Tasks, CheckHash(t)
  PROVE  OInv'
<1>1. /\ t = "mqtt" /\ mpc = "finish" /\ tpc = "idle" /\ ~armed /\ requested = Chunks
      /\ fw_version \in Versions
  BY DEF OInv, TypeOK, TasksApart, Unassigned, CheckHash, Tasks, mpc, tpc
<1>2. /\ UNCHANGED <<tb_callback, fw_callback, fw_version, requested, retries, armed, net, flash,
                     open, boot, faults, result, calls, timely, stops, crashed>>
      /\ hash' = <<>>
  BY DEF CheckHash, tbVars, extVars, endVars, envVars
<1>3. task' \in TaskType /\ tpc' = "idle"
      /\ mpc' = IF hash = Image(fw_version) THEN "end" ELSE "retryUpdate"
  <2>1. (IF hash = Image(fw_version) THEN "end" ELSE "retryUpdate") \in Steps
    BY DEF Steps
  <2>2. QED
    BY <1>1, <2>1, GotoStep DEF OInv, TypeOK, CheckHash, Tasks, mpc, tpc
<1>4. /\ <<>> \in Seq(Contents) /\ <<>> \in Seq(Binaries) /\ Len(<<>>) = 0
      /\ Chunks \in Nat \ {0}
  BY EmptySeq, OtaAssumption
<1>5. TypeOK'
  <2>1. Len(hash') <= Chunks
    BY <1>2, <1>4
  <2>2. QED
    BY <1>2, <1>3, <1>4, <2>1 DEF OInv, TypeOK
<1>6. Unassigned' /\ TasksApart' /\ FromServer'
  BY <1>1, <1>2, <1>3, <1>4 DEF OInv, Unassigned, TasksApart, FromServer
<1>7. HashLength' /\ BootOnlyVerified'
  BY <1>1, <1>2, <1>3, <1>4 DEF OInv, HashLength, BootOnlyVerified, Spent
<1>8. FlashHashed'
  <2>1. ~Spent
    BY <1>1 DEF Spent
  <2>2. hash = Image(fw_version) => fw_version \in Intact
    BY <1>1, HashVerifies DEF OInv, FromServer
  <2>3. open => flash = hash
    BY <1>1, <2>1 DEF OInv, FlashHashed
  <2>4. mpc' # "end" => Spent'
    BY <1>1, <1>2, <1>3 DEF Spent
  <2>5. Image(fw_version)' = Image(fw_version)
    BY <1>2 DEF Image
  <2>6. QED
    BY <1>2, <1>3, <2>2, <2>3, <2>4, <2>5 DEF FlashHashed
<1>9. QED
  BY <1>5, <1>6, <1>7, <1>8 DEF OInv

(* The only step that changes what boots next. *)
LEMMA EndStep ==
  ASSUME OInv, UNCHANGED envVars, NEW t \in Tasks, End(t)
  PROVE  OInv'
<1>1. /\ t = "mqtt" /\ mpc = "end" /\ tpc = "idle" /\ ~armed /\ requested = Chunks
      /\ fw_version # 0
  BY DEF OInv, TasksApart, Unassigned, End, Tasks, mpc, tpc
<1>2. /\ UNCHANGED <<fw_callback, fw_version, requested, retries, hash, armed, net, flash, timely,
                     stops, crashed>>
      /\ open' = FALSE /\ faults' \in 0 .. MaxFaults
  BY OtaAssumption DEF OInv, TypeOK, End, MayFail, memVars, envVars
<1>3. HashLength
  BY DEF OInv
<1>4. CASE open /\ boot' = flash /\ Conclude("success") /\ Return(t)
  <2>1. task' \in TaskType /\ mpc' = "idle" /\ tpc' = "idle"
    BY <1>1, <1>4, ReturnStep DEF OInv, TypeOK, Tasks, mpc, tpc
  <2>2. TypeOK'
    <3>1. calls' \in 0 .. 2 /\ tb_callback' = FALSE /\ result' = "success" /\ boot' = flash
      BY <1>4 DEF OInv, TypeOK, Conclude
    <3>2. QED
      BY <1>2, <2>1, <3>1 DEF OInv, TypeOK
  <2>3. Unassigned' /\ TasksApart' /\ FromServer'
    BY <1>1, <1>2, <2>1 DEF OInv, Unassigned, TasksApart, FromServer
  <2>4. HashLength' /\ FlashHashed'
    BY <1>1, <1>2, <1>3, <2>1 DEF HashLength, FlashHashed, Spent
  <2>5. BootOnlyVerified'
    BY <1>1, <1>4 DEF OInv, FlashHashed, BootOnlyVerified
  <2>6. QED
    BY <2>2, <2>3, <2>4, <2>5 DEF OInv
<1>5. CASE Goto(t, "retryUpdate") /\ UNCHANGED <<boot, tbVars, endVars>>
  <2>1. task' \in TaskType /\ mpc' = "retryUpdate" /\ tpc' = "idle"
    BY <1>1, <1>5, GotoStep DEF OInv, TypeOK, Steps, Tasks, mpc, tpc
  <2>2. TypeOK'
    BY <1>2, <1>5, <2>1 DEF OInv, TypeOK, tbVars, endVars
  <2>3. Unassigned' /\ TasksApart' /\ FromServer'
    BY <1>1, <1>2, <2>1 DEF OInv, Unassigned, TasksApart, FromServer
  <2>4. HashLength' /\ FlashHashed' /\ BootOnlyVerified'
    BY <1>1, <1>2, <1>3, <1>5, <2>1 DEF OInv, HashLength, FlashHashed, BootOnlyVerified, Spent
  <2>5. QED
    BY <2>2, <2>3, <2>4 DEF OInv
<1>6. QED
  BY <1>4, <1>5 DEF End

(* A failure repeats the request, starts over, or gives up. *)
LEMMA HandleFailureStep ==
  ASSUME OInv, UNCHANGED envVars, NEW t \in Tasks, HandleFailure(t)
  PROVE  OInv'
<1>1. CASE retries = 0 /\ ~fw_callback
  BY <1>1, CrashStep DEF HandleFailure
<1>2. /\ task[t].pc = IF t = "mqtt" THEN "retryUpdate" ELSE "retryChunk"
      /\ t = "mqtt" => ~armed /\ tpc = "idle"
      /\ t = "timer" => requested < Chunks
      /\ fw_version # 0
  BY DEF OInv, TasksApart, Unassigned, HandleFailure, Tasks, mpc, tpc
<1>3. CASE retries = 0 /\ fw_callback
  <2>1. /\ UNCHANGED <<fw_callback, fw_version, requested, retries, hash, armed, net, flash, open,
                       boot, faults, timely, stops, crashed>>
        /\ tb_callback' = FALSE /\ result' = "failure"
    BY <1>3 DEF HandleFailure, Conclude, memVars, extVars, envVars
  <2>2. /\ task' \in TaskType /\ task'[t].pc = "idle"
        /\ \A u \in Tasks \ {t} : task'[u] = task[u]
    BY <1>3, ReturnStep DEF OInv, TypeOK, HandleFailure
  <2>3. TypeOK'
    <3>1. calls' \in 0 .. 2
      BY <1>3 DEF OInv, TypeOK, HandleFailure, Conclude
    <3>2. QED
      BY <2>1, <2>2, <3>1 DEF OInv, TypeOK
  <2>4. Unassigned' /\ TasksApart' /\ FromServer'
    BY <1>2, <2>1, <2>2
       DEF OInv, Unassigned, TasksApart, FromServer, Tasks, mpc, tpc
  <2>5. HashLength' /\ FlashHashed' /\ BootOnlyVerified'
    BY <1>2, <2>1, <2>2
       DEF OInv, HashLength, FlashHashed, BootOnlyVerified, Spent, Tasks, mpc
  <2>6. QED
    BY <2>3, <2>4, <2>5 DEF OInv
<1>4. CASE retries # 0
  <2>1. /\ UNCHANGED <<tb_callback, fw_callback, fw_version, requested, hash, armed, net, flash,
                       open, boot, faults, result, calls, timely, stops, crashed>>
        /\ retries' = retries - 1
    BY <1>4 DEF HandleFailure, tbVars, extVars, endVars, envVars
  <2>2. /\ task' \in TaskType /\ task'[t].pc = IF t = "mqtt" THEN "first" ELSE "next"
        /\ \A u \in Tasks \ {t} : task'[u] = task[u]
    <3>1. (IF t = "mqtt" THEN "first" ELSE "next") \in Steps
      BY DEF Steps
    <3>2. Goto(t, IF t = "mqtt" THEN "first" ELSE "next")
      BY <1>2, <1>4 DEF HandleFailure
    <3>3. QED
      BY <3>1, <3>2, GotoStep DEF OInv, TypeOK
  <2>3. TypeOK'
    <3>1. retries' \in 0 .. ChunkRetries
      BY <1>4, <2>1, OtaAssumption DEF OInv, TypeOK
    <3>2. QED
      BY <2>1, <2>2, <3>1 DEF OInv, TypeOK
  <2>4. Unassigned' /\ TasksApart' /\ FromServer'
    BY <1>2, <2>1, <2>2
       DEF OInv, Unassigned, TasksApart, FromServer, Tasks, mpc, tpc
  <2>5. HashLength' /\ FlashHashed' /\ BootOnlyVerified'
    BY <1>2, <2>1, <2>2
       DEF OInv, HashLength, FlashHashed, BootOnlyVerified, Spent, Tasks, mpc
  <2>6. QED
    BY <2>3, <2>4, <2>5 DEF OInv
<1>5. QED
  BY <1>1, <1>3, <1>4

(* The watchdog fires: the timer task starts. *)
LEMMA TimeoutStep == OInv /\ UNCHANGED envVars /\ Timeout => OInv'
<1>1. SUFFICES ASSUME OInv, UNCHANGED envVars, Timeout PROVE OInv'
  OBVIOUS
<1>2. /\ UNCHANGED <<tb_callback, fw_callback, fw_version, requested, retries, hash, net, flash,
                     open, boot, faults, result, calls, timely, stops, crashed>>
      /\ armed /\ armed' = FALSE
  BY <1>1 DEF Timeout, tbVars, extVars, endVars, envVars
<1>3. /\ task' \in TaskType /\ mpc' = mpc /\ tpc' = "retryChunk"
      /\ task'["mqtt"] = task["mqtt"]
  BY <1>1, GotoStep DEF OInv, TypeOK, Timeout, Steps, Tasks, mpc, tpc
<1>4. TypeOK'
  BY <1>1, <1>2, <1>3 DEF OInv, TypeOK
<1>5. Unassigned' /\ TasksApart' /\ FromServer'
  BY <1>1, <1>2, <1>3 DEF OInv, Unassigned, TasksApart, FromServer, Silent
<1>6. HashLength' /\ FlashHashed' /\ BootOnlyVerified'
  BY <1>1, <1>2, <1>3 DEF OInv, HashLength, FlashHashed, BootOnlyVerified, Spent
<1>7. QED
  BY <1>4, <1>5, <1>6 DEF OInv
-----------------------------------------------------------------------------
(* No step of either task, the server or the watchdog leaves the           *)
(* invariant.                                                              *)
LEMMA NextOInv == OInv /\ [Next]_vars => OInv'
<1>1. ASSUME OInv, Next PROVE OInv'
  <2>1. UNCHANGED envVars
    BY <1>1 DEF Next
  <2>2. ASSUME NEW t \in Tasks, Handler(t) PROVE OInv'
    BY <1>1, <2>1, <2>2, RequestFirstStep, RequestNextStep, CheckHashStep, EndStep,
       HandleFailureStep, WriteStep, AdvanceStep, StopStep DEF Handler
  <2>3. QED
    BY <1>1, <2>1, <2>2, SubscribeStep, StartStep, ReceiveStep, TimeoutStep DEF Next, Deliver
<1>2. ASSUME OInv, UNCHANGED vars PROVE OInv'
  <2>1. UNCHANGED <<tb_callback, fw_callback, fw_version, requested, retries, hash, armed, task,
                    net, flash, open, boot, faults, result, calls, crashed, timely, stops>>
    BY <1>2 DEF vars, tbVars, memVars, extVars, endVars, envVars
  <2>2. TypeOK'
    BY <1>2, <2>1 DEF OInv, TypeOK
  <2>3. QED
    BY <1>2, <2>1, <2>2
       DEF OInv, Unassigned, TasksApart, FromServer, HashLength, FlashHashed, Silent,
           BootOnlyVerified, Spent, mpc, tpc
<1>3. QED
  BY <1>1, <1>2

(* Every reachable state satisfies the invariant. *)
LEMMA Invariance == Spec => []OInv
<1>1. QED
  BY InitOInv, NextOInv, PTL DEF Spec

(* The types of the handler, of its two tasks and of what is in flight,    *)
(* for any number of versions, chunks, retries, copies and faults.         *)
THEOREM TypeCorrect == Spec => []TypeOK
<1>1. OInv => TypeOK
  BY DEF OInv
<1>2. QED
  BY <1>1, Invariance, PTL

(* OTA_Handler.h, Finish_Firmware_Update: whatever is lost, repeated, late *)
(* or stopped, only a complete image that matches its checksum boots.      *)
THEOREM OnlyVerifiedBoots == Spec => []BootOnlyVerified
<1>1. OInv => BootOnlyVerified
  BY DEF OInv
<1>2. QED
  BY <1>1, Invariance, PTL
-----------------------------------------------------------------------------
(***************************************************************************)
(* A quiet update: no answer outlasts the timeout and nothing is stopped.  *)
(* An update that is under way is subscribed and has a callback; while a   *)
(* retry is spent, no second answer can be in flight, so that the update   *)
(* which gives up leaves nothing behind that could still be received.      *)
(* This takes at least one retry (CHUNK_RETRIES is 12): with none, an      *)
(* answer to an earlier assignment is left when a write fails.             *)
(***************************************************************************)
Single == \A c1, c2 \in 0 .. Chunks - 1, d1, d2 \in Contents :
            net[c1][d1] > 0 /\ net[c2][d2] > 0 => c1 = c2 /\ d1 = d2 /\ net[c1][d1] = 1

Resting == mpc = "idle" /\ tpc = "idle"

Alternate == /\ mpc = "idle" \/ tpc = "idle"
             /\ armed => mpc \in {"idle", "first"} /\ tpc = "idle"
Ongoing == /\ armed \/ ~Resting => tb_callback /\ fw_callback /\ result = "none" /\ calls = 0
           /\ result = "success" => ~tb_callback
Nothing == /\ ~armed /\ Resting => Silent \/ requested = Chunks
           /\ tpc # "idle" => Silent
Retries == /\ retries < ChunkRetries /\ mpc # "first" => IF Resting THEN Single ELSE Silent
           /\ mpc \in {"next", "finish", "end"} => retries = ChunkRetries
QInv == Quiet => Alternate /\ Ongoing /\ Nothing /\ Retries /\ ~crashed /\ calls <= 1

(* Before the first assignment nothing is under way and nothing has ended. *)
LEMMA InitQInv == Init => QInv
<1>1. SUFFICES ASSUME Init PROVE QInv
  OBVIOUS
<1>2. Idle.pc = "idle"
  BY DEF Idle
<1>3. Resting /\ Silent
  BY <1>1, <1>2, OtaAssumption DEF Init, NoAnswer, Resting, Silent, mpc, tpc, Tasks
<1>4. Single
  BY <1>3 DEF Silent, Single
<1>5. QED
  BY <1>1, <1>3, <1>4 DEF Init, QInv, Alternate, Ongoing, Nothing, Retries, Resting

(* What is not received or asked for leaves the net as it is. *)
LEMMA NetKept == UNCHANGED net => (Silent' <=> Silent) /\ (Single' <=> Single)
  BY DEF Silent, Single

(* The first three steps: subscribe again, be assigned, start over. *)
LEMMA QuietStart ==
  ASSUME OInv, QInv, ~crashed, UNCHANGED envVars,
         \/ Subscribe
         \/ \E v \in Versions : Start(v)
         \/ \E t \in Tasks : RequestFirst(t)
  PROVE  QInv'
<1>1. SUFFICES ASSUME Quiet PROVE QInv'
  BY DEF QInv, Quiet, envVars
<1>2. Alternate /\ Ongoing /\ Nothing /\ Retries /\ calls <= 1 /\ TypeOK
  BY <1>1 DEF QInv, OInv
<1>3. CASE Subscribe
  <2>1. /\ UNCHANGED <<requested, retries, armed, task, net, result, calls, crashed>>
        /\ Resting /\ result = "failure"
    BY <1>3 DEF Subscribe, Ready, Resting, memVars, endVars, mpc, tpc
  <2>2. mpc' = mpc /\ tpc' = tpc /\ (Silent' <=> Silent) /\ (Single' <=> Single)
    BY <2>1, NetKept DEF mpc, tpc
  <2>3. QED
    BY <1>2, <2>1, <2>2 DEF QInv, Alternate, Ongoing, Nothing, Retries, Resting
<1>4. CASE \E v \in Versions : Start(v)
  <2>1. /\ UNCHANGED <<requested, retries, armed, net, tb_callback, crashed>>
        /\ Resting /\ tb_callback /\ fw_callback' = TRUE /\ result' = "none" /\ calls' = 0
        /\ Goto("mqtt", "first")
    BY <1>4 DEF Start, Ready, Resting, tbVars, memVars, mpc, tpc
  <2>2. mpc' = "first" /\ tpc' = "idle"
    BY <1>2, <2>1, GotoStep DEF TypeOK, Resting, Steps, Tasks, mpc, tpc
  <2>3. QED
    BY <1>2, <2>1, <2>2 DEF QInv, Alternate, Ongoing, Nothing, Retries, Resting
<1>5. CASE \E t \in Tasks : RequestFirst(t)
  <2>1. PICK t \in Tasks : RequestFirst(t)
    BY <1>5
  <2>2. t = "mqtt"
    BY <2>1 DEF OInv, TasksApart, RequestFirst, Tasks, mpc, tpc
  <2>3. /\ UNCHANGED <<net, tb_callback, fw_callback, result, calls, crashed>>
        /\ mpc = "first" /\ armed' = FALSE /\ retries' = ChunkRetries /\ Goto("mqtt", "next")
    BY <2>1, <2>2 DEF RequestFirst, tbVars, endVars, mpc
  <2>4. tpc = "idle"
    BY <1>2, <2>3 DEF Alternate
  <2>5. mpc' = "next" /\ tpc' = "idle"
    BY <1>2, <2>3, <2>4, GotoStep DEF TypeOK, Steps, Tasks, mpc, tpc
  <2>6. ~(retries' < ChunkRetries)
    BY <2>3, OtaAssumption
  <2>7. QED
    BY <1>2, <2>3, <2>4, <2>5, <2>6
       DEF QInv, Alternate, Ongoing, Nothing, Retries, Resting
<1>6. QED
  BY <1>3, <1>4, <1>5

(* A request: the update is ongoing, so there is a callback to use, and an *)
(* answer is the only one when a retry is spent.                           *)
LEMMA QuietRequest ==
  ASSUME OInv, QInv, ~crashed, UNCHANGED envVars, NEW t \in Tasks, RequestNext(t)
  PROVE  QInv'
<1>1. SUFFICES ASSUME Quiet PROVE QInv'
  BY DEF QInv, Quiet, envVars
<1>2. Alternate /\ Ongoing /\ Nothing /\ Retries /\ calls <= 1 /\ TypeOK
  BY <1>1 DEF QInv, OInv
<1>3. task[t].pc = "next" /\ tb_callback /\ fw_callback /\ result = "none" /\ calls = 0
  BY <1>2 DEF RequestNext, Ongoing, Resting, Tasks, mpc, tpc
<1>4. \A u \in Tasks \ {t} : task[u].pc = "idle"
  BY <1>2, <1>3 DEF Alternate, Tasks, mpc, tpc
<1>5. /\ UNCHANGED <<tb_callback, fw_callback, requested, retries, result, calls, crashed>>
      /\ requested >= Chunks => UNCHANGED <<armed, net>> /\ Goto(t, "finish")
      /\ ~(requested >= Chunks) => armed' = TRUE /\ Return(t)
  BY <1>3 DEF RequestNext, tbVars, memVars, endVars
<1>6. CASE requested >= Chunks
  <2>1. t = "mqtt"
    BY <1>2, <1>3, <1>6, OtaAssumption DEF OInv, TypeOK, TasksApart, Tasks, tpc
  <2>2. mpc' = "finish" /\ tpc' = "idle" /\ mpc = "next" /\ ~armed
    BY <1>2, <1>3, <1>4, <1>5, <1>6, <2>1, GotoStep
       DEF TypeOK, Alternate, Steps, Tasks, mpc, tpc
  <2>3. (Silent' <=> Silent) /\ (Single' <=> Single)
    BY <1>5, <1>6, NetKept
  <2>4. QED
    BY <1>2, <1>3, <1>5, <1>6, <2>2, <2>3
       DEF QInv, Alternate, Ongoing, Nothing, Retries, Resting
<1>7. CASE ~(requested >= Chunks)
  <2>1. mpc' = "idle" /\ tpc' = "idle"
    BY <1>2, <1>4, <1>5, <1>7, ReturnStep DEF TypeOK, Tasks, mpc, tpc
  <2>2. retries < ChunkRetries => Silent
    BY <1>2, <1>3 DEF Retries, Resting, Nothing, Tasks, mpc, tpc
  <2>3. Silent => Single'
    <3>1. CASE net' = net
      BY <3>1, NetKept DEF Silent, Single
    <3>2. CASE net' # net
      <4>1. /\ net' = [net EXCEPT ![requested][Data(fw_version)] = @ + 1]
            /\ net[requested][Data(fw_version)] < MaxCopies
        BY <1>3, <1>7, <3>2 DEF RequestNext
      <4>2. requested \in 0 .. Chunks - 1 /\ Data(fw_version) \in Contents
        BY <1>2, <1>7, OtaAssumption, DataType DEF TypeOK
      <4>3. SUFFICES ASSUME Silent PROVE Single'
        OBVIOUS
      <4>4. net[requested][Data(fw_version)] = 0
        BY <4>2, <4>3 DEF Silent
      <4>5. 1 \in 0 .. MaxCopies /\ net \in NetType
        BY <1>2, <4>1, <4>4, OtaAssumption DEF TypeOK
      <4>6. net' = [net EXCEPT ![requested][Data(fw_version)] = 1]
        BY <4>1, <4>4
      <4>7. \A c \in 0 .. Chunks - 1, d \in Contents :
              net'[c][d] = IF c = requested /\ d = Data(fw_version) THEN 1 ELSE net[c][d]
        BY <4>2, <4>5, <4>6, NetStep
      <4>8. QED
        BY <4>3, <4>7 DEF Silent, Single
    <3>3. QED
      BY <3>1, <3>2
  <2>4. QED
    BY <1>2, <1>3, <1>5, <1>7, <2>1, <2>2, <2>3
       DEF QInv, Alternate, Ongoing, Nothing, Retries, Resting
<1>8. QED
  BY <1>6, <1>7

(* An answer is received while the watchdog runs, or is not the expected. *)
LEMMA QuietReceive ==
  ASSUME OInv, QInv, ~crashed, UNCHANGED envVars,
         NEW c \in 0 .. Chunks - 1, NEW d \in Contents, Receive(c, d)
  PROVE  QInv'
<1>1. SUFFICES ASSUME Quiet PROVE QInv'
  BY DEF QInv, Quiet, envVars
<1>2. Alternate /\ Ongoing /\ Nothing /\ Retries /\ calls <= 1 /\ TypeOK
  BY <1>1 DEF QInv, OInv
<1>3. /\ UNCHANGED <<tb_callback, fw_callback, requested, retries, result, calls, crashed>>
      /\ Resting /\ net[c][d] > 0 /\ net' = [net EXCEPT ![c][d] = net[c][d] - 1]
  BY DEF Receive, Ready, Resting, tbVars, endVars, mpc, tpc
<1>4. net \in NetType /\ net[c][d] \in 0 .. MaxCopies /\ net[c][d] - 1 \in 0 .. MaxCopies
  BY <1>2, <1>3, OtaAssumption DEF TypeOK, NetType
<1>5. \A c2 \in 0 .. Chunks - 1, d2 \in Contents :
        net'[c2][d2] = IF c2 = c /\ d2 = d THEN net[c][d] - 1 ELSE net[c2][d2]
  BY <1>3, <1>4, NetStep
<1>6. ~Silent
  BY <1>3 DEF Silent
<1>7. Single => Silent'
  <2>1. ASSUME Single, NEW c2 \in 0 .. Chunks - 1, NEW d2 \in Contents
        PROVE  net'[c2][d2] = 0
    <3>1. net[c2][d2] \in 0 .. MaxCopies
      BY <1>2 DEF TypeOK, NetType
    <3>2. CASE c2 = c /\ d2 = d
      BY <1>3, <1>5, <2>1, <3>2 DEF Single
    <3>3. CASE ~(c2 = c /\ d2 = d)
      <4>1. ~(net[c2][d2] > 0)
        BY <1>3, <2>1, <3>3 DEF Single
      <4>2. QED
        BY <1>5, <3>1, <3>3, <4>1, OtaAssumption
    <3>4. QED
      BY <3>2, <3>3
  <2>2. QED
    BY <2>1 DEF Silent
<1>8. Silent' => Single'
  BY DEF Silent, Single
<1>9. CASE c = requested
  <2>1. armed
    BY <1>2, <1>3, <1>6, <1>9, OtaAssumption DEF Nothing
  <2>2. armed' = FALSE /\ mpc' = "write" /\ tpc' = "idle"
    BY <1>2, <1>3, <1>9
       DEF Receive, TypeOK, TaskType, Tasks, Resting, mpc, tpc
  <2>3. QED
    BY <1>2, <1>3, <1>7, <2>1, <2>2
       DEF QInv, Alternate, Ongoing, Nothing, Retries, Resting
<1>10. CASE c # requested
  <2>1. armed' = armed /\ mpc' = "idle" /\ tpc' = "idle"
    BY <1>3, <1>10 DEF Receive, Resting, mpc, tpc
  <2>2. QED
    BY <1>2, <1>3, <1>6, <1>7, <1>8, <2>1
       DEF QInv, Alternate, Ongoing, Nothing, Retries, Resting
<1>11. QED
  BY <1>9, <1>10

(* The work on a chunk and its end: the callback is there, and the retries *)
(* are full again once a chunk was written.                                *)
LEMMA QuietWork ==
  ASSUME OInv, QInv, ~crashed, UNCHANGED envVars,
         Write \/ Advance \/ Stop \/ \E t \in Tasks : CheckHash(t) \/ End(t)
  PROVE  QInv'
<1>1. SUFFICES ASSUME Quiet PROVE QInv'
  BY DEF QInv, Quiet, envVars
<1>2. Alternate /\ Ongoing /\ Nothing /\ Retries /\ calls <= 1 /\ TypeOK
  BY <1>1 DEF QInv, OInv
<1>3. ~Stop
  BY <1>1 DEF Stop, Quiet
<1>4. CASE Write
  <2>1. /\ UNCHANGED <<tb_callback, fw_callback, requested, retries, armed, net, result, calls,
                       crashed>>
        /\ mpc = "write" /\ (Goto("mqtt", "advance") \/ Goto("mqtt", "retryUpdate"))
    BY <1>4 DEF Write, tbVars, endVars, mpc
  <2>2. mpc' \in {"advance", "retryUpdate"} /\ tpc' = "idle" /\ tpc = "idle"
    BY <1>2, <2>1, GotoStep DEF TypeOK, Alternate, Steps, Tasks, mpc, tpc
  <2>3. (Silent' <=> Silent) /\ (Single' <=> Single)
    BY <2>1, NetKept
  <2>4. QED
    BY <1>2, <2>1, <2>2, <2>3 DEF QInv, Alternate, Ongoing, Nothing, Retries, Resting
<1>5. CASE Advance
  <2>1. mpc = "advance" /\ tpc = "idle" /\ fw_callback
    BY <1>2, <1>5 DEF Advance, Alternate, Ongoing, Resting, mpc
  <2>2. /\ UNCHANGED <<tb_callback, fw_callback, armed, net, result, calls, crashed>>
        /\ retries' = ChunkRetries /\ Goto("mqtt", "next")
    BY <1>5, <2>1 DEF Advance, tbVars, endVars
  <2>3. mpc' = "next" /\ tpc' = "idle"
    BY <1>2, <2>1, <2>2, GotoStep DEF TypeOK, Steps, Tasks, mpc, tpc
  <2>4. ~(retries' < ChunkRetries)
    BY <2>2, OtaAssumption
  <2>5. QED
    BY <1>2, <2>1, <2>2, <2>3, <2>4
       DEF QInv, Alternate, Ongoing, Nothing, Retries, Resting
<1>6. CASE \E t \in Tasks : CheckHash(t)
  <2>1. PICK t \in Tasks : CheckHash(t)
    BY <1>6
  <2>2. t = "mqtt" /\ mpc = "finish" /\ tpc = "idle"
    BY <2>1 DEF OInv, TasksApart, CheckHash, Tasks, mpc, tpc
  <2>3. /\ UNCHANGED <<tb_callback, fw_callback, requested, retries, armed, net, result, calls,
                       crashed>>
        /\ Goto("mqtt", "end") \/ Goto("mqtt", "retryUpdate")
    BY <2>1, <2>2 DEF CheckHash, tbVars, endVars
  <2>4. mpc' \in {"end", "retryUpdate"} /\ tpc' = "idle"
    BY <1>2, <2>2, <2>3, GotoStep DEF TypeOK, Steps, Tasks, mpc, tpc
  <2>5. ~(retries < ChunkRetries)
    BY <1>2, <2>2, OtaAssumption DEF Retries
  <2>6. QED
    BY <1>2, <2>2, <2>3, <2>4, <2>5
       DEF QInv, Alternate, Ongoing, Nothing, Retries, Resting
<1>7. CASE \E t \in Tasks : End(t)
  <2>1. PICK t \in Tasks : End(t)
    BY <1>7
  <2>2. t = "mqtt" /\ mpc = "end" /\ tpc = "idle" /\ requested = Chunks
    BY <2>1 DEF OInv, TasksApart, End, Tasks, mpc, tpc
  <2>3. /\ UNCHANGED <<fw_callback, requested, retries, armed, net, crashed>>
        /\ \/ Conclude("success") /\ Return("mqtt")
           \/ Goto("mqtt", "retryUpdate") /\ UNCHANGED <<tb_callback, result, calls>>
    BY <2>1, <2>2 DEF End, memVars, tbVars, endVars
  <2>4. ~(retries < ChunkRetries)
    BY <1>2, <2>2, OtaAssumption DEF Retries
  <2>5. CASE Conclude("success") /\ Return("mqtt")
    <3>1. mpc' = "idle" /\ tpc' = "idle"
      BY <1>2, <2>2, <2>5, ReturnStep DEF TypeOK, Tasks, mpc, tpc
    <3>2. tb_callback' = FALSE /\ result' = "success" /\ calls' = 1
      BY <1>2, <2>2, <2>5 DEF Conclude, Ongoing, Resting
    <3>3. QED
      BY <1>2, <2>2, <2>3, <2>4, <3>1, <3>2
         DEF QInv, Alternate, Ongoing, Nothing, Retries, Resting
  <2>6. CASE Goto("mqtt", "retryUpdate") /\ UNCHANGED <<tb_callback, result, calls>>
    <3>1. mpc' = "retryUpdate" /\ tpc' = "idle"
      BY <1>2, <2>2, <2>6, GotoStep DEF TypeOK, Steps, Tasks, mpc, tpc
    <3>2. QED
      BY <1>2, <2>2, <2>3, <2>4, <2>6, <3>1
         DEF QInv, Alternate, Ongoing, Nothing, Retries, Resting
  <2>7. QED
    BY <2>3, <2>5, <2>6
<1>8. QED
  BY <1>3, <1>4, <1>5, <1>6, <1>7

(* A failure without a retry left finds nothing in flight. *)
LEMMA QuietFailure ==
  ASSUME ChunkRetries # 0, OInv, QInv, ~crashed, UNCHANGED envVars,
         NEW t \in Tasks, HandleFailure(t)
  PROVE  QInv'
<1>1. SUFFICES ASSUME Quiet PROVE QInv'
  BY DEF QInv, Quiet, envVars
<1>2. Alternate /\ Ongoing /\ Nothing /\ Retries /\ calls <= 1 /\ TypeOK
  BY <1>1 DEF QInv, OInv
<1>3. /\ task[t].pc = IF t = "mqtt" THEN "retryUpdate" ELSE "retryChunk"
      /\ \A u \in Tasks \ {t} : task[u].pc = "idle"
      /\ fw_callback /\ ~armed
  BY <1>2
     DEF OInv, TasksApart, HandleFailure, Alternate, Ongoing, Resting, Tasks, mpc, tpc
<1>4. retries < ChunkRetries => Silent
  BY <1>2, <1>3 DEF Retries, Resting, Tasks, mpc, tpc
<1>5. CASE retries = 0
  <2>1. /\ UNCHANGED <<fw_callback, requested, retries, armed, net, crashed>>
        /\ Conclude("failure") /\ Return(t)
    BY <1>3, <1>5 DEF HandleFailure, memVars
  <2>2. tb_callback' = FALSE /\ result' = "failure" /\ calls' = 1
    BY <1>2, <1>3, <2>1 DEF Conclude, Ongoing, Resting, Tasks, mpc, tpc
  <2>3. mpc' = "idle" /\ tpc' = "idle"
    BY <1>2, <1>3, <2>1, ReturnStep DEF TypeOK, Tasks, mpc, tpc
  <2>4. Silent' /\ Single'
    <3>1. Silent
      BY <1>4, <1>5, OtaAssumption
    <3>2. QED
      BY <2>1, <3>1 DEF Silent, Single
  <2>5. QED
    BY <1>2, <1>3, <2>1, <2>2, <2>3, <2>4
       DEF QInv, Alternate, Ongoing, Nothing, Retries, Resting
<1>6. CASE retries # 0
  <2>1. /\ UNCHANGED <<tb_callback, fw_callback, requested, armed, net, result, calls, crashed>>
        /\ Goto(t, IF t = "mqtt" THEN "first" ELSE "next")
    BY <1>3, <1>6 DEF HandleFailure, tbVars, endVars
  <2>2. (IF t = "mqtt" THEN "first" ELSE "next") \in Steps
    BY DEF Steps
  <2>3. /\ t = "mqtt" => mpc' = "first" /\ tpc' = "idle"
        /\ t = "timer" => mpc' = "idle" /\ tpc' = "next"
    BY <1>2, <1>3, <2>1, <2>2, GotoStep DEF TypeOK, Tasks, mpc, tpc
  <2>4. t = "timer" => Silent'
    <3>1. t = "timer" => Silent
      BY <1>2, <1>3 DEF Nothing, Tasks, tpc
    <3>2. QED
      BY <2>1, <3>1, NetKept
  <2>5. QED
    BY <1>2, <1>3, <2>1, <2>3, <2>4
       DEF QInv, Alternate, Ongoing, Nothing, Retries, Resting, Tasks, mpc, tpc
<1>7. QED
  BY <1>5, <1>6

(* The timeout is longer than an answer takes: none is in flight. *)
LEMMA QuietTimeout ==
  ASSUME OInv, QInv, ~crashed, UNCHANGED envVars, Timeout
  PROVE  QInv'
<1>1. SUFFICES ASSUME Quiet PROVE QInv'
  BY DEF QInv, Quiet, envVars
<1>2. Alternate /\ Ongoing /\ Nothing /\ Retries /\ calls <= 1 /\ TypeOK
  BY <1>1 DEF QInv, OInv
<1>3. /\ UNCHANGED <<tb_callback, fw_callback, requested, retries, net, result, calls, crashed>>
      /\ armed /\ armed' = FALSE /\ net = NoAnswer /\ mpc = "idle" /\ tpc = "idle"
      /\ Goto("timer", "retryChunk")
  BY <1>1 DEF Timeout, Quiet, Ready, tbVars, endVars, mpc, tpc
<1>4. mpc' = "idle" /\ tpc' = "retryChunk"
  BY <1>2, <1>3, GotoStep DEF TypeOK, Steps, Tasks, mpc, tpc
<1>5. Silent' /\ Single'
  BY <1>3 DEF NoAnswer, Silent, Single
<1>6. QED
  BY <1>2, <1>3, <1>4, <1>5 DEF QInv, Alternate, Ongoing, Nothing, Retries, Resting

(* A quiet update keeps its callback until it ends. *)
LEMMA NextQInv == ChunkRetries # 0 /\ OInv /\ QInv /\ [Next]_vars => QInv'
<1>1. ASSUME ChunkRetries # 0, OInv, QInv, Next PROVE QInv'
  <2>1. UNCHANGED envVars /\ ~crashed
    BY <1>1 DEF Next
  <2>2. ASSUME NEW t \in Tasks, Handler(t) PROVE QInv'
    BY <1>1, <2>1, <2>2, QuietStart, QuietRequest, QuietWork, QuietFailure DEF Handler
  <2>3. QED
    BY <1>1, <2>1, <2>2, QuietStart, QuietReceive, QuietTimeout DEF Next, Deliver
<1>2. ASSUME QInv, UNCHANGED vars PROVE QInv'
  <2>1. UNCHANGED <<tb_callback, fw_callback, requested, retries, armed, task, net, result, calls,
                    crashed, timely, stops>>
    BY <1>2 DEF vars, tbVars, memVars, endVars, envVars
  <2>2. QED
    BY <1>2, <2>1
       DEF QInv, Quiet, Alternate, Ongoing, Nothing, Retries, Resting, Silent, Single, mpc, tpc
<1>3. QED
  BY <1>1, <1>2

(* ThingsBoard.h and OTA_Handler.h: a quiet update never uses a callback   *)
(* that the end of an update has cleared, and calls the finish callback at *)
(* most once, provided that a chunk may be retried at all.                 *)
THEOREM UpdateEndsOnce ==
  ASSUME ChunkRetries # 0
  PROVE  Spec => []EndsOnce
<1>1. QInv => EndsOnce
  BY DEF QInv, EndsOnce
<1>2. OInv /\ QInv /\ [Next]_vars => QInv'
  BY NextQInv
<1>3. Init => QInv
  BY InitQInv
<1>4. QED
  BY <1>1, <1>2, <1>3, Invariance, PTL DEF Spec
-----------------------------------------------------------------------------
(* What the application sees depends on these three alone. *)
LEMMA Unseen ==
  ASSUME UNCHANGED envVars, UNCHANGED <<fw_version, result, boot>>
  PROVE  UNCHANGED Update!uvars
  BY DEF envVars, Update!uvars, Quiet

(* An update that is not quiet is left out. *)
LEMMA NotQuiet ==
  ASSUME UNCHANGED envVars, ~Quiet
  PROVE  UNCHANGED Update!uvars
  BY DEF envVars, Update!uvars, Quiet

(* An assignment begins an update. *)
LEMMA StartBegins ==
  ASSUME OInv, QInv, Quiet, UNCHANGED envVars, NEW v \in Versions, Start(v)
  PROVE  Update!Begin(v)
<1>1. v # 0 /\ fw_version' = v /\ result' = "none" /\ boot' = boot /\ Quiet'
  BY OtaAssumption DEF Start, extVars, envVars, Quiet
<1>2. result # "success"
  BY DEF QInv, Ongoing, Start
<1>3. result = "none" \/ result = "failure"
  BY <1>2 DEF OInv, TypeOK
<1>4. QED
  BY <1>1, <1>3 DEF Update!Begin

(* The finish callback ends the running one. *)
LEMMA EndSucceeds ==
  ASSUME OInv, QInv, Quiet, UNCHANGED envVars, NEW t \in Tasks, End(t), result' # result
  PROVE  Update!Succeed
<1>1. open /\ boot' = flash /\ result' = "success" /\ fw_version' = fw_version /\ Quiet'
  BY DEF End, Conclude, endVars, envVars, Quiet
<1>2. mpc = "end" /\ fw_version # 0
  BY DEF OInv, TasksApart, Unassigned, End, Tasks, mpc, tpc
<1>3. flash = Image(fw_version)
  BY <1>1, <1>2 DEF OInv, FlashHashed
<1>4. boot' # <<>> /\ boot'[1] = fw_version
  <2>1. 1 \in DOMAIN Image(fw_version) /\ Image(fw_version)[1] = fw_version
    BY OtaAssumption DEF Image
  <2>2. 1 \notin DOMAIN <<>>
    OBVIOUS
  <2>3. QED
    BY <1>1, <1>3, <2>1, <2>2
<1>5. result = "none"
  BY <1>2 DEF QInv, Ongoing, Resting
<1>6. QED
  BY <1>1, <1>2, <1>4, <1>5 DEF Update!Succeed

(* The failure that is reported is the Abort of FirmwareUpdate. *)
LEMMA FailureAborts ==
  ASSUME OInv, QInv, Quiet, UNCHANGED envVars, NEW t \in Tasks, HandleFailure(t),
         result' # result
  PROVE  Update!Abort
<1>1. result' = "failure" /\ fw_version' = fw_version /\ boot' = boot /\ Quiet'
  BY DEF HandleFailure, Conclude, Crash, endVars, extVars, envVars, Quiet
<1>2. fw_version # 0
  BY DEF OInv, Unassigned, HandleFailure, Tasks, mpc, tpc
<1>3. result = "none"
  BY DEF QInv, Ongoing, Resting, HandleFailure, Tasks, mpc, tpc
<1>4. QED
  BY <1>1, <1>2, <1>3 DEF Update!Abort

(* Every step of a quiet update is one of FirmwareUpdate or is not seen. *)
LEMMA StepRefines ==
  OInv /\ QInv /\ [Next]_vars => [Update!UpdateNext]_(Update!uvars)
<1>1. ASSUME OInv, QInv, Next, Quiet
      PROVE  Update!UpdateNext \/ UNCHANGED Update!uvars
  <2>1. UNCHANGED envVars
    BY <1>1 DEF Next
  <2>2. CASE Subscribe \/ Deliver \/ Timeout
    <3>1. UNCHANGED <<fw_version, result, boot>>
      BY <2>2 DEF Subscribe, Deliver, Receive, Timeout, extVars, endVars
    <3>2. QED
      BY <2>1, <3>1, Unseen
  <2>3. CASE \E v \in Versions : Start(v)
    BY <1>1, <2>1, <2>3, StartBegins DEF Update!UpdateNext
  <2>4. ASSUME NEW t \in Tasks, Handler(t)
        PROVE  Update!UpdateNext \/ UNCHANGED Update!uvars
    <3>1. CASE RequestFirst(t) \/ RequestNext(t) \/ CheckHash(t) \/ Write \/ Advance
      <4>1. UNCHANGED <<fw_version, result, boot>>
        BY <3>1
           DEF RequestFirst, RequestNext, CheckHash, Write, Advance, Crash, extVars, endVars
      <4>2. QED
        BY <2>1, <4>1, Unseen
    <3>2. CASE End(t)
      <4>1. CASE result' # result
        BY <1>1, <2>1, <3>2, <4>1, EndSucceeds DEF Update!UpdateNext
      <4>2. CASE result' = result
        <5>1. result # "success"
          BY <1>1, <3>2
             DEF OInv, TasksApart, QInv, Ongoing, Resting, End, Tasks, mpc, tpc
        <5>2. UNCHANGED <<fw_version, result, boot>>
          BY <3>2, <4>2, <5>1 DEF End, Conclude
        <5>3. QED
          BY <2>1, <5>2, Unseen
      <4>3. QED
        BY <4>1, <4>2
    <3>3. CASE HandleFailure(t)
      <4>1. CASE result' # result
        BY <1>1, <2>1, <3>3, <4>1, FailureAborts DEF Update!UpdateNext
      <4>2. CASE result' = result
        <5>1. UNCHANGED <<fw_version, result, boot>>
          BY <3>3, <4>2 DEF HandleFailure, Crash, extVars
        <5>2. QED
          BY <2>1, <5>1, Unseen
      <4>3. QED
        BY <4>1, <4>2
    <3>4. ~Stop
      BY <1>1 DEF Stop, Quiet
    <3>5. QED
      BY <2>4, <3>1, <3>2, <3>3, <3>4 DEF Handler
  <2>5. QED
    BY <1>1, <2>2, <2>3, <2>4 DEF Next
<1>2. ASSUME Next, ~Quiet
      PROVE  UNCHANGED Update!uvars
  BY <1>2, NotQuiet DEF Next
<1>3. ASSUME UNCHANGED vars
      PROVE  UNCHANGED Update!uvars
  BY <1>3, Unseen DEF vars, extVars, endVars, envVars
<1>4. QED
  BY <1>1, <1>2, <1>3

(* A quiet update implements FirmwareUpdate: after it began, it ends with  *)
(* one callback, success exactly if its complete image boots next.         *)
THEOREM UpdateImplemented ==
  ASSUME ChunkRetries # 0
  PROVE  Spec => ImplementsUpdate
<1>1. Init => Update!UpdateInit
  BY DEF Init, Update!UpdateInit
<1>2. Init => QInv
  BY InitQInv
<1>3. OInv /\ QInv /\ [Next]_vars => QInv'
  BY NextQInv
<1>4. OInv /\ QInv /\ [Next]_vars => [Update!UpdateNext]_(Update!uvars)
  BY StepRefines
<1>5. QED
  BY <1>1, <1>2, <1>3, <1>4, Invariance, PTL DEF Spec, ImplementsUpdate, Update!UpdateSpec
=============================================================================
