----------------------------- MODULE FileServer -----------------------------
(***************************************************************************)
(* The file server (src/main/include/server/as_server_server.c) and the    *)
(* file that outlives a reset, config.json.  httpd has one task, which     *)
(* handles one request at a time.                                          *)
(*                                                                         *)
(* Of the other files only an upload of wifi.csv matters, and not because  *)
(* anything ever reads the settings: it restarts the board.                *)
(***************************************************************************)
EXTENDS Configuration

VARIABLES
  disk,    \* config.json: a document, "partial" or "absent"
  httpd,   \* start_file_server: not tried, up, or failed with server_data set
  upload   \* upload_post_handler: its step, the file and what the client sends

fileVars == <<disk, httpd, upload>>

Uploads == [file : {"config"}, content : Documents]
           \cup [file : {"wifi"}, content : {"two fields", "malformed"}]
NoUpload == [file |-> "wifi", content |-> "malformed"]

FileTypeOK == /\ disk \in Documents \cup {"absent", "partial"}
              /\ httpd \in {"unset", "failed", "up"}
              /\ upload \in [pc : {"idle", "open", "receive", "close", "restart"}, what : Uploads]

FileInit == /\ disk \in Documents \cup {"absent"}
            /\ httpd = "unset" /\ upload = [pc |-> "idle", what |-> NoUpload]

(* After a failed httpd_start the static server_data is set, and a later   *)
(* call takes the server for started.  Memory for it is taken for granted. *)
start_file_server == /\ IF httpd = "unset" THEN httpd' \in {"up", "failed"} ELSE UNCHANGED httpd
                     /\ UNCHANGED <<disk, upload>>

Put(x) == disk' = IF upload.what.file = "config" THEN x ELSE disk
Goes(pc) == upload' = [upload EXCEPT !.pc = pc]
Done == upload' = [pc |-> "idle", what |-> NoUpload]

(* The old file goes first. *)
UploadBegin(what) ==
  /\ httpd = "up" /\ upload.pc = "idle"
  /\ disk' = IF what.file = "config" THEN "absent" ELSE disk
  /\ upload' = [pc |-> "open", what |-> what]
  /\ UNCHANGED httpd

(* Then the request may be refused, for its size or by fopen. *)
UploadOpen ==
  /\ upload.pc = "open"
  /\ \/ Done /\ UNCHANGED disk
     \/ Put("partial") /\ Goes("receive")
  /\ UNCHANGED httpd

(* The last piece arrives; those before it, and timeouts, which are        *)
(* retried for ever, change nothing here.  Until fclose the last bytes are *)
(* in the buffer or on the disk.                                           *)
UploadReceive ==
  /\ upload.pc = "receive"
  /\ \E x \in {"partial", upload.what.content} : Put(x)
  /\ Goes("close")
  /\ UNCHANGED httpd

(* The connection fails, or the disk is full: fclose and unlink. *)
UploadBroken ==
  /\ upload.pc = "receive"
  /\ Put("absent") /\ Done
  /\ UNCHANGED httpd

(* fclose; the file is read again, if it opens, and new Wi-Fi settings are *)
(* a reason to restart, after a second.  config.json is not looked at.     *)
UploadClose ==
  /\ upload.pc = "close"
  /\ Put(upload.what.content)
  /\ \/ Done
     \/ upload.what = [file |-> "wifi", content |-> "two fields"] /\ Goes("restart")
  /\ UNCHANGED httpd

(* delete_post_handler *)
DeleteFile ==
  /\ httpd = "up" /\ upload.pc = "idle"
  /\ disk # "absent"
  /\ disk' = "absent"
  /\ UNCHANGED <<httpd, upload>>

ServerStep == UploadOpen \/ UploadReceive \/ UploadBroken \/ UploadClose
=============================================================================
