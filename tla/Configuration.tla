--------------------------- MODULE Configuration ---------------------------
(***************************************************************************)
(* config.json and what a boot makes of it: init_config of domohelios.cpp  *)
(* and check_and_dump_cfg of json_read_DH_cfg.c.                           *)
(*                                                                         *)
(* check_and_dump_cfg goes through the document in a fixed order and       *)
(* returns at the first member that is missing or of the wrong type; what  *)
(* it has copied until then stays in sys_conf.  A document is a record:    *)
(* how many members it has before the first bad one, and the contents that *)
(* the rest of the program depends on.                                     *)
(***************************************************************************)
EXTENDS Integers, Sequences

CONSTANTS Documents,  \* the complete config.json files there are, by name
          Document    \* what is in each: [good, ssid, ldr, servo]

(* In the order of the code; of the Wi-Fi list only the first entry is ever *)
(* used, and it is stored before the next one is looked at.                *)
Members == <<"Base", "WIFI_AP", "WIFI[0]", "WIFI", "ThingsBoard", "Panel", "LDR", "Servo">>

ServoEntries == [max_rotation : Int, can_reverse_logic : BOOLEAN]

ASSUME ConfigurationAssumption ==
  /\ "absent" \notin Documents /\ "partial" \notin Documents
  /\ \A d \in Documents : /\ Document[d].good \in 0 .. Len(Members)
                          /\ Document[d].ssid \in BOOLEAN
                          /\ Document[d].ldr \in Nat
                          /\ Document[d].servo \in Seq(ServoEntries)

VARIABLE sys_conf

Zeroed == [ssid |-> FALSE, LDR_count |-> 0, servo |-> <<>>]

AtMost(n, bound) == IF n < bound THEN n ELSE bound

Reads(d, member) == \E i \in 1 .. Document[d].good : Members[i] = member

check_and_dump_cfg(d) ==
  [ssid      |-> Document[d].ssid /\ Reads(d, "WIFI[0]"),
   LDR_count |-> IF Reads(d, "LDR") THEN AtMost(Document[d].ldr, 5) ELSE 0,
   servo     |-> IF Reads(d, "Servo")
                 THEN SubSeq(Document[d].servo, 1, AtMost(Len(Document[d].servo), 4)) ELSE <<>>]

(* What a boot loads from the file: no object is complete before its last  *)
(* brace, so cJSON_Parse gives NULL for part of a document, and nothing is *)
(* copied.                                                                 *)
Loads(file) == IF file \in Documents THEN check_and_dump_cfg(file) ELSE Zeroed

ConfigurationInit == sys_conf = Zeroed
InitConfig(file)  == sys_conf' = Loads(file)
=============================================================================
