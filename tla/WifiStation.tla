---------------------------- MODULE WifiStation ----------------------------
(***************************************************************************)
(* The Wi-Fi station (src/main/include/wifi/wifi_def.c): the event handler *)
(* with its retry counter, and the event group that wifi_init_sta waits    *)
(* for.  An event and the handler's response are one step; events come     *)
(* while app_main waits and ever after.                                    *)
(***************************************************************************)
EXTENDS Integers

CONSTANT EXAMPLE_ESP_MAXIMUM_RETRY
ASSUME RetryAssumption == EXAMPLE_ESP_MAXIMUM_RETRY \in Nat

VARIABLES
  sta,          \* off; connecting; associated, with no address yet; online;
                \* idle: nothing is under way and nothing will be
  s_retry_num,
  bits,         \* WIFI_CONNECTED_BIT, WIFI_FAIL_BIT of s_wifi_event_group
  failures      \* history: disconnections since the last address

wifiVars == <<sta, s_retry_num, bits, failures>>

WifiTypeOK == /\ sta \in {"off", "connecting", "associated", "online", "idle"}
              /\ s_retry_num \in 0 .. EXAMPLE_ESP_MAXIMUM_RETRY
              /\ bits \subseteq {"CONNECTED", "FAIL"}
              /\ failures \in Nat

WifiInit == sta = "off" /\ s_retry_num = 0 /\ bits = {} /\ failures = 0

(* esp_wifi_connect(), whose result nobody looks at: without an ssid it may *)
(* refuse, and then there is no event.                                     *)
Connect(ssid) == sta' \in {"connecting"} \cup (IF ssid THEN {} ELSE {"idle"})

(* esp_wifi_start(), WIFI_EVENT_STA_START. *)
StaStart(ssid) == Connect(ssid) /\ UNCHANGED <<s_retry_num, bits, failures>>

Associate == /\ sta = "connecting"
             /\ sta' = "associated"
             /\ UNCHANGED <<s_retry_num, bits, failures>>

(* Mutants: the budget is for the whole boot; the waiting thread is not    *)
(* told of the failure.                                                    *)
GotIpOnBudget == /\ sta = "associated"
                 /\ sta' = "online"
                 /\ failures' = 0
                 /\ bits' = bits \cup {"CONNECTED"}
                 /\ UNCHANGED s_retry_num
StaDisconnectedSilent(ssid) ==
  /\ sta \in {"connecting", "associated", "online"}
  /\ failures' = failures + 1
  /\ IF s_retry_num < EXAMPLE_ESP_MAXIMUM_RETRY
     THEN Connect(ssid) /\ s_retry_num' = s_retry_num + 1
     ELSE sta' = "idle" /\ UNCHANGED s_retry_num
  /\ UNCHANGED bits

(* IP_EVENT_STA_GOT_IP *)
GotIp == /\ sta = "associated"
         /\ sta' = "online"
         /\ s_retry_num' = 0 /\ failures' = 0
         /\ bits' = bits \cup {"CONNECTED"}

(* WIFI_EVENT_STA_DISCONNECTED: an attempt failed, or the network is lost. *)
StaDisconnected(ssid) ==
  /\ sta \in {"connecting", "associated", "online"}
  /\ failures' = failures + 1
  /\ IF s_retry_num < EXAMPLE_ESP_MAXIMUM_RETRY
     THEN Connect(ssid) /\ s_retry_num' = s_retry_num + 1 /\ UNCHANGED bits
     ELSE sta' = "idle" /\ bits' = bits \cup {"FAIL"} /\ UNCHANGED s_retry_num

(* wifi_init_softap: WIFI_MODE_AP ends the station. *)
StaStop == sta' = "off" /\ UNCHANGED <<s_retry_num, bits, failures>>
=============================================================================
