------------------------------ MODULE TbClient ------------------------------
(***************************************************************************)
(* The ThingsBoard client (src/main/include/thingsboard/ThingsBoard.h over *)
(* Espressif_MQTT_Client.cpp): subscriptions that last, requests that wait *)
(* for one answer, and the connection under them.                          *)
(*                                                                         *)
(* Three tasks use it without a lock: an application thread, publish_loop, *)
(* which reconnects, and the MQTT event task, which dispatches answers.    *)
(* Only the calls into the MQTT library are excluded, by the library's own *)
(* lock, while the event task runs a handler: Free.  What one task does in *)
(* a vector is cut into the accesses it makes, and those of two tasks may  *)
(* come in any order.  Two at once, back() of an empty vector or a clear   *)
(* under a callback that is called are undefined behaviour: the behaviour  *)
(* of the model ends there.                                                *)
(*                                                                         *)
(* RPC requests, attribute requests and provisioning share one shape: a    *)
(* vector of callbacks with ids and a topic that is subscribed before a    *)
(* request and left when the vector is empty.  Provisioning has a single   *)
(* callback and no ids: a table of one, and the id 0.                      *)
(***************************************************************************)
EXTENDS Naturals, Sequences, SequencesExt

CONSTANTS Requests,   \* every request of a behaviour, numbered as they are made
          Kind,       \* the table each goes to
          MaxFields,  \* MaxFieldsAmt: what the vectors have reserved
          Uses,       \* the ways the client is used: [with, requests, calls], where with
                      \* holds what complicates things,
                      \*   "racing": the application calls while messages are handled,
                      \*   "reentrant": callbacks make requests,
                      \*   "lossy": connections, answers and library calls may fail,
                      \* and the others are bounds: the requests that may be made, and
                      \* the number of registrations and cleanups
          MaxFaults   \* bound: connections lost, and calls that failed on one

Kinds   == {"rpcRequest", "attributes", "provision"}
Lasting == {"rpc", "shared"}   \* RPC_SUBSCRIBE_TOPIC, ATTRIBUTE_TOPIC
Topics  == Kinds \cup Lasting
LastingOrder == <<"rpc", "shared">>
CleanupOrder == <<"rpc", "rpcRequest", "shared", "attributes", "provision">>

ASSUME ClientAssumption == /\ Requests \subseteq Nat \ {0} /\ Kind \in [Requests -> Kinds]
                           /\ Uses \subseteq [with : SUBSET {"racing", "reentrant", "lossy"},
                                             requests : SUBSET Requests, calls : Nat]
                           /\ MaxFields \in Nat \ {0} /\ MaxFaults \in Nat

VARIABLES
  \* ThingsBoardSized
  registered,   \* which of m_rpc_callbacks, m_shared_attribute_update_callbacks are not empty
  table,        \* the vectors of request callbacks: [req, id]
  m_request_id,
  \* its callers
  call,         \* step of a call, its request, the slot and the id it holds,
                \* and the topics it has yet to leave
  resub,        \* publish_loop: topic Resubscribe_Topics is at, 0 outside
  handler,      \* the event task: step, table, slot in hand
  \* esp-mqtt and the broker
  link,         \* off, init (connecting), up, wait (for the next attempt)
  subs,         \* topics the broker sends to this session
  net,          \* answers the server gives, not yet delivered
  faults, calls,\* towards MaxFaults and use.calls
  use,          \* rigid: how the client is used, one of Uses
  \* history
  phase,        \* of each request
  stranded,     \* topics last subscribed in a connection that ended since
  restored,     \* connect() returned true for the present connection
  crashed       \* what the program did is undefined

tbVars   == <<registered, table, m_request_id>>
mqttVars == <<link, subs, net>>
useVars  == <<use, faults, calls>>
pastVars == <<phase, stranded, restored, crashed>>
vars == <<tbVars, call, resub, handler, mqttVars, useVars, pastVars>>

serial    == "racing" \notin use.with
reentrant == "reentrant" \in use.with
stable    == "lossy" \notin use.with

Callers == {"app", "mqtt"}
NoRequest == 0
Idle == [pc |-> "idle", req |-> NoRequest, slot |-> 0, id |-> 0, topic |-> "rpc", leave |-> <<>>]
NoHandler == [pc |-> "idle", kind |-> "attributes", slot |-> 0]
Phases == {"new", "asking", "refused", "sent", "answered", "dropped", "confused"}

Slot == [req : Requests, id : Nat]
RequestSteps == {"subscribe", "push", "back", "number", "send"}
CallSteps == {"idle"} \cup RequestSteps \cup {"enter", "insert", "clear", "leave"}
Call == [pc : CallSteps, req : Requests \cup {NoRequest}, slot : Nat, id : Nat,
         topic : Topics, leave : Seq(Topics)]
HandlerType == [pc : {"idle", "callback", "test", "clear", "unsubscribe"}, kind : Kinds, slot : Nat]
Answers == [kind : Kinds, id : Nat, req : Requests]

(* The application and the callbacks cannot both be in a request. *)
OneCaller == serial \/ ~reentrant

(* The types, and the vectors stay within what they have reserved: two     *)
(* requests at once could both pass the test for it.                       *)
TypeOK ==
  /\ registered \subseteq Lasting
  /\ table \in [Kinds -> Seq(Slot)]
  /\ OneCaller => \A k \in Kinds : Len(table[k]) <= MaxFields
  /\ m_request_id \in Nat
  /\ call \in [Callers -> Call]
  /\ resub \in 0 .. Len(LastingOrder)
  /\ handler \in HandlerType
  /\ link \in {"off", "init", "up", "wait"} /\ subs \subseteq Topics
  /\ net \subseteq Answers
  /\ use \in Uses /\ faults \in 0 .. MaxFaults /\ calls \in 0 .. use.calls
  /\ phase \in [Requests -> Phases] /\ stranded \subseteq Topics
  /\ restored \in BOOLEAN /\ crashed \in BOOLEAN

Init == /\ registered = {} /\ table = [k \in Kinds |-> <<>>]
        /\ m_request_id = 0
        /\ call = [t \in Callers |-> Idle] /\ resub = 0 /\ handler = NoHandler
        /\ link = "off" /\ subs = {} /\ net = {}
        /\ use \in Uses /\ faults = 0 /\ calls = 0
        /\ phase = [r \in Requests |-> "new"]
        /\ stranded = {} /\ restored = FALSE /\ crashed = FALSE
-----------------------------------------------------------------------------
(* The MQTT library.  A call waits while the event task runs a handler,    *)
(* unless the handler makes it.                                            *)
Free(t) == t = "mqtt" \/ handler.pc = "idle"

(* It fails without a connection, and may fail with one. *)
Result(ok) == /\ ok => link = "up"
              /\ IF ok \/ link # "up" THEN UNCHANGED faults
                 ELSE ~stable /\ faults < MaxFaults /\ faults' = faults + 1

Subscribe(k, ok) == /\ Result(ok)
                    /\ subs' = IF ok THEN subs \cup {k} ELSE subs
                    /\ stranded' = IF ok THEN stranded \ {k} ELSE stranded
Unsubscribe(k) == \E ok \in BOOLEAN : /\ Result(ok)
                                      /\ subs' = IF ok THEN subs \ {k} ELSE subs

Step(t, pc) == call' = [call EXCEPT ![t].pc = pc]
End(t)      == call' = [call EXCEPT ![t] = Idle]
Becomes(r, p) == phase' = [phase EXCEPT ![r] = p]

MayCall(t) == /\ call[t].pc = "idle"
              /\ IF t = "app" THEN serial => handler.pc = "idle"
                              ELSE reentrant /\ handler.pc = "callback"

(* The connection is made, refused, lost; the library tries again by itself. *)
Attempt ==
  /\ link = "init"
  /\ link' \in {"up", "wait"}
  /\ UNCHANGED <<tbVars, call, resub, handler, subs, net, useVars, pastVars>>

(* The broker forgets the subscriptions of the session with the connection. *)
Disconnect ==
  /\ link = "up" /\ ~stable /\ handler.pc = "idle" /\ faults < MaxFaults
  /\ faults' = faults + 1
  /\ link' = "wait" /\ subs' = {}
  /\ stranded' = stranded \cup subs
  /\ restored' = FALSE
  /\ UNCHANGED <<tbVars, call, resub, handler, net, use, calls, phase, crashed>>

AutoReconnect ==
  /\ link = "wait"
  /\ link' = "init"
  /\ UNCHANGED <<tbVars, call, resub, handler, subs, net, useVars, pastVars>>

(* send_telemetry: if (!connected()) connect().  The first call starts the *)
(* client, a later one hurries a waiting client up.  Neither waits for the *)
(* connection, and Resubscribe_Topics follows at once.                     *)
Connect ==
  /\ resub = 0 /\ link \in {"off", "wait"}
  /\ link' = "init" /\ restored' = TRUE /\ resub' = 1
  /\ UNCHANGED <<tbVars, call, handler, subs, net, useVars, phase, stranded, crashed>>

(* empty() is asked where the subscription is made.  Callbacks given up in *)
(* between would leave a subscription nobody needs, which no property is   *)
(* about.                                                                  *)
Resubscribe ==
  /\ resub # 0
  /\ LET k == LastingOrder[resub]
     IN IF k \notin registered
        THEN UNCHANGED <<subs, stranded, faults>>
        ELSE Free("app") /\ \E ok \in BOOLEAN : Subscribe(k, ok)
  /\ resub' = IF resub = Len(LastingOrder) THEN 0 ELSE resub + 1
  /\ UNCHANGED <<tbVars, call, handler, link, net, use, calls, phase, restored, crashed>>
-----------------------------------------------------------------------------
(* RPC_Subscribe, Shared_Attributes_Subscribe: there may not be room for   *)
(* the callbacks; then the subscription, then the insertion.               *)
RegisterCallbacks(k) ==
  /\ MayCall("app")
  /\ calls < use.calls /\ calls' = calls + 1
  /\ call' = [call EXCEPT !["app"] = [Idle EXCEPT !.pc = "enter", !.topic = k]]
  /\ UNCHANGED <<tbVars, resub, handler, mqttVars, use, faults, pastVars>>

EnterTopic ==
  /\ call["app"].pc = "enter" /\ Free("app")
  /\ \E ok \in BOOLEAN : /\ Subscribe(call["app"].topic, ok)
                         /\ IF ok THEN Step("app", "insert") ELSE End("app")
  /\ UNCHANGED <<tbVars, resub, handler, link, net, use, calls, phase, restored, crashed>>

Insert ==
  /\ call["app"].pc = "insert"
  /\ registered' = registered \cup {call["app"].topic}
  /\ End("app")
  /\ UNCHANGED <<table, m_request_id, resub, handler, mqttVars, useVars, pastVars>>

(* RPC_Unsubscribe, Shared_Attributes_Unsubscribe; Cleanup_Subscriptions,  *)
(* which leaves every topic (its last call is OtaHandler's Stop).          *)
Unregister(topics) ==
  /\ MayCall("app")
  /\ calls < use.calls /\ calls' = calls + 1
  /\ call' = [call EXCEPT !["app"] = [Idle EXCEPT !.pc = "clear", !.leave = topics]]
  /\ UNCHANGED <<tbVars, resub, handler, mqttVars, use, faults, pastVars>>

(* The requests whose callbacks are cleared will not hear of their answers. *)
Forgotten(k) == [r \in Requests |->
                   IF phase[r] = "sent" /\ \E i \in DOMAIN table[k] : table[k][i].req = r
                   THEN "dropped" ELSE phase[r]]
Forget(k) == table' = [table EXCEPT ![k] = <<>>] /\ phase' = Forgotten(k)

(* A callback that is being called must not go.                            *)
ClearTopic ==
  /\ call["app"].pc = "clear"
  /\ LET k == Head(call["app"].leave)
     IN IF k \in Lasting
        THEN registered' = registered \ {k} /\ UNCHANGED <<table, phase, crashed>>
        ELSE /\ Forget(k) /\ UNCHANGED registered
             /\ crashed' = (handler.pc = "callback" /\ handler.kind = k)
  /\ Step("app", "leave")
  /\ UNCHANGED <<m_request_id, resub, handler, mqttVars, useVars, stranded, restored>>

LeaveTopic ==
  /\ call["app"].pc = "leave" /\ Free("app")
  /\ Unsubscribe(Head(call["app"].leave))
  /\ LET rest == Tail(call["app"].leave)
     IN IF rest = <<>> THEN End("app")
        ELSE call' = [call EXCEPT !["app"].pc = "clear", !["app"].leave = rest]
  /\ UNCHANGED <<tbVars, resub, handler, link, net, use, calls, pastVars>>
-----------------------------------------------------------------------------
(* RPC_Request, Attributes_Request, Provision_Request.  First the reserved *)
(* capacity, for those that have a vector.  The mutant is off by one.      *)
FullLate(k) == k # "provision" /\ Len(table[k]) > MaxFields
Full(k) == k # "provision" /\ Len(table[k]) + 1 > MaxFields

Request(t, r) ==
  /\ MayCall(t) /\ phase[r] = "new" /\ r \in use.requests
  /\ \A q \in Requests : q < r /\ Kind[q] = Kind[r] => phase[q] # "new" \* by symmetry
  /\ IF Full(Kind[r])
     THEN Becomes(r, "refused") /\ UNCHANGED call
     ELSE /\ Becomes(r, "asking")
          /\ call' = [call EXCEPT ![t] = [Idle EXCEPT !.pc = "subscribe", !.req = r]]
  /\ UNCHANGED <<tbVars, resub, handler, mqttVars, useVars, stranded, restored, crashed>>

SubscribeAnswer(t) ==
  /\ call[t].pc = "subscribe" /\ Free(t)
  /\ LET r == call[t].req
     IN \E ok \in BOOLEAN :
          /\ Subscribe(Kind[r], ok)
          /\ IF ok THEN Step(t, "push") /\ UNCHANGED phase
                   ELSE End(t) /\ Becomes(r, "refused")
  /\ UNCHANGED <<tbVars, resub, handler, link, net, use, calls, restored, crashed>>

(* push_back.  There is one m_provision_callback, which a second request   *)
(* overwrites.                                                             *)
PushBack(t) ==
  /\ call[t].pc = "push"
  /\ LET r == call[t].req
         k == Kind[r]
         new == [req |-> r, id |-> 0]
     IN IF k = "provision"
        THEN /\ phase' = Forgotten(k)
             /\ table' = [table EXCEPT ![k] = <<new>>]
             /\ Step(t, "send")
        ELSE /\ table' = [table EXCEPT ![k] = Append(@, new)]
             /\ Step(t, "back")
             /\ UNCHANGED phase
  /\ UNCHANGED <<registered, m_request_id, resub, handler, mqttVars, useVars, stranded, restored,
                 crashed>>

(* &back(): the caller keeps the address of what is now the last slot.  An *)
(* empty vector has none.                                                  *)
Back(t) ==
  /\ call[t].pc = "back"
  /\ LET n == Len(table[Kind[call[t].req]])
     IN /\ call' = [call EXCEPT ![t].pc = "number", ![t].slot = n]
        /\ crashed' = (n = 0)
  /\ UNCHANGED <<tbVars, resub, handler, mqttVars, useVars, phase, stranded, restored>>

(* Mutant: Set_Request_ID(m_request_id++). *)
SetRequestIdOld(t) ==
  /\ call[t].pc = "number"
  /\ m_request_id' = m_request_id + 1
  /\ LET k == Kind[call[t].req]
         i == call[t].slot
     IN table' = IF i \in DOMAIN table[k] THEN [table EXCEPT ![k][i].id = m_request_id] ELSE table
  /\ call' = [call EXCEPT ![t].pc = "send", ![t].id = m_request_id']
  /\ UNCHANGED <<registered, resub, handler, mqttVars, useVars, pastVars>>

(* m_request_id++, Set_Request_ID through the address, and the topic with  *)
(* the id.  Should the vector have shrunk below the slot, the write hits   *)
(* reserved memory that is not in use.  The counter has no other writer:   *)
(* the two are one step.                                                   *)
SetRequestId(t) ==
  /\ call[t].pc = "number"
  /\ m_request_id' = m_request_id + 1
  /\ LET k == Kind[call[t].req]
         i == call[t].slot
     IN table' = IF i \in DOMAIN table[k] THEN [table EXCEPT ![k][i].id = m_request_id'] ELSE table
  /\ call' = [call EXCEPT ![t].pc = "send", ![t].id = m_request_id']
  /\ UNCHANGED <<registered, resub, handler, mqttVars, useVars, pastVars>>

(* Send_Json: it may be too big for the buffer, or the publication fails;  *)
(* the slot stays, as it does when nothing ever answers.                   *)
(* What was published may be lost on its way, or its answer.               *)
SendJson(t) ==
  /\ call[t].pc = "send" /\ Free(t)
  /\ LET r == call[t].req
         answer == [kind |-> Kind[r], id |-> call[t].id, req |-> r]
     IN \/ Becomes(r, "refused") /\ UNCHANGED net
        \/ /\ link = "up"
           /\ Becomes(r, "sent")
           /\ net' \in {net \cup {answer}} \cup (IF stable THEN {} ELSE {net})
  /\ End(t)
  /\ UNCHANGED <<tbVars, resub, handler, link, subs, useVars, stranded, restored, crashed>>

RequestStep(t) == \/ SubscribeAnswer(t) \/ PushBack(t) \/ Back(t) \/ SetRequestId(t)
                  \/ SendJson(t)
AppStep == EnterTopic \/ Insert \/ ClearTopic \/ LeaveTopic
-----------------------------------------------------------------------------
(* onMQTTMessage, process_rpc_request_message and the like: the first slot *)
(* with the id of the answer, and its callback.  An answer for a topic the *)
(* session left may be under way still.  Answers carry data: without any   *)
(* the slot would go with no call.  The mutant takes the first slot.       *)
MatchingAny(k, id) == DOMAIN table[k]
Matching(k, id) == {i \in DOMAIN table[k] : table[k][i].id = id}

Deliver(a) ==
  /\ handler.pc = "idle" /\ link = "up"
  /\ serial => call["app"].pc = "idle"
  /\ net' = net \ {a}
  /\ \/ a.kind \notin subs /\ UNCHANGED <<handler, phase>>
     \/ /\ Matching(a.kind, a.id) = {} /\ UNCHANGED phase
        /\ handler' = [pc |-> IF a.kind = "provision" THEN "clear" ELSE "test",
                       kind |-> a.kind, slot |-> 0]
     \/ \E i \in Matching(a.kind, a.id) :
          /\ \A j \in Matching(a.kind, a.id) : i <= j
          /\ handler' = [pc |-> "callback", kind |-> a.kind, slot |-> i]
          /\ Becomes(table[a.kind][i].req,
                     IF table[a.kind][i].req = a.req THEN "answered" ELSE "confused")
  /\ UNCHANGED <<tbVars, call, resub, link, subs, useVars, stranded, restored, crashed>>

(* Mutants: the slot is kept; the topic is left after every answer. *)
RemoveCallbackNot ==
  /\ handler.pc = "callback" /\ call["mqtt"].pc = "idle"
  /\ handler' = [handler EXCEPT !.pc = IF handler.kind = "provision" THEN "clear" ELSE "test"]
  /\ UNCHANGED <<tbVars, call, resub, mqttVars, useVars, pastVars>>
TestEmptyNot ==
  /\ handler.pc = "test"
  /\ handler' = [handler EXCEPT !.pc = "unsubscribe"]
  /\ UNCHANGED <<tbVars, call, resub, mqttVars, useVars, pastVars>>

(* The callback has returned: Helper::remove(i).  The provisioning         *)
(* callback is cleared with its topic instead.                             *)
RemoveCallback ==
  /\ handler.pc = "callback" /\ call["mqtt"].pc = "idle"
  /\ IF handler.kind = "provision"
     THEN handler' = [handler EXCEPT !.pc = "clear"] /\ UNCHANGED table
     ELSE /\ handler' = [handler EXCEPT !.pc = "test"]
          /\ table' = [table EXCEPT ![handler.kind] = RemoveAt(@, handler.slot)]
  /\ UNCHANGED <<registered, m_request_id, call, resub, mqttVars, useVars, pastVars>>

(* The last one out: clear() and unsubscribe(). *)
TestEmpty ==
  /\ handler.pc = "test"
  /\ handler' = IF table[handler.kind] = <<>> THEN [handler EXCEPT !.pc = "clear"] ELSE NoHandler
  /\ UNCHANGED <<tbVars, call, resub, mqttVars, useVars, pastVars>>

ClearTable ==
  /\ handler.pc = "clear"
  /\ Forget(handler.kind)
  /\ handler' = [handler EXCEPT !.pc = "unsubscribe"]
  /\ UNCHANGED <<registered, m_request_id, call, resub, mqttVars, useVars, stranded, restored, crashed>>

LeaveAnswers ==
  /\ handler.pc = "unsubscribe"
  /\ Unsubscribe(handler.kind)
  /\ handler' = NoHandler
  /\ UNCHANGED <<tbVars, call, resub, link, net, use, calls, pastVars>>

HandlerStep == RemoveCallback \/ TestEmpty \/ ClearTable \/ LeaveAnswers
-----------------------------------------------------------------------------
(* Whose next step reads or writes a table.  The test for room is left     *)
(* out: it takes in a single word.                                         *)
InTable(t, k) == call[t].pc \in {"push", "back", "number"} /\ Kind[call[t].req] = k
AppAt(k)  == InTable("app", k) \/ (call["app"].pc = "clear" /\ Head(call["app"].leave) = k)
MqttAt(k) ==
  \/ InTable("mqtt", k)
  \/ call["mqtt"].pc = "idle" /\ handler.pc \in {"callback", "test", "clear"} /\ handler.kind = k
  \/ handler.pc = "idle" /\ link = "up" /\ k \in subs /\ \E a \in net : a.kind = k

(* The application and the event task are in the same table at once.       *)
Race ==
  /\ ~serial
  /\ \E k \in Kinds : AppAt(k) /\ MqttAt(k)
  /\ crashed' = TRUE
  /\ UNCHANGED <<tbVars, call, resub, handler, mqttVars, useVars, phase, stranded, restored>>
-----------------------------------------------------------------------------
Network == Attempt \/ Disconnect \/ AutoReconnect
Publisher == Connect \/ Resubscribe

(* What is undefined is the end: the model does not look behind it. *)
Next == /\ ~crashed
        /\ \/ Network \/ Publisher
           \/ \E k \in Lasting : RegisterCallbacks(k) \/ Unregister(<<k>>)
           \/ Unregister(CleanupOrder) \/ AppStep
           \/ \E t \in Callers : RequestStep(t) \/ \E r \in Requests : Request(t, r)
           \/ \E a \in net : Deliver(a)
           \/ HandlerStep \/ Race

Spec == Init /\ [][Next]_vars

(* The tasks are scheduled, publish_loop looks at the connection again and *)
(* again, and the library makes its attempts; that one succeeds is not     *)
(* assumed.  The server answers what reached it.                           *)
FairSpec == /\ Spec
            /\ WF_vars(~crashed /\ Publisher) /\ WF_vars(~crashed /\ Attempt)
            /\ WF_vars(~crashed /\ AutoReconnect) /\ WF_vars(~crashed /\ AppStep)
            /\ \A t \in Callers : WF_vars(~crashed /\ RequestStep(t))
            /\ WF_vars(~crashed /\ \E a \in net : Deliver(a))
            /\ WF_vars(~crashed /\ HandlerStep)
-----------------------------------------------------------------------------
Pending(k) == \E i \in DOMAIN table[k] : phase[table[k][i].req] = "sent"

(* Provisioning from inside the provisioning callback is undone by the     *)
(* unsubscription that follows the callback (ThingsBoard.h:1879-1882).     *)
Supported(k) == serial /\ (k = "provision" => ~reentrant)

(* While calls and messages exclude each other, every topic something is   *)
(* waited for on is subscribed, unless its connection has ended since.     *)
(* The unsubscription that follows the last answer never hits a request    *)
(* made meanwhile (ThingsBoard.h:1592, 1869).                              *)
Listening == \A k \in Topics \ stranded :
               /\ Supported(k) /\ link = "up"
               /\ IF k \in Lasting THEN k \in registered ELSE Pending(k)
               => k \in subs

(* On a connection that holds, a table and its topic are released with     *)
(* the last answer: what occupies a slot at rest is waited for or was      *)
(* refused by the send buffer, and an empty table is not listened for.     *)
(* And with such calls two tasks never are in one vector at once.          *)
Released == /\ crashed => ~serial
            /\ \A k \in Kinds :
              serial /\ stable /\ handler.pc = "idle" /\ (\A t \in Callers : call[t].pc = "idle")
              => /\ \A i \in DOMAIN table[k] : phase[table[k][i].req] \in {"sent", "refused"}
                 /\ table[k] = <<>> => k \notin subs

(* Then a request that was sent is answered, through its own callback,     *)
(* whatever other requests come and go, unless they are all given up.      *)
Answered == \A r \in Requests :
              phase[r] = "sent" /\ Supported(Kind[r]) /\ stable ~> phase[r] \in {"answered", "dropped"}

(* Unless callbacks and the application both make requests, no callback    *)
(* gets the answer to another request, none is called twice and none after *)
(* a refusal, whatever is lost, and in whatever order the accesses of a    *)
(* call and of a handler come, up to the first that is undefined: nothing  *)
(* can be said of a program that clears a vector under a callback it is    *)
(* calling, or has two tasks in it at once.  Provisioning answers carry no *)
(* id and are not part of this promise.                                    *)
Tracked == {r \in Requests : Kind[r] # "provision"}
Promise == INSTANCE TbRequest WITH
             Requests <- Tracked,
             phase    <- [r \in Tracked |-> phase[r]]
ImplementsRequests == Promise!RequestSpec

(* connect() "now reconnects to all previously subscribed MQTT topics"     *)
(* (ThingsBoard.h:419), "if we connected successfully" (1428): once it     *)
(* has returned true, the RPCs of the application are heard again.  It     *)
(* returns before there is a connection and subscribes at once.            *)
ConnectResubscribes ==
  (restored /\ link = "up" /\ "rpc" \in registered)
    ~> ("rpc" \in subs \/ link # "up" \/ "rpc" \notin registered)
=============================================================================
