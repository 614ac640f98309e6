------------------------------ MODULE TbProofs ------------------------------
(***************************************************************************)
(* The safety of the ThingsBoard client for every number of requests, size *)
(* of the vectors, number of failures and way of using it.                 *)
(*                                                                         *)
(* TInv says where the calls and the handler can be, and holds in every    *)
(* use; the other invariants are about uses that keep some calls apart.    *)
(***************************************************************************)
EXTENDS TbClient, SequenceTheorems, TLAPS

(* Whether a caller is in a request, and the table it is for. *)
Asks(t)  == call[t].pc \in RequestSteps
Table(t) == Kind[call[t].req]

InCall ==
  \A t \in Callers : /\ Asks(t) => call[t].req \in Requests
                     /\ call[t].pc \in {"enter", "insert"} => call[t].topic \in Lasting
                     /\ call[t].pc \in {"clear", "leave"} => call[t].leave # <<>>
                     /\ call[t].pc \in {"back", "number"} => Table(t) # "provision"

(* Callbacks make requests only, and the handler waits for them; an        *)
(* application that is apart from it does not call meanwhile.              *)
ByHandler == call["mqtt"].pc # "idle" => Asks("mqtt") /\ reentrant /\ handler.pc = "callback"
Excluded  == serial => handler.pc = "idle" \/ call["app"].pc = "idle"

OfTheirKind == /\ \A k \in Kinds : \A i \in DOMAIN table[k] : Kind[table[k][i].req] = k
               /\ \A a \in net : Kind[a.req] = a.kind

(* The slot whose callback is called stays, or the program is undefined. *)
Handled == ~crashed /\ handler.pc = "callback" /\ handler.kind # "provision"
           => handler.slot \in DOMAIN table[handler.kind]

(* What passed the test for room still has it. *)
Room == OneCaller => \A t \in Callers :
          call[t].pc \in {"subscribe", "push"} /\ Table(t) # "provision"
          => Len(table[Table(t)]) < MaxFields

TInv == TypeOK /\ InCall /\ ByHandler /\ Excluded /\ OfTheirKind /\ Handled /\ Room
-----------------------------------------------------------------------------
(* Helper::remove: the other elements move up. *)
LEMMA RemoveAtProperties ==
  ASSUME NEW S, NEW s \in Seq(S), NEW i \in 1 .. Len(s)
  PROVE  /\ RemoveAt(s, i) \in Seq(S)
         /\ Len(RemoveAt(s, i)) = Len(s) - 1
         /\ \A j \in 1 .. Len(s) - 1 : RemoveAt(s, i)[j] = s[IF j < i THEN j ELSE j + 1]
<1> DEFINE a == SubSeq(s, 1, i - 1)
           b == SubSeq(s, i + 1, Len(s))
<1>0. Len(s) \in Nat
  BY LenProperties
<1>1. a \in Seq(S) /\ Len(a) = i - 1 /\ \A j \in 1 .. i - 1 : a[j] = s[j]
  BY <1>0
<1>2. b \in Seq(S) /\ Len(b) = Len(s) - i /\ \A j \in 1 .. Len(s) - i : b[j] = s[i + j]
  BY <1>0
<1>3. RemoveAt(s, i) = a \o b
  BY DEF RemoveAt
<1> HIDE DEF a, b
<1>4. /\ a \o b \in Seq(S) /\ Len(a \o b) = Len(a) + Len(b)
      /\ \A j \in 1 .. Len(a) + Len(b) : (a \o b)[j] = IF j <= Len(a) THEN a[j] ELSE b[j - Len(a)]
  BY <1>1, <1>2, ConcatProperties
<1>5. QED
  BY <1>0, <1>1, <1>2, <1>3, <1>4

(* The tables and the calls have the types their elements have. *)
LEMMA IdleType == Idle \in Call /\ Idle.pc = "idle"
<1>1. <<>> \in Seq(Topics)
  BY EmptySeq
<1>2. QED
  BY <1>1 DEF Idle, Call, CallSteps, Topics, Lasting

(* A call that changes leaves the other one alone. *)
LEMMA CallStep ==
  ASSUME call \in [Callers -> Call], NEW t \in Callers, NEW c \in Call,
         call' = [call EXCEPT ![t] = c]
  PROVE  call' \in [Callers -> Call] /\ call'[t] = c /\ \A u \in Callers \ {t} : call'[u] = call[u]
  OBVIOUS

(* A step moves the call on and keeps what it carries. *)
LEMMA StepCall ==
  ASSUME call \in [Callers -> Call], NEW t \in Callers, NEW pc \in CallSteps, Step(t, pc)
  PROVE  /\ call' \in [Callers -> Call]
         /\ call'[t].pc = pc
         /\ call'[t].req = call[t].req /\ call'[t].topic = call[t].topic
         /\ call'[t].leave = call[t].leave
         /\ call'[t].slot = call[t].slot /\ call'[t].id = call[t].id
         /\ \A u \in Callers \ {t} : call'[u] = call[u]
  BY DEF Step, Call

(* A call that ends is idle. *)
LEMMA EndCall ==
  ASSUME call \in [Callers -> Call], NEW t \in Callers, End(t)
  PROVE  /\ call' \in [Callers -> Call]
         /\ call'[t] = Idle /\ call'[t].pc = "idle"
         /\ \A u \in Callers \ {t} : call'[u] = call[u]
  BY IdleType DEF End

(* One table changes, the others stay. *)
LEMMA TableStep ==
  ASSUME table \in [Kinds -> Seq(Slot)], NEW k \in Kinds, NEW s \in Seq(Slot),
         table' = [table EXCEPT ![k] = s]
  PROVE  table' \in [Kinds -> Seq(Slot)] /\ table'[k] = s /\ \A j \in Kinds \ {k} : table'[j] = table[j]
  OBVIOUS

(* One request changes its phase, the others keep theirs. *)
LEMMA PhaseStep ==
  ASSUME phase \in [Requests -> Phases], NEW r \in Requests, NEW p \in Phases, Becomes(r, p)
  PROVE  /\ phase' \in [Requests -> Phases]
         /\ phase'[r] = p /\ \A q \in Requests \ {r} : phase'[q] = phase[q]
  BY DEF Becomes

(* Clearing a table forgets what was sent from it and nothing else. *)
LEMMA ForgetPhase ==
  ASSUME TypeOK, NEW k \in Kinds, phase' = Forgotten(k)
  PROVE  /\ phase' \in [Requests -> Phases]
         /\ \A r \in Requests :
              phase'[r] = IF phase[r] = "sent" /\ \E i \in DOMAIN table[k] : table[k][i].req = r
                          THEN "dropped" ELSE phase[r]
  BY DEF Forgotten, TypeOK, Phases

(* The modes of a use stay. *)
LEMMA SameUse ==
  ASSUME UNCHANGED use
  PROVE  (serial' <=> serial) /\ (reentrant' <=> reentrant) /\ (stable' <=> stable)
         /\ (OneCaller' <=> OneCaller)
  BY DEF serial, reentrant, stable, OneCaller

(* The topics a subscription leaves to be heard. *)
LEMMA SubscribeStep ==
  ASSUME TypeOK, NEW k \in Topics, NEW ok \in BOOLEAN, Subscribe(k, ok)
  PROVE  /\ subs' \subseteq Topics /\ stranded' \subseteq Topics /\ faults' \in 0 .. MaxFaults
         /\ subs \cup stranded \subseteq subs' \cup stranded'
         /\ ok => link = "up" /\ k \in subs' /\ subs' = subs \cup {k}
         /\ ~ok => subs' = subs /\ stranded' = stranded
  BY ClientAssumption DEF TypeOK, Subscribe, Result

(* The topics an unsubscription leaves: it may fail, but never without     *)
(* cause on a connection that holds.                                       *)
LEMMA UnsubscribeStep ==
  ASSUME TypeOK, NEW k \in Topics, Unsubscribe(k)
  PROVE  /\ subs' \subseteq Topics /\ faults' \in 0 .. MaxFaults
         /\ subs \ {k} \subseteq subs' /\ subs' \subseteq subs
         /\ stable /\ link = "up" => k \notin subs'
  BY ClientAssumption DEF TypeOK, Unsubscribe, Result

(* When the callers exclude each other only one of them is in a request. *)
LEMMA OneAtATime ==
  ASSUME TInv, OneCaller, NEW t \in Callers, NEW u \in Callers, Asks(t), Asks(u)
  PROVE  t = u
  BY DEF TInv, ByHandler, Excluded, OneCaller, Callers, Asks, RequestSteps
-----------------------------------------------------------------------------
(* Nobody calls, no message is handled and the tables are empty. *)
LEMMA InitTInv == Init => TInv
<1>1. SUFFICES ASSUME Init PROVE TInv
  OBVIOUS
<1>2. /\ call \in [Callers -> Call] /\ \A t \in Callers : call[t].pc = "idle"
      /\ handler \in HandlerType /\ handler.pc = "idle"
  BY <1>1, IdleType DEF Init, NoHandler, HandlerType, Kinds
<1>3. /\ table \in [Kinds -> Seq(Slot)]
      /\ \A k \in Kinds : Len(table[k]) = 0 /\ DOMAIN table[k] = {}
  <2>1. <<>> \in Seq(Slot) /\ Len(<<>>) = 0
    BY EmptySeq
  <2>2. DOMAIN <<>> = {}
    OBVIOUS
  <2>3. QED
    BY <1>1, <2>1, <2>2 DEF Init
<1>4. TypeOK
  <2>1. 0 \in 0 .. Len(LastingOrder)
    BY DEF LastingOrder
  <2>2. 0 \in 0 .. MaxFaults /\ 0 \in 0 .. use.calls /\ 0 <= MaxFields
    BY <1>1, ClientAssumption DEF Init
  <2>3. QED
    BY <1>1, <1>2, <1>3, <2>1, <2>2 DEF Init, TypeOK, Phases
<1>5. QED
  BY <1>1, <1>2, <1>3, <1>4
     DEF Init, TInv, InCall, ByHandler, Excluded, OfTheirKind, Handled, Room, Asks, RequestSteps, Callers

(* What leaves the tables, the calls, the handler and the answers alone    *)
(* need only keep the types.                                               *)
LEMMA TFrame ==
  ASSUME TInv, UNCHANGED <<table, call, handler, net, use>>, crashed => crashed', TypeOK'
  PROVE  TInv'
  BY SameUse DEF TInv, InCall, ByHandler, Excluded, OfTheirKind, Handled, Room, Asks, Table

(* The connection comes and goes without the calls. *)
LEMMA NetworkTInv == TInv /\ Network => TInv'
<1>1. SUFFICES ASSUME TInv, Network PROVE TInv'
  OBVIOUS
<1>2. /\ UNCHANGED <<table, call, handler, net, use, registered, m_request_id, resub, calls,
                     phase, crashed>>
      /\ link' \in {"off", "init", "up", "wait"}
      /\ subs' \subseteq Topics /\ stranded' \subseteq Topics
      /\ restored' \in BOOLEAN /\ faults' \in 0 .. MaxFaults
  <2>1. CASE Attempt
    BY <1>1, <2>1 DEF Attempt, tbVars, useVars, pastVars, TInv, TypeOK
  <2>2. CASE AutoReconnect
    BY <1>1, <2>2 DEF AutoReconnect, tbVars, useVars, pastVars, TInv, TypeOK
  <2>3. CASE Disconnect
    <3>1. faults \in 0 .. MaxFaults /\ faults < MaxFaults => faults + 1 \in 0 .. MaxFaults
      BY ClientAssumption
    <3>2. QED
      BY <1>1, <2>3, <3>1 DEF Disconnect, tbVars, TInv, TypeOK
  <2>4. QED
    BY <1>1, <2>1, <2>2, <2>3 DEF Network
<1>3. TypeOK'
  BY <1>1, <1>2, SameUse DEF TInv, TypeOK
<1>4. QED
  BY <1>1, <1>2, <1>3, TFrame

(* So do publish_loop and its resubscriptions; they only take faults. *)
LEMMA PublisherTInv == TInv /\ Publisher => TInv'
<1>1. SUFFICES ASSUME TInv, Publisher PROVE TInv'
  OBVIOUS
<1>2. UNCHANGED <<table, call, handler, net, use, registered, m_request_id, calls, phase, crashed>>
  BY <1>1 DEF Publisher, Connect, Resubscribe, tbVars, useVars
<1>3. LastingOrder \in [1 .. 2 -> Lasting] /\ Len(LastingOrder) = 2
  BY DEF LastingOrder, Lasting
<1>4. /\ resub' \in 0 .. Len(LastingOrder) /\ restored' \in BOOLEAN
      /\ link' \in {"off", "init", "up", "wait"}
      /\ subs' \subseteq Topics /\ stranded' \subseteq Topics /\ faults' \in 0 .. MaxFaults
  <2>1. CASE Connect
    BY <1>1, <1>3, <2>1 DEF Connect, useVars, TInv, TypeOK
  <2>2. CASE Resubscribe
    <3>1. LastingOrder[resub] \in Topics
      BY <1>1, <1>3, <2>2 DEF Resubscribe, TInv, TypeOK, Topics
    <3>2. subs' \subseteq Topics /\ stranded' \subseteq Topics /\ faults' \in 0 .. MaxFaults
      BY <1>1, <2>2, <3>1, SubscribeStep DEF Resubscribe, TInv, TypeOK
    <3>3. QED
      BY <1>1, <1>3, <2>2, <3>2 DEF Resubscribe, TInv, TypeOK
  <2>3. QED
    BY <1>1, <2>1, <2>2 DEF Publisher
<1>5. TypeOK'
  BY <1>1, <1>2, <1>4, SameUse DEF TInv, TypeOK
<1>6. QED
  BY <1>1, <1>2, <1>5, TFrame
-----------------------------------------------------------------------------
(* What changes one call only has to leave it where a call can be. *)
LEMMA TCall ==
  ASSUME TInv, TypeOK', UNCHANGED <<table, handler, net, use>>, crashed => crashed',
         NEW t \in Callers, \A u \in Callers \ {t} : call'[u] = call[u],
         call'[t].pc \in RequestSteps => call'[t].req \in Requests,
         call'[t].pc \in {"enter", "insert"} => call'[t].topic \in Lasting,
         call'[t].pc \in {"clear", "leave"} => call'[t].leave # <<>>,
         call'[t].pc \in {"back", "number"} => Kind[call'[t].req] # "provision",
         t = "mqtt" /\ call'[t].pc # "idle"
           => call'[t].pc \in RequestSteps /\ reentrant /\ handler.pc = "callback",
         t = "app" /\ serial /\ call'[t].pc # "idle" => handler.pc = "idle",
         OneCaller /\ call'[t].pc \in {"subscribe", "push"} /\ Kind[call'[t].req] # "provision"
           => Len(table[Kind[call'[t].req]]) < MaxFields
  PROVE  TInv'
<1>1. InCall'
  BY DEF TInv, InCall, Asks, Table
<1>2. ByHandler'
  <2>1. CASE t = "mqtt"
    BY <2>1, SameUse DEF ByHandler, Asks
  <2>2. CASE t # "mqtt"
    BY <2>2, SameUse DEF TInv, ByHandler, Asks, Callers
  <2>3. QED
    BY <2>1, <2>2
<1>3. Excluded'
  <2>1. CASE t = "app"
    BY <2>1, SameUse DEF Excluded
  <2>2. CASE t # "app"
    BY <2>2, SameUse DEF TInv, Excluded, Callers
  <2>3. QED
    BY <2>1, <2>2
<1>4. OfTheirKind'
  BY DEF TInv, OfTheirKind
<1>5. Room'
  BY SameUse DEF TInv, Room, Table
<1>6. Handled'
  BY DEF TInv, Handled
<1>7. QED
  BY <1>1, <1>2, <1>3, <1>4, <1>5, <1>6 DEF TInv

(* Calls begin where they may. *)
LEMMA MayCallAt ==
  ASSUME TInv, NEW t \in Callers, MayCall(t)
  PROVE  /\ t = "mqtt" => reentrant /\ handler.pc = "callback"
         /\ t = "app" /\ serial => handler.pc = "idle"
  BY DEF MayCall, Callers

(* A call that has begun is where it may be. *)
LEMMA InCallAt ==
  ASSUME TInv, NEW t \in Callers, call[t].pc # "idle"
  PROVE  /\ t = "mqtt" => Asks(t) /\ reentrant /\ handler.pc = "callback"
         /\ t = "app" /\ serial => handler.pc = "idle"
         /\ Asks(t) => call[t].req \in Requests /\ Table(t) \in Kinds
         /\ call[t].pc \in {"enter", "insert"} => call[t].topic \in Lasting
         /\ call[t].pc \in {"clear", "leave"} =>
              Head(call[t].leave) \in Topics /\ Tail(call[t].leave) \in Seq(Topics)
<1>1. call[t] \in Call
  BY DEF TInv, TypeOK
<1>2. call[t].pc \in {"clear", "leave"} =>
        Head(call[t].leave) \in Topics /\ Tail(call[t].leave) \in Seq(Topics)
  <2>1. call[t].leave \in Seq(Topics)
    BY <1>1 DEF Call
  <2>2. call[t].pc \in {"clear", "leave"} => call[t].leave # <<>>
    BY DEF TInv, InCall
  <2>3. QED
    BY <2>1, <2>2, HeadTailProperties
<1>3. Asks(t) => call[t].req \in Requests /\ Table(t) \in Kinds
  BY ClientAssumption DEF TInv, InCall, Table
<1>4. QED
  BY <1>2, <1>3 DEF TInv, ByHandler, Excluded, InCall

(* The application registers for a topic, or gives topics up. *)
Begin == \/ \E k \in Lasting : RegisterCallbacks(k) \/ Unregister(<<k>>)
         \/ Unregister(CleanupOrder)

(* What the beginning of a registration or a cleanup changes. *)
LEMMA BeginEffect ==
  ASSUME TInv, Begin
  PROVE  /\ UNCHANGED <<tbVars, resub, handler, mqttVars, use, faults, pastVars>>
         /\ call["app"].pc = "idle" /\ (serial => handler.pc = "idle")
         /\ calls' \in 0 .. use.calls
         /\ call' \in [Callers -> Call] /\ \A u \in Callers \ {"app"} : call'[u] = call[u]
         /\ \/ call'["app"].pc = "enter" /\ call'["app"].topic \in Lasting
            \/ call'["app"].pc = "clear" /\ call'["app"].leave # <<>>
<1>1. ASSUME NEW c \in Call, MayCall("app"), calls < use.calls, calls' = calls + 1,
             call' = [call EXCEPT !["app"] = c],
             UNCHANGED <<tbVars, resub, handler, mqttVars, use, faults, pastVars>>
      PROVE  /\ UNCHANGED <<tbVars, resub, handler, mqttVars, use, faults, pastVars>>
             /\ call["app"].pc = "idle" /\ (serial => handler.pc = "idle")
             /\ calls' \in 0 .. use.calls
             /\ call' \in [Callers -> Call] /\ \A u \in Callers \ {"app"} : call'[u] = call[u]
             /\ call'["app"] = c
  <2>1. use.calls \in Nat
    BY ClientAssumption DEF TInv, TypeOK
  <2>2. calls' \in 0 .. use.calls
    BY <1>1, <2>1 DEF TInv, TypeOK
  <2>3. "app" \in Callers
    BY DEF Callers
  <2>4. QED
    BY <1>1, <2>2, <2>3, CallStep DEF MayCall, TInv, TypeOK
<1>2. ASSUME NEW k \in Lasting, RegisterCallbacks(k)
      PROVE  LET c == [Idle EXCEPT !.pc = "enter", !.topic = k]
             IN /\ c \in Call /\ c.pc = "enter" /\ c.topic = k
                /\ MayCall("app") /\ calls < use.calls /\ calls' = calls + 1
                /\ call' = [call EXCEPT !["app"] = c]
                /\ UNCHANGED <<tbVars, resub, handler, mqttVars, use, faults, pastVars>>
  <2>1. k \in Topics /\ "enter" \in CallSteps
    BY DEF Topics, CallSteps
  <2>2. QED
    BY <1>2, <2>1, IdleType DEF RegisterCallbacks, Call
<1>3. ASSUME NEW ks \in Seq(Topics), ks # <<>>, Unregister(ks)
      PROVE  LET c == [Idle EXCEPT !.pc = "clear", !.leave = ks]
             IN /\ c \in Call /\ c.pc = "clear" /\ c.leave = ks
                /\ MayCall("app") /\ calls < use.calls /\ calls' = calls + 1
                /\ call' = [call EXCEPT !["app"] = c]
                /\ UNCHANGED <<tbVars, resub, handler, mqttVars, use, faults, pastVars>>
  <2>1. "clear" \in CallSteps
    BY DEF CallSteps
  <2>2. QED
    BY <1>3, <2>1, IdleType DEF Unregister, Call
<1>4. /\ \A k \in Lasting : <<k>> \in Seq(Topics) /\ <<k>> # <<>>
      /\ CleanupOrder \in Seq(Topics) /\ CleanupOrder # <<>>
  <2>1. Lasting \subseteq Topics
    BY DEF Topics
  <2>2. QED
    BY <2>1 DEF CleanupOrder, Topics, Lasting, Kinds
<1>5. CASE \E k \in Lasting : RegisterCallbacks(k)
  <2>1. PICK k \in Lasting : RegisterCallbacks(k)
    BY <1>5
  <2> DEFINE c == [Idle EXCEPT !.pc = "enter", !.topic = k]
  <2>2. /\ c \in Call /\ c.pc = "enter" /\ c.topic = k
        /\ MayCall("app") /\ calls < use.calls /\ calls' = calls + 1
        /\ call' = [call EXCEPT !["app"] = c]
        /\ UNCHANGED <<tbVars, resub, handler, mqttVars, use, faults, pastVars>>
    BY <1>2, <2>1
  <2> HIDE DEF c
  <2>3. QED
    BY <1>1, <2>2
<1>6. CASE \E ks \in Seq(Topics) : ks # <<>> /\ Unregister(ks)
  <2>1. PICK ks \in Seq(Topics) : ks # <<>> /\ Unregister(ks)
    BY <1>6
  <2> DEFINE c == [Idle EXCEPT !.pc = "clear", !.leave = ks]
  <2>2. /\ c \in Call /\ c.pc = "clear" /\ c.leave = ks
        /\ MayCall("app") /\ calls < use.calls /\ calls' = calls + 1
        /\ call' = [call EXCEPT !["app"] = c]
        /\ UNCHANGED <<tbVars, resub, handler, mqttVars, use, faults, pastVars>>
    BY <1>3, <2>1
  <2> HIDE DEF c
  <2>3. QED
    BY <1>1, <2>1, <2>2
<1>7. QED
  BY <1>4, <1>5, <1>6 DEF Begin

(* A registration and a cleanup begin where a call may be. *)
LEMMA BeginTInv == TInv /\ Begin => TInv'
<1>1. SUFFICES ASSUME TInv, Begin PROVE TInv'
  OBVIOUS
<1>2. /\ UNCHANGED <<registered, table, m_request_id, resub, handler, link, subs, net, use, faults,
                     phase, stranded, restored, crashed>>
      /\ calls' \in 0 .. use.calls
      /\ call' \in [Callers -> Call] /\ \A u \in Callers \ {"app"} : call'[u] = call[u]
      /\ \/ call'["app"].pc = "enter" /\ call'["app"].topic \in Lasting
         \/ call'["app"].pc = "clear" /\ call'["app"].leave # <<>>
  BY <1>1, BeginEffect DEF tbVars, mqttVars, pastVars
<1>3. TypeOK'
  BY <1>1, <1>2, SameUse DEF TInv, TypeOK
<1>4. serial => handler.pc = "idle"
  BY <1>1, BeginEffect
<1>5. call'["app"].pc \notin RequestSteps \cup {"insert", "leave", "back", "number", "subscribe", "push"}
  BY <1>2 DEF RequestSteps
<1>6. "app" \in Callers
  BY DEF Callers
<1>7. QED
  BY <1>1, <1>2, <1>3, <1>4, <1>5, <1>6, TCall
-----------------------------------------------------------------------------
(* A table that loses slots, and keeps the others as they are. *)
Shrinks(k) ==
  /\ \A j \in Kinds \ {k} : table'[j] = table[j]
  /\ table'[k] = table[k] \/ Len(table'[k]) < Len(table[k])
  /\ \A i \in DOMAIN table'[k] : \E j \in DOMAIN table[k] : table'[k][i] = table[k][j]

(* A cleared table has shrunk. *)
LEMMA ForgetTable ==
  ASSUME TypeOK, NEW k \in Kinds, Forget(k)
  PROVE  table' \in [Kinds -> Seq(Slot)] /\ table'[k] = <<>> /\ Shrinks(k)
<1>1. <<>> \in Seq(Slot) /\ Len(<<>>) = 0 /\ DOMAIN <<>> = {}
  BY EmptySeq
<1>2. /\ table' \in [Kinds -> Seq(Slot)] /\ table'[k] = <<>>
      /\ \A j \in Kinds \ {k} : table'[j] = table[j]
  BY <1>1, TableStep DEF Forget, TypeOK
<1>3. table[k] \in Seq(Slot)
  BY DEF TypeOK
<1>4. table[k] # <<>> => Len(table[k]) > 0
  BY <1>3, EmptySeq
<1>5. QED
  BY <1>1, <1>2, <1>4 DEF Shrinks

(* So has one without one of its slots. *)
LEMMA RemoveTable ==
  ASSUME TypeOK, NEW k \in Kinds, NEW i \in DOMAIN table[k],
         table' = [table EXCEPT ![k] = RemoveAt(@, i)]
  PROVE  /\ table' \in [Kinds -> Seq(Slot)] /\ Shrinks(k)
         /\ Len(table'[k]) < Len(table[k])
         /\ \A j \in DOMAIN table'[k] : \E l \in DOMAIN table[k] \ {i} : table'[k][j] = table[k][l]
         /\ \A j, l \in DOMAIN table'[k] :
              j # l => \E m, n \in DOMAIN table[k] : /\ m # n
                                                     /\ table'[k][j] = table[k][m]
                                                     /\ table'[k][l] = table[k][n]
<1> DEFINE s == table[k]
           r == RemoveAt(s, i)
<1>1. s \in Seq(Slot) /\ Len(s) \in Nat /\ DOMAIN s = 1 .. Len(s)
  BY LenProperties DEF TypeOK
<1>2. /\ r \in Seq(Slot)
      /\ Len(r) = Len(s) - 1
      /\ \A j \in 1 .. Len(s) - 1 : r[j] = s[IF j < i THEN j ELSE j + 1]
  BY <1>1, RemoveAtProperties
<1>3. DOMAIN r = 1 .. Len(s) - 1
  BY <1>1, <1>2, LenProperties
<1>4. /\ table' \in [Kinds -> Seq(Slot)] /\ table'[k] = r
      /\ \A j \in Kinds \ {k} : table'[j] = table[j]
  BY <1>2, TableStep DEF TypeOK
<1> HIDE DEF r
<1>5. \A j \in 1 .. Len(s) - 1 : (IF j < i THEN j ELSE j + 1) \in DOMAIN s \ {i}
  BY <1>1
<1>6. \A j \in DOMAIN r : \E l \in DOMAIN s \ {i} : r[j] = s[l]
  BY <1>2, <1>3, <1>5
<1>7. \A j, l \in DOMAIN r : j # l => \E m, n \in DOMAIN s : m # n /\ r[j] = s[m] /\ r[l] = s[n]
  <2>1. SUFFICES ASSUME NEW j \in DOMAIN r, NEW l \in DOMAIN r, j # l
                 PROVE  \E m, n \in DOMAIN s : m # n /\ r[j] = s[m] /\ r[l] = s[n]
    OBVIOUS
  <2> DEFINE m == IF j < i THEN j ELSE j + 1
             n == IF l < i THEN l ELSE l + 1
  <2>2. m \in DOMAIN s /\ n \in DOMAIN s /\ r[j] = s[m] /\ r[l] = s[n]
    BY <1>2, <1>3, <1>5
  <2>3. m # n
    BY <1>1, <1>3, <2>1
  <2>4. QED
    BY <2>2, <2>3
<1>8. Len(r) < Len(s)
  BY <1>1, <1>2
<1>9. QED
  BY <1>4, <1>6, <1>7, <1>8 DEF Shrinks

(* A table that shrinks keeps the capacity, its kind and the room in it,   *)
(* as long as no call comes to need some.                                  *)
LEMMA TShrink ==
  ASSUME TInv, NEW k \in Kinds, table' \in [Kinds -> Seq(Slot)], Shrinks(k),
         UNCHANGED <<net, use>>,
         \A t \in Callers : call'[t].pc \in {"subscribe", "push"}
                            => call[t].pc = call'[t].pc /\ call'[t].req = call[t].req
  PROVE  /\ OneCaller' => \A j \in Kinds : Len(table'[j]) <= MaxFields
         /\ OfTheirKind' /\ Room'
<1>1. \A j \in Kinds : /\ Len(table[j]) \in Nat /\ Len(table'[j]) \in Nat
                       /\ Len(table'[j]) <= Len(table[j])
  <2>1. \A j \in Kinds : Len(table[j]) \in Nat /\ Len(table'[j]) \in Nat
    BY LenProperties DEF TInv, TypeOK
  <2>2. QED
    BY <2>1 DEF Shrinks
<1>2. OneCaller' => \A j \in Kinds : Len(table'[j]) <= MaxFields
  <2>1. OneCaller => \A j \in Kinds : Len(table[j]) <= MaxFields
    BY DEF TInv, TypeOK
  <2>2. MaxFields \in Nat
    BY ClientAssumption
  <2>3. QED
    BY <1>1, <2>1, <2>2, SameUse
<1>3. OfTheirKind'
  BY DEF TInv, OfTheirKind, Shrinks
<1>4. Room'
  <2>1. SUFFICES ASSUME OneCaller', NEW t \in Callers, call'[t].pc \in {"subscribe", "push"},
                        Table(t)' # "provision"
                 PROVE  Len(table'[Table(t)']) < MaxFields
    BY DEF Room
  <2>2. /\ call[t].pc \in {"subscribe", "push"} /\ call'[t].req = call[t].req
        /\ Table(t)' = Table(t)
    BY <2>1 DEF Table
  <2>3. OneCaller
    BY <2>1, SameUse
  <2>4. Len(table[Table(t)]) < MaxFields
    BY <2>1, <2>2, <2>3 DEF TInv, Room
  <2>5. Table(t) \in Kinds
    BY <2>2, InCallAt DEF Asks, RequestSteps
  <2>6. MaxFields \in Nat
    BY ClientAssumption
  <2>7. QED
    BY <1>1, <2>2, <2>4, <2>5, <2>6
<1>5. QED
  BY <1>2, <1>3, <1>4
-----------------------------------------------------------------------------
(* What the application's own steps do, in terms of the parts they change. *)
LEMMA AppSteps ==
  /\ {"enter", "insert", "clear", "leave", "idle"} \subseteq CallSteps
  /\ {"enter", "insert", "clear", "leave", "idle"} \cap RequestSteps = {}
  /\ "app" \in Callers
  BY DEF CallSteps, RequestSteps, Callers

(* The subscription of a registration: it goes on to insert, or ends. *)
LEMMA EnterEffect ==
  ASSUME TInv, EnterTopic
  PROVE  /\ UNCHANGED <<tbVars, resub, handler, link, net, use, calls, phase, restored, crashed>>
         /\ call["app"].pc = "enter" /\ call["app"].topic \in Lasting
         /\ call' \in [Callers -> Call] /\ \A u \in Callers \ {"app"} : call'[u] = call[u]
         /\ subs' \subseteq Topics /\ stranded' \subseteq Topics /\ faults' \in 0 .. MaxFaults
         /\ subs \cup stranded \subseteq subs' \cup stranded'
         /\ \/ /\ call'["app"].pc = "insert" /\ call'["app"].topic = call["app"].topic
               /\ link = "up" /\ subs' = subs \cup {call["app"].topic}
            \/ call'["app"].pc = "idle" /\ UNCHANGED <<subs, stranded>>
<1>1. call["app"].topic \in Lasting
  BY AppSteps, InCallAt DEF EnterTopic
<1>2. PICK ok \in BOOLEAN : /\ Subscribe(call["app"].topic, ok)
                            /\ IF ok THEN Step("app", "insert") ELSE End("app")
  BY DEF EnterTopic
<1>3. /\ subs' \subseteq Topics /\ stranded' \subseteq Topics /\ faults' \in 0 .. MaxFaults
      /\ subs \cup stranded \subseteq subs' \cup stranded'
      /\ ok => link = "up" /\ subs' = subs \cup {call["app"].topic}
      /\ ~ok => UNCHANGED <<subs, stranded>>
  <2>1. call["app"].topic \in Topics
    BY <1>1 DEF Topics
  <2>2. QED
    BY <1>2, <2>1, SubscribeStep DEF TInv
<1>4. /\ UNCHANGED <<tbVars, resub, handler, link, net, use, calls, phase, restored, crashed>>
      /\ call["app"].pc = "enter"
  BY DEF EnterTopic
<1>5. CASE ok
  BY <1>1, <1>2, <1>3, <1>4, <1>5, AppSteps, StepCall DEF TInv, TypeOK
<1>6. CASE ~ok
  BY <1>1, <1>2, <1>3, <1>4, <1>6, AppSteps, EndCall DEF TInv, TypeOK
<1>7. QED
  BY <1>5, <1>6

(* The callbacks are inserted, and the call ends. *)
LEMMA InsertEffect ==
  ASSUME TInv, Insert
  PROVE  /\ UNCHANGED <<table, m_request_id, resub, handler, mqttVars, useVars, pastVars>>
         /\ call["app"].pc = "insert" /\ call["app"].topic \in Lasting
         /\ registered' = registered \cup {call["app"].topic}
         /\ call' \in [Callers -> Call] /\ \A u \in Callers \ {"app"} : call'[u] = call[u]
         /\ call'["app"].pc = "idle"
<1>1. call["app"].topic \in Lasting
  BY AppSteps, InCallAt DEF Insert
<1>2. QED
  BY <1>1, AppSteps, EndCall DEF Insert, TInv, TypeOK

(* A cleanup clears the callbacks of its next topic, whichever list they   *)
(* are in.                                                                 *)
LEMMA ClearTopicEffect ==
  ASSUME TInv, ClearTopic
  PROVE  LET k == Head(call["app"].leave)
         IN /\ UNCHANGED <<m_request_id, resub, handler, mqttVars, useVars, stranded, restored>>
            /\ call["app"].pc = "clear" /\ k \in Topics
            /\ call' \in [Callers -> Call] /\ \A u \in Callers \ {"app"} : call'[u] = call[u]
            /\ call'["app"].pc = "leave" /\ call'["app"].leave = call["app"].leave
            /\ call["app"].leave # <<>>
            /\ \/ /\ k \in Lasting /\ k \notin Kinds
                  /\ registered' = registered \ {k} /\ UNCHANGED <<table, phase, crashed>>
               \/ /\ k \in Kinds /\ k \notin Lasting /\ Forget(k) /\ UNCHANGED registered
                  /\ crashed' = (handler.pc = "callback" /\ handler.kind = k)
                  /\ table' \in [Kinds -> Seq(Slot)] /\ table'[k] = <<>> /\ Shrinks(k)
                  /\ phase' \in [Requests -> Phases]
<1> DEFINE k == Head(call["app"].leave)
<1>1. k \in Topics /\ call["app"].pc = "clear" /\ call["app"].leave # <<>>
  BY AppSteps, InCallAt DEF ClearTopic, TInv, InCall
<1>2. /\ UNCHANGED <<m_request_id, resub, handler, mqttVars, useVars, stranded, restored>>
      /\ Step("app", "leave")
      /\ IF k \in Lasting THEN registered' = registered \ {k} /\ UNCHANGED <<table, phase, crashed>>
         ELSE /\ Forget(k) /\ UNCHANGED registered
              /\ crashed' = (handler.pc = "callback" /\ handler.kind = k)
  BY DEF ClearTopic
<1>3. /\ call' \in [Callers -> Call] /\ \A u \in Callers \ {"app"} : call'[u] = call[u]
      /\ call'["app"].pc = "leave" /\ call'["app"].leave = call["app"].leave
  BY <1>2, AppSteps, StepCall DEF TInv, TypeOK
<1>4. CASE k \in Lasting
  <2>1. k \notin Kinds
    BY <1>4 DEF Lasting, Kinds
  <2>2. QED
    BY <1>1, <1>2, <1>3, <1>4, <2>1
<1>5. CASE k \notin Lasting
  <2>1. /\ k \in Kinds /\ Forget(k) /\ UNCHANGED registered
        /\ crashed' = (handler.pc = "callback" /\ handler.kind = k)
    BY <1>1, <1>2, <1>5 DEF Topics
  <2>2. table' \in [Kinds -> Seq(Slot)] /\ table'[k] = <<>> /\ Shrinks(k)
    BY <2>1, ForgetTable DEF TInv
  <2>3. phase' \in [Requests -> Phases]
    BY <2>1, ForgetPhase DEF Forget, TInv
  <2>4. QED
    BY <1>1, <1>2, <1>3, <1>5, <2>1, <2>2, <2>3
<1>6. QED
  BY <1>4, <1>5

(* And unsubscribes from it, before it goes on to the next. *)
LEMMA LeaveTopicEffect ==
  ASSUME TInv, LeaveTopic
  PROVE  LET k == Head(call["app"].leave)
         IN /\ UNCHANGED <<tbVars, resub, handler, link, net, use, calls, pastVars>>
            /\ call["app"].pc = "leave" /\ k \in Topics
            /\ call' \in [Callers -> Call] /\ \A u \in Callers \ {"app"} : call'[u] = call[u]
            /\ \/ call'["app"].pc = "idle"
               \/ call'["app"].pc = "clear" /\ call'["app"].leave # <<>>
            /\ subs' \subseteq Topics /\ faults' \in 0 .. MaxFaults
            /\ subs \ {k} \subseteq subs' /\ subs' \subseteq subs
            /\ stable /\ link = "up" => k \notin subs'
<1> DEFINE a == call["app"]
           k == Head(a.leave)
           rest == Tail(a.leave)
<1>1. k \in Topics /\ rest \in Seq(Topics) /\ a.pc = "leave" /\ a \in Call
  BY AppSteps, InCallAt DEF LeaveTopic, TInv, TypeOK
<1>2. /\ UNCHANGED <<tbVars, resub, handler, link, net, use, calls, pastVars>>
      /\ Unsubscribe(k)
      /\ IF rest = <<>> THEN End("app")
         ELSE call' = [call EXCEPT !["app"].pc = "clear", !["app"].leave = rest]
  BY DEF LeaveTopic
<1>3. /\ subs' \subseteq Topics /\ faults' \in 0 .. MaxFaults
      /\ subs \ {k} \subseteq subs' /\ subs' \subseteq subs
      /\ stable /\ link = "up" => k \notin subs'
  BY <1>1, <1>2, UnsubscribeStep DEF TInv
<1>4. CASE rest = <<>>
  BY <1>1, <1>2, <1>3, <1>4, AppSteps, EndCall DEF TInv, TypeOK
<1>5. CASE rest # <<>>
  <2> DEFINE c == [a EXCEPT !.pc = "clear", !.leave = rest]
  <2>1. c \in Call /\ c.pc = "clear" /\ c.leave = rest
    BY <1>1, AppSteps DEF Call
  <2>2. call' = [call EXCEPT !["app"] = c]
    BY <1>2, <1>5, AppSteps DEF TInv, TypeOK
  <2> HIDE DEF c
  <2>3. QED
    BY <1>1, <1>2, <1>3, <1>5, <2>1, <2>2, AppSteps, CallStep DEF TInv, TypeOK
<1>6. QED
  BY <1>4, <1>5

(* The application's own steps never leave it in a request. *)
LEMMA AppTInv == TInv /\ ~crashed /\ AppStep => TInv'
<1>1. SUFFICES ASSUME TInv, ~crashed, AppStep PROVE TInv'
  OBVIOUS
<1>2. serial => handler.pc = "idle"
  <2>1. call["app"].pc # "idle"
    BY <1>1 DEF AppStep, EnterTopic, Insert, ClearTopic, LeaveTopic
  <2>2. QED
    BY <1>1, <2>1, AppSteps, InCallAt
<1>3. ASSUME TypeOK', UNCHANGED <<table, handler, net, use>>, crashed => crashed',
             \A u \in Callers \ {"app"} : call'[u] = call[u],
             call'["app"].pc \in {"insert", "clear", "leave", "idle"},
             call'["app"].pc = "insert" => call'["app"].topic \in Lasting,
             call'["app"].pc \in {"clear", "leave"} => call'["app"].leave # <<>>
      PROVE  TInv'
  <2>1. call'["app"].pc \notin RequestSteps \cup {"enter", "back", "number", "subscribe", "push"}
    BY <1>3, AppSteps
  <2>2. QED
    BY <1>1, <1>2, <1>3, <2>1, AppSteps, TCall
<1>4. CASE EnterTopic
  <2>1. /\ UNCHANGED <<registered, table, m_request_id, resub, handler, link, net, use, calls, phase,
                       restored, crashed>>
        /\ call' \in [Callers -> Call] /\ \A u \in Callers \ {"app"} : call'[u] = call[u]
        /\ subs' \subseteq Topics /\ stranded' \subseteq Topics /\ faults' \in 0 .. MaxFaults
        /\ \/ call'["app"].pc = "insert" /\ call'["app"].topic \in Lasting
           \/ call'["app"].pc = "idle"
    BY <1>1, <1>4, EnterEffect DEF tbVars
  <2>2. TypeOK'
    BY <1>1, <2>1, SameUse DEF TInv, TypeOK
  <2>3. QED
    BY <1>3, <2>1, <2>2
<1>5. CASE Insert
  <2>1. /\ UNCHANGED <<table, m_request_id, resub, handler, link, subs, net, use, faults, calls,
                       phase, stranded, restored, crashed>>
        /\ call' \in [Callers -> Call] /\ \A u \in Callers \ {"app"} : call'[u] = call[u]
        /\ call'["app"].pc = "idle"
        /\ call["app"].topic \in Lasting /\ registered' = registered \cup {call["app"].topic}
    BY <1>1, <1>5, InsertEffect DEF mqttVars, useVars, pastVars
  <2>2. TypeOK'
    BY <1>1, <2>1, SameUse DEF TInv, TypeOK
  <2>3. QED
    BY <1>3, <2>1, <2>2
<1>6. CASE ClearTopic
  <2> DEFINE k == Head(call["app"].leave)
  <2>1. /\ UNCHANGED <<m_request_id, resub, handler, link, subs, net, use, faults, calls, stranded,
                       restored>>
        /\ call' \in [Callers -> Call] /\ \A u \in Callers \ {"app"} : call'[u] = call[u]
        /\ call'["app"].pc = "leave" /\ call'["app"].leave # <<>>
    BY <1>1, <1>6, ClearTopicEffect DEF mqttVars, useVars
  <2>2. CASE registered' = registered \ {k} /\ UNCHANGED <<table, phase, crashed>>
    <3>1. TypeOK'
      BY <1>1, <2>1, <2>2, SameUse DEF TInv, TypeOK
    <3>2. QED
      BY <1>3, <2>1, <2>2, <3>1
  <2>3. CASE /\ k \in Kinds /\ UNCHANGED registered
             /\ table' \in [Kinds -> Seq(Slot)] /\ Shrinks(k) /\ phase' \in [Requests -> Phases]
             /\ crashed' = (handler.pc = "callback" /\ handler.kind = k)
    <3>1. /\ OneCaller' => \A j \in Kinds : Len(table'[j]) <= MaxFields
          /\ OfTheirKind' /\ Room'
      <4>1. \A t \in Callers : call'[t].pc \in {"subscribe", "push"}
                               => call[t].pc = call'[t].pc /\ call'[t].req = call[t].req
        BY <2>1
      <4>2. QED
        BY <1>1, <2>1, <2>3, <4>1, TShrink
    <3>2. TypeOK'
      BY <1>1, <2>1, <2>3, <3>1 DEF TInv, TypeOK
    <3>3. InCall'
      BY <1>1, <2>1, AppSteps DEF TInv, InCall, Asks, Table
    <3>4. ByHandler' /\ Excluded'
      BY <1>1, <1>2, <2>1, SameUse DEF TInv, ByHandler, Excluded, Asks, Callers
    <3>5. Handled'
      <4>1. SUFFICES ASSUME ~crashed', handler.pc = "callback", handler.kind # "provision"
                     PROVE  handler.slot \in DOMAIN table'[handler.kind]
        BY <2>1 DEF Handled
      <4>2. handler.kind \in Kinds \ {k}
        BY <1>1, <2>3, <4>1 DEF TInv, TypeOK, HandlerType
      <4>3. table'[handler.kind] = table[handler.kind]
        BY <2>3, <4>2 DEF Shrinks
      <4>4. ~crashed
        BY <1>1
      <4>5. QED
        BY <1>1, <4>1, <4>3, <4>4 DEF TInv, Handled
    <3>6. QED
      BY <3>1, <3>2, <3>3, <3>4, <3>5 DEF TInv
  <2>4. QED
    BY <1>1, <1>6, <2>2, <2>3, ClearTopicEffect
<1>7. CASE LeaveTopic
  <2>1. /\ UNCHANGED <<registered, table, m_request_id, resub, handler, link, net, use, calls,
                       phase, stranded, restored, crashed>>
        /\ call' \in [Callers -> Call] /\ \A u \in Callers \ {"app"} : call'[u] = call[u]
        /\ \/ call'["app"].pc = "idle"
           \/ call'["app"].pc = "clear" /\ call'["app"].leave # <<>>
        /\ subs' \subseteq Topics /\ faults' \in 0 .. MaxFaults
    BY <1>1, <1>7, LeaveTopicEffect DEF tbVars, pastVars
  <2>2. TypeOK'
    BY <1>1, <2>1, SameUse DEF TInv, TypeOK
  <2>3. QED
    BY <1>3, <2>1, <2>2
<1>8. QED
  BY <1>1, <1>4, <1>5, <1>6, <1>7 DEF AppStep
-----------------------------------------------------------------------------
(* What the steps of a request do, in terms of the parts they change. *)
LEMMA RequestEffect ==
  ASSUME TInv, NEW t \in Callers, NEW r \in Requests, Request(t, r)
  PROVE  /\ UNCHANGED <<tbVars, resub, handler, mqttVars, useVars, stranded, restored, crashed>>
         /\ call[t].pc = "idle" /\ phase[r] = "new"
         /\ t = "mqtt" => reentrant /\ handler.pc = "callback"
         /\ t = "app" /\ serial => handler.pc = "idle"
         /\ phase' \in [Requests -> Phases] /\ \A q \in Requests \ {r} : phase'[q] = phase[q]
         /\ call' \in [Callers -> Call] /\ \A u \in Callers \ {t} : call'[u] = call[u]
         /\ \/ phase'[r] = "refused" /\ UNCHANGED call
            \/ /\ phase'[r] = "asking" /\ call'[t].pc = "subscribe" /\ call'[t].req = r
               /\ Kind[r] # "provision" => Len(table[Kind[r]]) < MaxFields
<1> DEFINE c == [Idle EXCEPT !.pc = "subscribe", !.req = r]
<1>1. c \in Call /\ c.pc = "subscribe" /\ c.req = r
  BY IdleType DEF Call, CallSteps, RequestSteps
<1> HIDE DEF c
<1>2. /\ MayCall(t) /\ phase[r] = "new"
      /\ IF Full(Kind[r]) THEN Becomes(r, "refused") /\ UNCHANGED call
         ELSE Becomes(r, "asking") /\ call' = [call EXCEPT ![t] = c]
      /\ UNCHANGED <<tbVars, resub, handler, mqttVars, useVars, stranded, restored, crashed>>
  BY DEF Request, c
<1>3. call[t].pc = "idle"
  BY <1>2 DEF MayCall
<1>4. {"refused", "asking"} \subseteq Phases
  BY DEF Phases
<1>5. CASE Full(Kind[r])
  BY <1>2, <1>3, <1>4, <1>5, MayCallAt, PhaseStep DEF TInv, TypeOK
<1>6. CASE ~Full(Kind[r])
  <2>1. Kind[r] # "provision" => Len(table[Kind[r]]) < MaxFields
    <3>1. Kind[r] \in Kinds /\ MaxFields \in Nat
      BY ClientAssumption
    <3>2. Len(table[Kind[r]]) \in Nat
      BY <3>1, LenProperties DEF TInv, TypeOK
    <3>3. QED
      BY <1>6, <3>1, <3>2 DEF Full
  <2>2. QED
    BY <1>1, <1>2, <1>3, <1>4, <1>6, <2>1, MayCallAt, PhaseStep, CallStep DEF TInv, TypeOK
<1>7. QED
  BY <1>5, <1>6

(* A request goes on with its topic subscribed, or is refused. *)
LEMMA SubscribeEffect ==
  ASSUME TInv, NEW t \in Callers, SubscribeAnswer(t)
  PROVE  /\ UNCHANGED <<tbVars, resub, handler, link, net, use, calls, restored, crashed>>
         /\ call[t].pc = "subscribe" /\ call[t].req \in Requests /\ Table(t) \in Kinds
         /\ call' \in [Callers -> Call] /\ \A u \in Callers \ {t} : call'[u] = call[u]
         /\ phase' \in [Requests -> Phases]
         /\ \A q \in Requests \ {call[t].req} : phase'[q] = phase[q]
         /\ subs' \subseteq Topics /\ stranded' \subseteq Topics /\ faults' \in 0 .. MaxFaults
         /\ subs \cup stranded \subseteq subs' \cup stranded'
         /\ \/ /\ call'[t].pc = "push" /\ call'[t].req = call[t].req /\ UNCHANGED phase
               /\ link = "up" /\ subs' = subs \cup {Table(t)}
            \/ /\ call'[t].pc = "idle" /\ phase'[call[t].req] = "refused"
               /\ UNCHANGED <<subs, stranded>>
<1> DEFINE r == call[t].req
<1>1. call[t].pc = "subscribe" /\ r \in Requests /\ Table(t) \in Kinds
  BY InCallAt DEF SubscribeAnswer, Asks, RequestSteps
<1>2. Table(t) \in Topics
  BY <1>1 DEF Topics
<1>3. PICK ok \in BOOLEAN : /\ Subscribe(Table(t), ok)
                            /\ IF ok THEN Step(t, "push") /\ UNCHANGED phase
                                     ELSE End(t) /\ Becomes(r, "refused")
  BY DEF SubscribeAnswer, Table
<1>4. UNCHANGED <<tbVars, resub, handler, link, net, use, calls, restored, crashed>>
  BY DEF SubscribeAnswer
<1>5. /\ subs' \subseteq Topics /\ stranded' \subseteq Topics /\ faults' \in 0 .. MaxFaults
      /\ subs \cup stranded \subseteq subs' \cup stranded'
      /\ ok => link = "up" /\ subs' = subs \cup {Table(t)}
      /\ ~ok => UNCHANGED <<subs, stranded>>
  BY <1>2, <1>3, SubscribeStep DEF TInv
<1>6. "push" \in CallSteps /\ "refused" \in Phases
  BY DEF CallSteps, RequestSteps, Phases
<1>7. CASE ok
  BY <1>1, <1>3, <1>4, <1>5, <1>6, <1>7, StepCall DEF TInv, TypeOK
<1>8. CASE ~ok
  BY <1>1, <1>3, <1>4, <1>5, <1>6, <1>8, EndCall, PhaseStep DEF TInv, TypeOK
<1>9. QED
  BY <1>7, <1>8

(* It takes the one slot for provisioning, or a new last one. *)
LEMMA PushEffect ==
  ASSUME TInv, NEW t \in Callers, PushBack(t)
  PROVE  /\ UNCHANGED <<registered, m_request_id, resub, handler, mqttVars, useVars, stranded,
                        restored, crashed>>
         /\ call[t].pc = "push" /\ call[t].req \in Requests /\ Table(t) \in Kinds
         /\ call' \in [Callers -> Call] /\ \A u \in Callers \ {t} : call'[u] = call[u]
         /\ call'[t].req = call[t].req
         /\ phase' \in [Requests -> Phases]
         /\ table' \in [Kinds -> Seq(Slot)] /\ \A j \in Kinds \ {Table(t)} : table'[j] = table[j]
         /\ table'[Table(t)] # <<>>
         /\ \/ /\ Table(t) = "provision" /\ call'[t].pc = "send" /\ phase' = Forgotten("provision")
               /\ DOMAIN table'["provision"] = {1} /\ Len(table'["provision"]) = 1
               /\ table'["provision"][1] = [req |-> call[t].req, id |-> 0]
            \/ LET k == Table(t)
                   n == Len(table[k])
               IN /\ k # "provision" /\ call'[t].pc = "back" /\ UNCHANGED phase
                  /\ n \in Nat /\ DOMAIN table[k] = 1 .. n /\ DOMAIN table'[k] = 1 .. n + 1
                  /\ Len(table'[k]) = n + 1
                  /\ \A i \in 1 .. n : table'[k][i] = table[k][i]
                  /\ table'[k][n + 1] = [req |-> call[t].req, id |-> 0]
<1> DEFINE r == call[t].req
           k == Table(t)
           new == [req |-> r, id |-> 0]
           n == Len(table[k])
<1>1. call[t].pc = "push" /\ r \in Requests /\ k \in Kinds
  BY InCallAt DEF PushBack, Asks, RequestSteps
<1>2. UNCHANGED <<registered, m_request_id, resub, handler, mqttVars, useVars, stranded, restored,
                  crashed>>
  BY DEF PushBack
<1>3. new \in Slot /\ call[t] \in Call /\ "send" \in CallSteps /\ "back" \in CallSteps
  BY <1>1 DEF Slot, TInv, TypeOK, CallSteps, RequestSteps
<1>4. table[k] \in Seq(Slot) /\ n \in Nat /\ DOMAIN table[k] = 1 .. n
  BY <1>1, LenProperties DEF TInv, TypeOK
<1> HIDE DEF new
<1>5. CASE k = "provision"
  <2>1. /\ phase' = Forgotten(k) /\ table' = [table EXCEPT ![k] = <<new>>] /\ Step(t, "send")
    BY <1>5 DEF PushBack, Table, new
  <2>2. <<new>> \in Seq(Slot) /\ Len(<<new>>) = 1 /\ DOMAIN <<new>> = {1} /\ <<new>>[1] = new
        /\ <<new>> # <<>>
    BY <1>3
  <2>3. /\ table' \in [Kinds -> Seq(Slot)] /\ table'[k] = <<new>>
        /\ \A j \in Kinds \ {k} : table'[j] = table[j]
    BY <1>1, <2>1, <2>2, TableStep DEF TInv, TypeOK
  <2>4. phase' \in [Requests -> Phases]
    BY <1>1, <2>1, ForgetPhase DEF TInv
  <2>5. QED
    BY <1>1, <1>2, <1>3, <1>5, <2>1, <2>2, <2>3, <2>4, StepCall DEF TInv, TypeOK, new
<1>6. CASE k # "provision"
  <2> DEFINE s == Append(table[k], new)
  <2>1. /\ table' = [table EXCEPT ![k] = s] /\ UNCHANGED phase
        /\ Step(t, "back")
    BY <1>1, <1>6 DEF PushBack, Table, new, TInv, TypeOK
  <2>4. /\ s \in Seq(Slot) /\ s # <<>> /\ Len(s) = n + 1
        /\ \A i \in 1 .. n : s[i] = table[k][i]
        /\ s[n + 1] = new
    BY <1>3, <1>4, AppendProperties
  <2>5. DOMAIN s = 1 .. n + 1
    BY <2>4, LenProperties
  <2> HIDE DEF s
  <2>6. /\ call' \in [Callers -> Call] /\ call'[t].pc = "back" /\ call'[t].req = r
        /\ \A u \in Callers \ {t} : call'[u] = call[u]
    BY <1>3, <2>1, StepCall DEF TInv, TypeOK
  <2>7. /\ table' \in [Kinds -> Seq(Slot)] /\ table'[k] = s
        /\ \A j \in Kinds \ {k} : table'[j] = table[j]
    BY <1>1, <2>1, <2>4, TableStep DEF TInv, TypeOK
  <2>8. phase' \in [Requests -> Phases]
    BY <2>1 DEF TInv, TypeOK
  <2>9. QED
    BY <1>1, <1>2, <1>4, <1>6, <2>1, <2>4, <2>5, <2>6, <2>7, <2>8 DEF new
<1>7. QED
  BY <1>5, <1>6

(* It takes the address of the last slot; if there is none the program is  *)
(* undefined.                                                              *)
LEMMA BackEffect ==
  ASSUME TInv, NEW t \in Callers, Back(t)
  PROVE  /\ UNCHANGED <<tbVars, resub, handler, mqttVars, useVars, phase, stranded, restored>>
         /\ call[t].pc = "back" /\ call[t].req \in Requests /\ Table(t) \in Kinds \ {"provision"}
         /\ call' \in [Callers -> Call] /\ \A u \in Callers \ {t} : call'[u] = call[u]
         /\ call'[t].pc = "number" /\ call'[t].req = call[t].req
         /\ LET n == Len(table[Table(t)])
            IN n \in Nat /\ call'[t].slot = n /\ crashed' = (n = 0)
<1> DEFINE r == call[t].req
           k == Table(t)
           n == Len(table[k])
<1>1. call[t].pc = "back" /\ r \in Requests /\ k \in Kinds \ {"provision"}
  BY InCallAt DEF Back, Asks, RequestSteps, TInv, InCall
<1>2. /\ UNCHANGED <<tbVars, resub, handler, mqttVars, useVars, phase, stranded, restored>>
      /\ call' = [call EXCEPT ![t].pc = "number", ![t].slot = n]
      /\ crashed' = (n = 0)
  BY DEF Back, Table
<1>3. n \in Nat /\ call[t] \in Call /\ "number" \in CallSteps
  BY <1>1, LenProperties DEF TInv, TypeOK, CallSteps, RequestSteps
<1>4. /\ call' \in [Callers -> Call] /\ \A u \in Callers \ {t} : call'[u] = call[u]
      /\ call'[t].pc = "number" /\ call'[t].req = r /\ call'[t].slot = n
  <2> DEFINE c == [call[t] EXCEPT !.pc = "number", !.slot = n]
  <2>1. ASSUME NEW d \in Call, NEW i \in Nat
        PROVE  LET e == [d EXCEPT !.pc = "number", !.slot = i]
               IN e \in Call /\ e.pc = "number" /\ e.slot = i /\ e.req = d.req
    BY <1>3 DEF Call
  <2>2. c \in Call /\ c.pc = "number" /\ c.slot = n /\ c.req = r
    BY <1>3, <2>1
  <2>3. call' = [call EXCEPT ![t] = c]
    BY <1>2 DEF TInv, TypeOK
  <2> HIDE DEF c
  <2>4. QED
    BY <2>2, <2>3, CallStep DEF TInv, TypeOK
<1>5. QED
  BY <1>1, <1>2, <1>3, <1>4

(* It takes the next number and writes it through its slot, if that is     *)
(* there.                                                                  *)
LEMMA NumberEffect ==
  ASSUME TInv, NEW t \in Callers, SetRequestId(t)
  PROVE  /\ UNCHANGED <<registered, resub, handler, mqttVars, useVars, pastVars>>
         /\ call[t].pc = "number" /\ call[t].req \in Requests /\ Table(t) \in Kinds \ {"provision"}
         /\ call' \in [Callers -> Call] /\ \A u \in Callers \ {t} : call'[u] = call[u]
         /\ m_request_id' = m_request_id + 1
         /\ call'[t].pc = "send" /\ call'[t].req = call[t].req /\ call'[t].id = m_request_id'
         /\ table' \in [Kinds -> Seq(Slot)] /\ \A j \in Kinds \ {Table(t)} : table'[j] = table[j]
         /\ LET k == Table(t)
            IN /\ Len(table'[k]) = Len(table[k]) /\ DOMAIN table'[k] = DOMAIN table[k]
               /\ \A j \in DOMAIN table[k] :
                    /\ table'[k][j].req = table[k][j].req
                    /\ table'[k][j].id = IF j = call[t].slot THEN m_request_id + 1 ELSE table[k][j].id
<1> DEFINE r == call[t].req
           k == Table(t)
           i == call[t].slot
           m == m_request_id + 1
<1>1. call[t].pc = "number" /\ r \in Requests /\ k \in Kinds \ {"provision"}
  BY InCallAt DEF SetRequestId, Asks, RequestSteps, TInv, InCall
<1>2. /\ UNCHANGED <<registered, resub, handler, mqttVars, useVars, pastVars>>
      /\ m_request_id' = m
      /\ table' = IF i \in DOMAIN table[k] THEN [table EXCEPT ![k][i].id = m] ELSE table
      /\ call' = [call EXCEPT ![t].pc = "send", ![t].id = m]
  BY DEF SetRequestId, Table
<1>3. m \in Nat /\ call[t] \in Call /\ "send" \in CallSteps
  BY DEF TInv, TypeOK, CallSteps, RequestSteps
<1>4. /\ call' \in [Callers -> Call] /\ \A u \in Callers \ {t} : call'[u] = call[u]
      /\ call'[t].pc = "send" /\ call'[t].req = r /\ call'[t].id = m
  <2> DEFINE c == [call[t] EXCEPT !.pc = "send", !.id = m]
  <2>1. ASSUME NEW d \in Call, NEW n \in Nat
        PROVE  LET e == [d EXCEPT !.pc = "send", !.id = n]
               IN e \in Call /\ e.pc = "send" /\ e.id = n /\ e.req = d.req
    BY <1>3 DEF Call
  <2>2. c \in Call /\ c.pc = "send" /\ c.id = m /\ c.req = r
    BY <1>3, <2>1
  <2>3. call' = [call EXCEPT ![t] = c]
    BY <1>2 DEF TInv, TypeOK
  <2> HIDE DEF c
  <2>4. QED
    BY <2>2, <2>3, CallStep DEF TInv, TypeOK
<1>5. table[k] \in Seq(Slot) /\ DOMAIN table[k] = 1 .. Len(table[k])
  BY <1>1, LenProperties DEF TInv, TypeOK
<1>6. CASE i \in DOMAIN table[k]
  <2> DEFINE e == [table[k][i] EXCEPT !.id = m]
             s == [table[k] EXCEPT ![i] = e]
  <2>1. table[k][i] \in Slot
    BY <1>5, <1>6, ElementOfSeq
  <2>2. e \in Slot /\ e.id = m /\ e.req = table[k][i].req
    BY <1>3, <2>1 DEF Slot
  <2>3. table' = [table EXCEPT ![k] = s]
    BY <1>1, <1>2, <1>5, <1>6 DEF TInv, TypeOK
  <2> HIDE DEF e
  <2>4. /\ s \in Seq(Slot) /\ Len(s) = Len(table[k])
        /\ \A j \in DOMAIN table[k] : s[j] = IF j = i THEN e ELSE table[k][j]
    BY <1>5, <1>6, <2>2, ExceptSeq
  <2>5. DOMAIN s = DOMAIN table[k]
    OBVIOUS
  <2> HIDE DEF s
  <2>6. /\ table' \in [Kinds -> Seq(Slot)] /\ table'[k] = s
        /\ \A j \in Kinds \ {k} : table'[j] = table[j]
    BY <1>1, <2>3, <2>4, TableStep DEF TInv, TypeOK
  <2>7. QED
    BY <1>1, <1>2, <1>4, <2>2, <2>4, <2>5, <2>6
<1>7. CASE i \notin DOMAIN table[k]
  BY <1>1, <1>2, <1>4, <1>7 DEF TInv, TypeOK
<1>8. QED
  BY <1>6, <1>7

(* It ends, refused or sent; what was sent may be lost. *)
LEMMA SendEffect ==
  ASSUME TInv, NEW t \in Callers, SendJson(t)
  PROVE  /\ UNCHANGED <<tbVars, resub, handler, link, subs, useVars, stranded, restored, crashed>>
         /\ call[t].pc = "send" /\ call[t].req \in Requests /\ Table(t) \in Kinds
         /\ call' \in [Callers -> Call] /\ \A u \in Callers \ {t} : call'[u] = call[u]
         /\ call'[t].pc = "idle"
         /\ phase' \in [Requests -> Phases]
         /\ \A q \in Requests \ {call[t].req} : phase'[q] = phase[q]
         /\ phase'[call[t].req] \in {"refused", "sent"}
         /\ \/ UNCHANGED net
            \/ /\ phase'[call[t].req] = "sent"
               /\ net' = net \cup {[kind |-> Table(t), id |-> call[t].id, req |-> call[t].req]}
         /\ net' \subseteq Answers
<1> DEFINE r == call[t].req
           answer == [kind |-> Table(t), id |-> call[t].id, req |-> r]
<1>1. call[t].pc = "send" /\ r \in Requests /\ Table(t) \in Kinds /\ call[t] \in Call
  BY InCallAt DEF SendJson, Asks, RequestSteps, TInv, TypeOK
<1>2. /\ UNCHANGED <<tbVars, resub, handler, link, subs, useVars, stranded, restored, crashed>>
      /\ End(t)
      /\ \/ Becomes(r, "refused") /\ UNCHANGED net
         \/ Becomes(r, "sent") /\ net' \in {net \cup {answer}} \cup {net}
  BY DEF SendJson, Table
<1>3. answer \in Answers /\ net \subseteq Answers
  BY <1>1 DEF Answers, Call, TInv, TypeOK
<1>4. "refused" \in Phases /\ "sent" \in Phases
  BY DEF Phases
<1>5. /\ call' \in [Callers -> Call] /\ \A u \in Callers \ {t} : call'[u] = call[u]
      /\ call'[t].pc = "idle"
  BY <1>2, EndCall DEF TInv, TypeOK
<1>6. CASE Becomes(r, "refused") /\ UNCHANGED net
  BY <1>1, <1>2, <1>3, <1>4, <1>5, <1>6, PhaseStep DEF TInv, TypeOK
<1>7. CASE Becomes(r, "sent") /\ net' \in {net \cup {answer}} \cup {net}
  BY <1>1, <1>2, <1>3, <1>4, <1>5, <1>7, PhaseStep DEF TInv, TypeOK
<1>8. QED
  BY <1>2, <1>6, <1>7
-----------------------------------------------------------------------------
(* A request begins only with room for its slot. *)
LEMMA RequestTInv ==
  ASSUME TInv, NEW t \in Callers, NEW r \in Requests, Request(t, r)
  PROVE  TInv'
<1>1. /\ UNCHANGED <<registered, table, m_request_id, resub, handler, link, subs, net, use, faults,
                     calls, stranded, restored, crashed>>
      /\ call[t].pc = "idle"
      /\ t = "mqtt" => reentrant /\ handler.pc = "callback"
      /\ t = "app" /\ serial => handler.pc = "idle"
      /\ phase' \in [Requests -> Phases]
      /\ call' \in [Callers -> Call] /\ \A u \in Callers \ {t} : call'[u] = call[u]
      /\ \/ UNCHANGED call
         \/ /\ call'[t].pc = "subscribe" /\ call'[t].req = r
            /\ Kind[r] # "provision" => Len(table[Kind[r]]) < MaxFields
  BY RequestEffect DEF tbVars, mqttVars, useVars
<1>2. TypeOK'
  BY <1>1, SameUse DEF TInv, TypeOK
<1>3. CASE UNCHANGED call
  BY <1>1, <1>2, <1>3, TFrame
<1>4. CASE /\ call'[t].pc = "subscribe" /\ call'[t].req = r
           /\ Kind[r] # "provision" => Len(table[Kind[r]]) < MaxFields
  <2>1. call'[t].pc \in RequestSteps
    BY <1>4 DEF RequestSteps
  <2>2. QED
    BY <1>1, <1>2, <1>4, <2>1, TCall
<1>5. QED
  BY <1>1, <1>3, <1>4

(* It keeps its room across the subscription. *)
LEMMA SubscribeTInv ==
  ASSUME TInv, NEW t \in Callers, SubscribeAnswer(t)
  PROVE  TInv'
<1>1. /\ UNCHANGED <<registered, table, m_request_id, resub, handler, link, net, use, calls,
                     restored, crashed>>
      /\ call[t].pc = "subscribe" /\ call[t].req \in Requests
      /\ call' \in [Callers -> Call] /\ \A u \in Callers \ {t} : call'[u] = call[u]
      /\ phase' \in [Requests -> Phases]
      /\ subs' \subseteq Topics /\ stranded' \subseteq Topics /\ faults' \in 0 .. MaxFaults
      /\ (call'[t].pc = "push" /\ call'[t].req = call[t].req) \/ call'[t].pc = "idle"
  BY SubscribeEffect DEF tbVars
<1>2. TypeOK'
  BY <1>1, SameUse DEF TInv, TypeOK
<1>3. /\ t = "mqtt" => reentrant /\ handler.pc = "callback"
      /\ t = "app" /\ serial => handler.pc = "idle"
  BY <1>1, InCallAt
<1>4. "push" \in RequestSteps /\ "idle" \notin RequestSteps
  BY DEF RequestSteps
<1>5. OneCaller /\ Kind[call[t].req] # "provision" => Len(table[Kind[call[t].req]]) < MaxFields
  BY <1>1 DEF TInv, Room, Table
<1>6. CASE call'[t].pc = "idle"
  BY <1>1, <1>2, <1>3, <1>4, <1>6, TCall
<1>7. CASE call'[t].pc = "push" /\ call'[t].req = call[t].req
  BY <1>1, <1>2, <1>3, <1>4, <1>5, <1>7, TCall
<1>8. QED
  BY <1>1, <1>6, <1>7
(* A request in progress may go to its next step, or end. *)
LEMMA StaysInCall ==
  ASSUME TInv, NEW t \in Callers, Asks(t), UNCHANGED <<handler, use>>,
         \A u \in Callers \ {t} : call'[u] = call[u],
         call'[t].pc = "idle" \/ (call'[t].pc \in RequestSteps /\ call'[t].req = call[t].req),
         call'[t].pc \in {"back", "number"} => Table(t) # "provision"
  PROVE  InCall' /\ ByHandler' /\ Excluded'
<1>1. \A s \in RequestSteps \cup {"idle"} : s \notin {"enter", "insert", "clear", "leave"}
  BY DEF RequestSteps
<1>2. call[t].pc # "idle" /\ call[t].req \in Requests
  BY InCallAt DEF Asks, RequestSteps
<1>3. "idle" \notin RequestSteps /\ {"back", "number"} \subseteq RequestSteps
  BY DEF RequestSteps
<1>4. InCall'
  <2>1. SUFFICES ASSUME NEW u \in Callers
                 PROVE  /\ call'[u].pc \in RequestSteps => call'[u].req \in Requests
                        /\ call'[u].pc \in {"enter", "insert"} => call'[u].topic \in Lasting
                        /\ call'[u].pc \in {"clear", "leave"} => call'[u].leave # <<>>
                        /\ call'[u].pc \in {"back", "number"} => Kind[call'[u].req] # "provision"
    BY DEF InCall, Asks, Table
  <2>2. CASE u = t
    BY <1>1, <1>2, <1>3, <2>2 DEF Table
  <2>3. CASE u # t
    BY <2>3 DEF TInv, InCall, Asks, Table
  <2>4. QED
    BY <2>2, <2>3
<1>5. /\ t = "mqtt" => reentrant /\ handler.pc = "callback"
      /\ t = "app" /\ serial => handler.pc = "idle"
  BY <1>2, InCallAt
<1>6. ByHandler'
  <2>1. CASE t = "mqtt"
    BY <1>5, <2>1, SameUse DEF ByHandler, Asks
  <2>2. CASE t # "mqtt"
    BY <2>2, SameUse DEF TInv, ByHandler, Asks, Callers
  <2>3. QED
    BY <2>1, <2>2
<1>7. Excluded'
  <2>1. CASE t = "app"
    BY <1>5, <2>1, SameUse DEF Excluded
  <2>2. CASE t # "app"
    BY <2>2, SameUse DEF TInv, Excluded, Callers
  <2>3. QED
    BY <2>1, <2>2
<1>8. QED
  BY <1>4, <1>6, <1>7

(* A caller in a step that needs no room: nobody else is in a request. *)
LEMMA NoRoomNeeded ==
  ASSUME TInv, NEW t \in Callers, Asks(t), UNCHANGED use,
         \A u \in Callers \ {t} : call'[u] = call[u], call'[t].pc \notin {"subscribe", "push"}
  PROVE  Room'
<1>1. SUFFICES ASSUME OneCaller', NEW u \in Callers, call'[u].pc \in {"subscribe", "push"}
               PROVE  FALSE
  BY DEF Room
<1>2. u # t /\ call[u].pc \in {"subscribe", "push"}
  BY <1>1
<1>3. Asks(u) /\ OneCaller
  BY <1>1, <1>2, SameUse DEF Asks, RequestSteps
<1>4. QED
  BY <1>2, <1>3, OneAtATime

(* It takes the room it was promised. *)
LEMMA PushTInv ==
  ASSUME TInv, NEW t \in Callers, PushBack(t)
  PROVE  TInv'
<1> DEFINE k == Table(t)
           n == Len(table[k])
<1>1. /\ UNCHANGED <<registered, m_request_id, resub, handler, link, subs, net, use, faults, calls,
                     stranded, restored, crashed>>
      /\ call[t].pc = "push" /\ call[t].req \in Requests /\ k \in Kinds
      /\ call' \in [Callers -> Call] /\ \A u \in Callers \ {t} : call'[u] = call[u]
      /\ call'[t].req = call[t].req
      /\ phase' \in [Requests -> Phases]
      /\ table' \in [Kinds -> Seq(Slot)] /\ \A j \in Kinds \ {k} : table'[j] = table[j]
      /\ \/ /\ k = "provision" /\ call'[t].pc = "send"
            /\ DOMAIN table'[k] = {1} /\ Len(table'[k]) = 1
            /\ table'[k][1].req = call[t].req
         \/ /\ k # "provision" /\ call'[t].pc = "back"
            /\ n \in Nat /\ DOMAIN table[k] = 1 .. n /\ DOMAIN table'[k] = 1 .. n + 1
            /\ Len(table'[k]) = n + 1
            /\ \A i \in 1 .. n : table'[k][i] = table[k][i]
            /\ table'[k][n + 1].req = call[t].req
  <2>1. [req |-> call[t].req, id |-> 0].req = call[t].req
    OBVIOUS
  <2>2. UNCHANGED <<registered, m_request_id, resub, handler, link, subs, net, use, faults, calls,
                    stranded, restored, crashed>>
    BY PushEffect DEF mqttVars, useVars
  <2>3. QED
    BY <2>1, <2>2, PushEffect
<1>2. Asks(t) /\ {"send", "back"} \subseteq RequestSteps
  BY <1>1 DEF Asks, RequestSteps
<1>3. InCall' /\ ByHandler' /\ Excluded'
  BY <1>1, <1>2, StaysInCall
<1>4. Room'
  BY <1>1, <1>2, NoRoomNeeded
<1>5. OfTheirKind'
  <2>1. Kind[call[t].req] = k
    BY DEF Table
  <2>2. \A i \in DOMAIN table'[k] : Kind[table'[k][i].req] = k
    <3>1. CASE k = "provision"
      BY <1>1, <2>1, <3>1
    <3>2. CASE k # "provision"
      <4>1. \A i \in 1 .. n + 1 : i \in 1 .. n \/ i = n + 1
        BY <1>1, <3>2
      <4>2. QED
        BY <1>1, <2>1, <3>2, <4>1 DEF TInv, OfTheirKind
    <3>3. QED
      BY <3>1, <3>2
  <2>3. QED
    BY <1>1, <2>2 DEF TInv, OfTheirKind
<1>6. OneCaller' => \A j \in Kinds : Len(table'[j]) <= MaxFields
  <2>1. SUFFICES ASSUME OneCaller PROVE \A j \in Kinds : Len(table'[j]) <= MaxFields
    BY <1>1, SameUse
  <2>2. k # "provision" => n < MaxFields
    BY <1>1, <2>1 DEF TInv, Room
  <2>3. Len(table'[k]) <= MaxFields
    <3>1. MaxFields \in Nat /\ 1 <= MaxFields
      BY ClientAssumption
    <3>2. Len(table'[k]) = 1 \/ (n \in Nat /\ Len(table'[k]) = n + 1 /\ n < MaxFields)
      BY <1>1, <2>2
    <3>3. CASE Len(table'[k]) = 1
      BY <3>1, <3>3
    <3>4. CASE n \in Nat /\ Len(table'[k]) = n + 1 /\ n < MaxFields
      BY <3>1, <3>4
    <3>5. QED
      BY <3>2, <3>3, <3>4
  <2>4. QED
    BY <1>1, <2>1, <2>3 DEF TInv, TypeOK
<1>7. TypeOK'
  BY <1>1, <1>6 DEF TInv, TypeOK
<1>8. Handled'
  <2>1. SUFFICES ASSUME ~crashed, handler.pc = "callback", handler.kind # "provision"
                 PROVE  handler.slot \in DOMAIN table'[handler.kind]
    BY <1>1 DEF Handled
  <2>2. handler.kind \in Kinds /\ handler.slot \in DOMAIN table[handler.kind]
    BY <2>1 DEF TInv, Handled, TypeOK, HandlerType
  <2>3. CASE handler.kind # k
    BY <1>1, <2>2, <2>3
  <2>4. CASE handler.kind = k
    <3>1. n \in Nat /\ DOMAIN table[k] = 1 .. n /\ DOMAIN table'[k] = 1 .. n + 1
      BY <1>1, <2>1, <2>4
    <3>2. QED
      BY <2>2, <2>4, <3>1
  <2>5. QED
    BY <2>3, <2>4
<1>9. QED
  BY <1>3, <1>4, <1>5, <1>7, <1>8 DEF TInv

(* The address of a slot leaves the vectors alone. *)
LEMMA BackTInv ==
  ASSUME TInv, ~crashed, NEW t \in Callers, Back(t)
  PROVE  TInv'
<1>1. /\ UNCHANGED <<registered, table, m_request_id, resub, handler, link, subs, net, use, faults,
                     calls, phase, stranded, restored>>
      /\ call[t].pc = "back" /\ crashed' \in BOOLEAN
      /\ call' \in [Callers -> Call] /\ \A u \in Callers \ {t} : call'[u] = call[u]
      /\ call'[t].pc = "number" /\ call'[t].req = call[t].req /\ Table(t) # "provision"
  BY BackEffect DEF tbVars, mqttVars, useVars
<1>2. Asks(t) /\ "number" \in RequestSteps
  BY <1>1 DEF Asks, RequestSteps
<1>3. InCall' /\ ByHandler' /\ Excluded'
  BY <1>1, <1>2, StaysInCall
<1>4. Room'
  BY <1>1, <1>2, NoRoomNeeded
<1>5. OfTheirKind' /\ Handled'
  BY <1>1 DEF TInv, OfTheirKind, Handled
<1>6. TypeOK'
  BY <1>1, SameUse DEF TInv, TypeOK
<1>7. QED
  BY <1>3, <1>4, <1>5, <1>6 DEF TInv

(* Numbering leaves the length of the vector. *)
LEMMA NumberTInv ==
  ASSUME TInv, NEW t \in Callers, SetRequestId(t)
  PROVE  TInv'
<1> DEFINE k == Table(t)
<1>1. /\ UNCHANGED <<registered, resub, handler, link, subs, net, use, faults, calls, phase,
                     stranded, restored, crashed>>
      /\ call[t].pc = "number" /\ k \in Kinds
      /\ call' \in [Callers -> Call] /\ \A u \in Callers \ {t} : call'[u] = call[u]
      /\ m_request_id' = m_request_id + 1
      /\ call'[t].pc = "send" /\ call'[t].req = call[t].req
      /\ table' \in [Kinds -> Seq(Slot)] /\ \A j \in Kinds \ {k} : table'[j] = table[j]
      /\ Len(table'[k]) = Len(table[k]) /\ DOMAIN table'[k] = DOMAIN table[k]
      /\ \A j \in DOMAIN table[k] : table'[k][j].req = table[k][j].req
  BY NumberEffect DEF mqttVars, useVars, pastVars
<1>2. Asks(t) /\ "send" \in RequestSteps
  BY <1>1 DEF Asks, RequestSteps
<1>3. InCall' /\ ByHandler' /\ Excluded'
  BY <1>1, <1>2, StaysInCall
<1>4. Room'
  BY <1>1, <1>2, NoRoomNeeded
<1>5. OfTheirKind'
  <2>1. \A j \in Kinds : /\ DOMAIN table'[j] = DOMAIN table[j]
                         /\ \A i \in DOMAIN table[j] : table'[j][i].req = table[j][i].req
    BY <1>1
  <2>2. QED
    BY <1>1, <2>1 DEF TInv, OfTheirKind
<1>6. \A j \in Kinds : Len(table'[j]) = Len(table[j])
  BY <1>1
<1>7. TypeOK'
  BY <1>1, <1>6, SameUse DEF TInv, TypeOK
<1>8. Handled'
  <2>1. \A j \in Kinds : DOMAIN table'[j] = DOMAIN table[j]
    BY <1>1
  <2>2. handler.kind \in Kinds
    BY DEF TInv, TypeOK, HandlerType
  <2>3. QED
    BY <1>1, <2>1, <2>2 DEF TInv, Handled
<1>9. QED
  BY <1>3, <1>4, <1>5, <1>7, <1>8 DEF TInv

(* An answer is of the kind of its request. *)
LEMMA SendTInv ==
  ASSUME TInv, NEW t \in Callers, SendJson(t)
  PROVE  TInv'
<1>1. /\ UNCHANGED <<registered, table, m_request_id, resub, handler, link, subs, use, faults, calls,
                     stranded, restored, crashed>>
      /\ call[t].pc = "send"
      /\ call' \in [Callers -> Call] /\ \A u \in Callers \ {t} : call'[u] = call[u]
      /\ call'[t].pc = "idle"
      /\ phase' \in [Requests -> Phases]
      /\ net' \subseteq Answers
      /\ net' \subseteq net \cup {[kind |-> Table(t), id |-> call[t].id, req |-> call[t].req]}
  BY SendEffect DEF tbVars, useVars
<1>2. Asks(t)
  BY <1>1 DEF Asks, RequestSteps
<1>3. InCall' /\ ByHandler' /\ Excluded'
  <2>1. UNCHANGED <<handler, use>> /\ call'[t].pc \notin {"back", "number"}
    BY <1>1
  <2>2. QED
    BY <1>1, <1>2, <2>1, StaysInCall
<1>4. Room'
  BY <1>1, <1>2, NoRoomNeeded
<1>5. OfTheirKind'
  BY <1>1 DEF TInv, OfTheirKind, Table
<1>6. TypeOK'
  BY <1>1, SameUse DEF TInv, TypeOK
<1>7. Handled'
  BY <1>1 DEF TInv, Handled
<1>8. QED
  BY <1>3, <1>4, <1>5, <1>6, <1>7 DEF TInv
-----------------------------------------------------------------------------
(* What the event task does. *)
LEMMA DeliverEffect ==
  ASSUME TInv, NEW a \in net, Deliver(a)
  PROVE  /\ UNCHANGED <<tbVars, call, resub, link, subs, useVars, stranded, restored, crashed>>
         /\ handler.pc = "idle" /\ link = "up" /\ call["mqtt"].pc = "idle"
         /\ serial => call["app"].pc = "idle"
         /\ net' = net \ {a} /\ a \in Answers
         /\ handler' \in HandlerType /\ phase' \in [Requests -> Phases]
         /\ \/ UNCHANGED <<handler, phase>>
            \/ /\ UNCHANGED phase /\ handler'.kind = a.kind
               /\ Matching(a.kind, a.id) = {}
               /\ handler'.pc = IF a.kind = "provision" THEN "clear" ELSE "test"
            \/ /\ handler'.pc = "callback" /\ handler'.kind = a.kind
               /\ handler'.slot \in Matching(a.kind, a.id)
               /\ handler'.slot \in DOMAIN table[a.kind]
               /\ LET r == table[a.kind][handler'.slot].req
                  IN /\ r \in Requests /\ \A q \in Requests \ {r} : phase'[q] = phase[q]
                     /\ phase'[r] = IF r = a.req THEN "answered" ELSE "confused"
<1>1. /\ UNCHANGED <<tbVars, call, resub, link, subs, useVars, stranded, restored, crashed>>
      /\ handler.pc = "idle" /\ link = "up"
      /\ serial => call["app"].pc = "idle"
      /\ net' = net \ {a}
  BY DEF Deliver
<1>2. a \in Answers /\ handler \in HandlerType /\ phase \in [Requests -> Phases]
  BY DEF TInv, TypeOK
<1>3. a.kind \in Kinds
  BY <1>2 DEF Answers
<1>4. call["mqtt"].pc = "idle"
  BY <1>1 DEF TInv, ByHandler
<1>5. CASE UNCHANGED <<handler, phase>>
  BY <1>1, <1>2, <1>4, <1>5
<1>6. CASE /\ Matching(a.kind, a.id) = {} /\ UNCHANGED phase
           /\ handler' = [pc |-> IF a.kind = "provision" THEN "clear" ELSE "test",
                          kind |-> a.kind, slot |-> 0]
  <2>1. /\ handler' \in HandlerType /\ handler'.kind = a.kind
        /\ handler'.pc = IF a.kind = "provision" THEN "clear" ELSE "test"
    BY <1>3, <1>6 DEF HandlerType
  <2>2. QED
    BY <1>1, <1>2, <1>4, <1>6, <2>1
<1>7. ASSUME NEW i \in Matching(a.kind, a.id),
             handler' = [pc |-> "callback", kind |-> a.kind, slot |-> i],
             Becomes(table[a.kind][i].req,
                     IF table[a.kind][i].req = a.req THEN "answered" ELSE "confused")
      PROVE  /\ handler' \in HandlerType /\ phase' \in [Requests -> Phases]
             /\ handler'.pc = "callback" /\ handler'.kind = a.kind
             /\ handler'.slot \in Matching(a.kind, a.id)
             /\ handler'.slot \in DOMAIN table[a.kind]
             /\ LET r == table[a.kind][handler'.slot].req
                IN /\ r \in Requests /\ \A q \in Requests \ {r} : phase'[q] = phase[q]
                   /\ phase'[r] = IF r = a.req THEN "answered" ELSE "confused"
  <2> DEFINE r == table[a.kind][i].req
  <2>1. table[a.kind] \in Seq(Slot) /\ DOMAIN table[a.kind] = 1 .. Len(table[a.kind])
    BY <1>3, LenProperties DEF TInv, TypeOK
  <2>2. i \in DOMAIN table[a.kind] /\ i \in Nat
    BY <2>1 DEF Matching
  <2>3. r \in Requests
    <3>1. table[a.kind][i] \in Slot
      BY <2>1, <2>2, ElementOfSeq
    <3>2. QED
      BY <3>1 DEF Slot
  <2>4. /\ handler' \in HandlerType /\ handler'.pc = "callback" /\ handler'.kind = a.kind
        /\ handler'.slot = i
    BY <1>3, <1>7, <2>2 DEF HandlerType
  <2>5. {"answered", "confused"} \subseteq Phases
    BY DEF Phases
  <2>6. /\ phase' \in [Requests -> Phases] /\ \A q \in Requests \ {r} : phase'[q] = phase[q]
        /\ phase'[r] = IF r = a.req THEN "answered" ELSE "confused"
    BY <1>2, <1>7, <2>3, <2>5, PhaseStep
  <2>7. QED
    BY <2>2, <2>3, <2>4, <2>6
<1>8. QED
  <2>1. \/ UNCHANGED <<handler, phase>>
        \/ /\ Matching(a.kind, a.id) = {} /\ UNCHANGED phase
           /\ handler' = [pc |-> IF a.kind = "provision" THEN "clear" ELSE "test",
                          kind |-> a.kind, slot |-> 0]
        \/ \E i \in Matching(a.kind, a.id) :
             /\ handler' = [pc |-> "callback", kind |-> a.kind, slot |-> i]
             /\ Becomes(table[a.kind][i].req,
                        IF table[a.kind][i].req = a.req THEN "answered" ELSE "confused")
    BY DEF Deliver
  <2>2. QED
    BY <1>1, <1>2, <1>4, <1>5, <1>6, <1>7, <2>1

(* The slot of the answer is there, and is erased. *)
LEMMA RemoveEffect ==
  ASSUME TInv, ~crashed, RemoveCallback
  PROVE  /\ UNCHANGED <<registered, m_request_id, call, resub, mqttVars, useVars, pastVars>>
         /\ handler.pc = "callback" /\ call["mqtt"].pc = "idle"
         /\ handler \in HandlerType /\ handler' \in HandlerType
         /\ handler'.kind = handler.kind /\ handler'.slot = handler.slot
         /\ LET k == handler.kind
                i == handler.slot
            IN \/ k = "provision" /\ handler'.pc = "clear" /\ UNCHANGED table
               \/ /\ k # "provision" /\ handler'.pc = "test" /\ i \in DOMAIN table[k]
                  /\ table' = [table EXCEPT ![k] = RemoveAt(@, i)]
<1>1. handler \in HandlerType
  BY DEF TInv, TypeOK
<1>2. ASSUME NEW s \in {"clear", "test"}, handler' = [handler EXCEPT !.pc = s]
      PROVE  /\ handler' \in HandlerType /\ handler'.pc = s
             /\ handler'.kind = handler.kind /\ handler'.slot = handler.slot
  BY <1>1, <1>2 DEF HandlerType
<1>3. handler.kind # "provision" /\ handler.pc = "callback" => handler.slot \in DOMAIN table[handler.kind]
  BY DEF TInv, Handled
<1>4. QED
  BY <1>1, <1>2, <1>3 DEF RemoveCallback

(* The topic is left behind an empty table only. *)
LEMMA TestEffect ==
  ASSUME TInv, TestEmpty
  PROVE  /\ UNCHANGED <<tbVars, call, resub, mqttVars, useVars, pastVars>>
         /\ handler.pc = "test" /\ handler \in HandlerType /\ handler' \in HandlerType
         /\ \/ /\ table[handler.kind] = <<>> /\ handler'.pc = "clear"
               /\ handler'.kind = handler.kind
            \/ table[handler.kind] # <<>> /\ handler'.pc = "idle"
<1>1. handler \in HandlerType
  BY DEF TInv, TypeOK
<1>2. NoHandler \in HandlerType /\ NoHandler.pc = "idle"
  BY DEF NoHandler, HandlerType, Kinds
<1>3. [handler EXCEPT !.pc = "clear"] \in HandlerType
  BY <1>1 DEF HandlerType
<1>4. [handler EXCEPT !.pc = "clear"].pc = "clear"
      /\ [handler EXCEPT !.pc = "clear"].kind = handler.kind
  BY <1>1 DEF HandlerType
<1>5. QED
  BY <1>1, <1>2, <1>3, <1>4 DEF TestEmpty

(* The whole table is cleared before its topic is left. *)
LEMMA ClearEffect ==
  ASSUME TInv, ClearTable
  PROVE  /\ UNCHANGED <<registered, m_request_id, call, resub, mqttVars, useVars, stranded, restored,
                        crashed>>
         /\ handler.pc = "clear" /\ handler.kind \in Kinds /\ Forget(handler.kind)
         /\ handler' \in HandlerType
         /\ handler'.pc = "unsubscribe" /\ handler'.kind = handler.kind
<1>1. handler \in HandlerType
  BY DEF TInv, TypeOK
<1>2. /\ [handler EXCEPT !.pc = "unsubscribe"] \in HandlerType
      /\ [handler EXCEPT !.pc = "unsubscribe"].pc = "unsubscribe"
      /\ [handler EXCEPT !.pc = "unsubscribe"].kind = handler.kind
      /\ handler.kind \in Kinds
  BY <1>1 DEF HandlerType
<1>3. QED
  BY <1>2 DEF ClearTable

(* The topic is left, unless that fails. *)
LEMMA LeaveEffect ==
  ASSUME TInv, LeaveAnswers
  PROVE  /\ UNCHANGED <<tbVars, call, resub, link, net, use, calls, pastVars>>
         /\ handler.pc = "unsubscribe" /\ handler.kind \in Kinds
         /\ handler' \in HandlerType /\ handler'.pc = "idle"
         /\ subs' \subseteq Topics /\ faults' \in 0 .. MaxFaults
         /\ subs \ {handler.kind} \subseteq subs' /\ subs' \subseteq subs
         /\ stable /\ link = "up" => handler.kind \notin subs'
<1>1. handler.kind \in Kinds /\ handler.kind \in Topics
  BY DEF TInv, TypeOK, HandlerType, Topics
<1>2. NoHandler \in HandlerType /\ NoHandler.pc = "idle"
  BY DEF NoHandler, HandlerType, Kinds
<1>3. Unsubscribe(handler.kind) /\ handler' = NoHandler /\ handler.pc = "unsubscribe"
      /\ UNCHANGED <<tbVars, call, resub, link, net, use, calls, pastVars>>
  BY DEF LeaveAnswers
<1>4. QED
  BY <1>1, <1>2, <1>3, UnsubscribeStep DEF TInv
-----------------------------------------------------------------------------
(* An answer is taken up only when the handler is done with the last one. *)
LEMMA DeliverTInv ==
  ASSUME TInv, NEW a \in net, Deliver(a)
  PROVE  TInv'
<1>1. /\ UNCHANGED <<registered, table, m_request_id, call, resub, link, subs, use, faults, calls,
                     stranded, restored, crashed>>
      /\ net' \subseteq net /\ net' \subseteq Answers
      /\ handler' \in HandlerType /\ phase' \in [Requests -> Phases]
  <2>1. net \subseteq Answers
    BY DEF TInv, TypeOK
  <2>2. QED
    BY <2>1, DeliverEffect DEF tbVars, useVars
<1>2. call["mqtt"].pc = "idle" /\ (serial => call["app"].pc = "idle")
  BY DeliverEffect
<1>3. TypeOK'
  BY <1>1, SameUse DEF TInv, TypeOK
<1>4. ByHandler' /\ Excluded'
  BY <1>1, <1>2, SameUse DEF ByHandler, Excluded
<1>5. InCall' /\ OfTheirKind' /\ Room'
  BY <1>1, SameUse DEF TInv, InCall, OfTheirKind, Room, Asks, Table
<1>6. Handled'
  <2>1. /\ UNCHANGED table /\ handler.pc = "idle"
        /\ \/ UNCHANGED handler
           \/ handler'.pc # "callback"
           \/ handler'.kind = a.kind /\ handler'.slot \in DOMAIN table[a.kind]
    BY DeliverEffect DEF tbVars
  <2>2. QED
    BY <2>1 DEF Handled
<1>7. QED
  BY <1>3, <1>4, <1>5, <1>6 DEF TInv

(* The handler's own steps leave the calls alone, and wait for the one     *)
(* from the callback.                                                      *)
LEMMA HandlerTInv == TInv /\ ~crashed /\ HandlerStep => TInv'
<1>1. SUFFICES ASSUME TInv, ~crashed, HandlerStep PROVE TInv'
  OBVIOUS
<1>2. ASSUME UNCHANGED <<registered, m_request_id, call, resub, link, net, use, calls, stranded,
                         restored>>,
             call["mqtt"].pc = "idle", handler.pc # "idle", handler' \in HandlerType,
             handler'.pc # "callback",
             table' \in [Kinds -> Seq(Slot)], UNCHANGED table \/ \E k \in Kinds : Shrinks(k),
             subs' \subseteq Topics, faults' \in 0 .. MaxFaults,
             phase' \in [Requests -> Phases], crashed' \in BOOLEAN
      PROVE  TInv'
  <2>1. serial => call["app"].pc = "idle"
    BY <1>1, <1>2 DEF TInv, Excluded
  <2>2. ByHandler' /\ Excluded' /\ InCall'
    BY <1>1, <1>2, <2>1, SameUse DEF TInv, ByHandler, Excluded, InCall, Asks, Table
  <2>3. /\ OneCaller' => \A j \in Kinds : Len(table'[j]) <= MaxFields
        /\ OfTheirKind' /\ Room'
    <3>1. CASE UNCHANGED table
      BY <1>1, <1>2, <3>1, SameUse DEF TInv, TypeOK, OfTheirKind, Room, Table
    <3>2. ASSUME NEW k \in Kinds, Shrinks(k)
          PROVE  /\ OneCaller' => \A j \in Kinds : Len(table'[j]) <= MaxFields
                 /\ OfTheirKind' /\ Room'
      BY <1>1, <1>2, <3>2, TShrink
    <3>3. QED
      BY <1>2, <3>1, <3>2
  <2>4. TypeOK'
    BY <1>1, <1>2, <2>3 DEF TInv, TypeOK
  <2>5. Handled'
    BY <1>2 DEF Handled
  <2>6. QED
    BY <2>2, <2>3, <2>4, <2>5 DEF TInv
<1>3. handler.pc # "callback" => call["mqtt"].pc = "idle"
  BY <1>1 DEF TInv, ByHandler
<1>4. /\ table \in [Kinds -> Seq(Slot)] /\ subs \subseteq Topics /\ faults \in 0 .. MaxFaults
      /\ phase \in [Requests -> Phases] /\ crashed \in BOOLEAN /\ handler \in HandlerType
  BY <1>1 DEF TInv, TypeOK
<1>5. CASE RemoveCallback
  <2>1. /\ UNCHANGED <<registered, m_request_id, call, resub, link, net, use, calls, stranded,
                       restored, subs, faults, phase>>
        /\ call["mqtt"].pc = "idle" /\ handler.pc # "idle" /\ handler' \in HandlerType
        /\ handler'.pc # "callback" /\ UNCHANGED crashed
    BY <1>1, <1>4, <1>5, RemoveEffect DEF mqttVars, useVars, pastVars
  <2>2. /\ table' \in [Kinds -> Seq(Slot)]
        /\ UNCHANGED table \/ \E k \in Kinds : Shrinks(k)
    <3>1. CASE UNCHANGED table
      BY <1>4, <3>1
    <3>2. CASE /\ handler.slot \in DOMAIN table[handler.kind]
               /\ table' = [table EXCEPT ![handler.kind] = RemoveAt(@, handler.slot)]
      <4>1. handler.kind \in Kinds
        BY <1>4 DEF HandlerType
      <4>2. QED
        BY <1>1, <3>2, <4>1, RemoveTable DEF TInv
    <3>3. QED
      BY <1>1, <1>5, <3>1, <3>2, RemoveEffect
  <2>3. QED
    BY <1>2, <1>4, <2>1, <2>2
<1>6. CASE TestEmpty
  <2>1. /\ UNCHANGED <<registered, table, m_request_id, call, resub, link, net, use, calls, stranded,
                       restored, subs, faults, phase, crashed>>
        /\ handler.pc = "test" /\ handler' \in HandlerType /\ handler'.pc # "callback"
    BY <1>1, <1>6, TestEffect DEF tbVars, mqttVars, useVars, pastVars
  <2>2. QED
    BY <1>2, <1>3, <1>4, <2>1
<1>7. CASE ClearTable
  <2>1. /\ UNCHANGED <<registered, m_request_id, call, resub, link, net, use, calls, stranded,
                       restored, subs, faults, crashed>>
        /\ handler.pc = "clear" /\ handler' \in HandlerType /\ handler'.pc # "callback"
        /\ handler.kind \in Kinds /\ Forget(handler.kind)
    BY <1>1, <1>7, ClearEffect DEF mqttVars, useVars
  <2>2. table' \in [Kinds -> Seq(Slot)] /\ Shrinks(handler.kind)
    BY <1>1, <2>1, ForgetTable DEF TInv
  <2>3. phase' \in [Requests -> Phases]
    BY <1>1, <2>1, ForgetPhase DEF Forget, TInv
  <2>4. QED
    BY <1>2, <1>3, <1>4, <2>1, <2>2, <2>3
<1>8. CASE LeaveAnswers
  <2>1. /\ UNCHANGED <<registered, table, m_request_id, call, resub, link, net, use, calls, stranded,
                       restored, phase, crashed>>
        /\ handler.pc = "unsubscribe" /\ handler' \in HandlerType /\ handler'.pc # "callback"
        /\ subs' \subseteq Topics /\ faults' \in 0 .. MaxFaults
    BY <1>1, <1>8, LeaveEffect DEF tbVars, pastVars
  <2>2. QED
    BY <1>2, <1>3, <1>4, <2>1
<1>9. QED
  BY <1>1, <1>5, <1>6, <1>7, <1>8 DEF HandlerStep

(* The next-state relation, by who takes the step. *)
LEMMA NextCases ==
  ASSUME Next
  PROVE  /\ ~crashed
         /\ \/ Network \/ Publisher \/ Begin \/ AppStep \/ HandlerStep \/ Race
            \/ \E t \in Callers : \E r \in Requests : Request(t, r)
            \/ \E t \in Callers : RequestStep(t)
            \/ \E a \in net : Deliver(a)
  BY DEF Next, Begin

(* Every step keeps the invariant. *)
LEMMA NextTInv == TInv /\ [Next]_vars => TInv'
<1>1. SUFFICES ASSUME TInv, [Next]_vars PROVE TInv'
  OBVIOUS
<1>2. CASE UNCHANGED vars
  <2>1. UNCHANGED <<registered, table, m_request_id, call, resub, handler, link, subs, net, use,
                    faults, calls, phase, stranded, restored, crashed>>
    BY <1>2 DEF vars, tbVars, mqttVars, useVars, pastVars
  <2>2. TypeOK'
    BY <1>1, <2>1, SameUse DEF TInv, TypeOK
  <2>3. QED
    BY <1>1, <2>1, <2>2, TFrame
<1>3. CASE Network
  BY <1>1, <1>3, NetworkTInv
<1>4. CASE Publisher
  BY <1>1, <1>4, PublisherTInv
<1>5. CASE Begin
  BY <1>1, <1>5, BeginTInv
<1>6. CASE ~crashed /\ AppStep
  BY <1>1, <1>6, AppTInv
<1>7. CASE \E t \in Callers : \E r \in Requests : Request(t, r)
  BY <1>1, <1>7, RequestTInv
<1>8. CASE ~crashed /\ \E t \in Callers : RequestStep(t)
  BY <1>1, <1>8, SubscribeTInv, PushTInv, BackTInv, NumberTInv, SendTInv DEF RequestStep
<1>9. CASE \E a \in net : Deliver(a)
  BY <1>1, <1>9, DeliverTInv
<1>10. CASE ~crashed /\ HandlerStep
  BY <1>1, <1>10, HandlerTInv
<1>11. CASE Race
  <2>1. /\ UNCHANGED <<registered, table, m_request_id, call, resub, handler, link, subs, net, use,
                       faults, calls, phase, stranded, restored>>
        /\ crashed' = TRUE
    BY <1>11 DEF Race, tbVars, mqttVars, useVars
  <2>2. TypeOK'
    BY <1>1, <2>1, SameUse DEF TInv, TypeOK
  <2>3. QED
    BY <1>1, <2>1, <2>2, TFrame
<1>12. QED
  BY <1>1, <1>2, <1>3, <1>4, <1>5, <1>6, <1>7, <1>8, <1>9, <1>10, <1>11, NextCases

(* Every reachable state satisfies the invariant, in every use. *)
LEMMA AlwaysTInv == Spec => []TInv
  BY InitTInv, NextTInv, PTL DEF Spec

(* The state of the client keeps its types in every use of it, and unless  *)
(* two tasks can be in a request at once the vectors of callbacks stay     *)
(* within what they have reserved: the room a request was promised is      *)
(* still there when it takes it (ThingsBoard.h:1496-1509).                 *)
THEOREM TypeCorrect == Spec => []TypeOK
<1>1. TInv => TypeOK
  BY DEF TInv
<1>2. QED
  BY <1>1, AlwaysTInv, PTL
-----------------------------------------------------------------------------
(* Listening.  A topic is heard from when it is subscribed until it is     *)
(* left, or would be had its connection lasted.                            *)
Heard == subs \cup stranded

(* Who is about to wait for something has subscribed to it; who is about   *)
(* to unsubscribe from a topic left nothing behind that waits for it.      *)
CallsHeard == /\ \A t \in Callers :
                   call[t].pc \in {"push", "back", "number", "send"} => Table(t) \in Heard
              /\ call["app"].pc = "insert" => call["app"].topic \in Heard
NothingLeft == /\ call["app"].pc = "leave" =>
                    LET k == Head(call["app"].leave)
                    IN k \notin registered /\ (k \in Kinds => table[k] = <<>>)
               /\ handler.pc = "unsubscribe" => table[handler.kind] = <<>>
WantedHeard == registered \subseteq Heard /\ \A k \in Kinds : Pending(k) => k \in Heard

HInv == serial => CallsHeard /\ NothingLeft /\ WantedHeard

(* A slot holds a request of the kind of its table. *)
LEMMA SlotType ==
  ASSUME TInv, NEW k \in Kinds, NEW i \in DOMAIN table[k]
  PROVE  table[k][i].req \in Requests /\ table[k][i].id \in Nat /\ Kind[table[k][i].req] = k
<1>1. table[k] \in Seq(Slot) /\ DOMAIN table[k] = 1 .. Len(table[k])
  BY LenProperties DEF TInv, TypeOK
<1>2. table[k][i] \in Slot
  BY <1>1, ElementOfSeq
<1>3. QED
  BY <1>2 DEF Slot, TInv, OfTheirKind

(* Nothing new is waited for unless something is sent. *)
LEMMA PendingDown ==
  ASSUME TInv, TInv', UNCHANGED table \/ \E k \in Kinds : Shrinks(k),
         \A q \in Requests : phase'[q] = "sent" => phase[q] = "sent"
  PROVE  \A k \in Kinds : Pending(k)' => Pending(k)
<1>1. SUFFICES ASSUME NEW k \in Kinds, NEW i \in DOMAIN table'[k],
                      phase'[table'[k][i].req] = "sent"
               PROVE  \E j \in DOMAIN table[k] : phase[table[k][j].req] = "sent"
  BY DEF Pending
<1>2. PICK j \in DOMAIN table[k] : table'[k][i] = table[k][j]
  BY <1>1 DEF Shrinks
<1>3. table[k][j].req \in Requests
  BY SlotType
<1>4. QED
  BY <1>1, <1>2, <1>3

(* A table without slots stays so when one shrinks. *)
LEMMA EmptyStays ==
  ASSUME TInv, TInv', UNCHANGED table \/ \E k \in Kinds : Shrinks(k),
         NEW j \in Kinds, table[j] = <<>>
  PROVE  table'[j] = <<>>
<1>1. CASE UNCHANGED table
  BY <1>1
<1>2. ASSUME NEW k \in Kinds, Shrinks(k)
      PROVE  table'[j] = <<>>
  <2>1. table[j] \in Seq(Slot) /\ table'[j] \in Seq(Slot)
    BY DEF TInv, TypeOK
  <2>2. Len(table[j]) = 0 /\ Len(table'[j]) \in Nat
    BY <2>1, EmptySeq, LenProperties
  <2>3. table'[j] = table[j] \/ Len(table'[j]) < Len(table[j])
    BY <1>2 DEF Shrinks
  <2>4. QED
    BY <2>2, <2>3
<1>3. QED
  BY <1>1, <1>2

(* A call into a request keeps the others from leaving anything. *)
LEMMA NobodyLeaves ==
  ASSUME TInv, serial, NEW t \in Callers, Asks(t)
  PROVE  handler.pc \notin {"test", "clear", "unsubscribe"}
         /\ call["app"].pc \notin {"enter", "insert", "clear", "leave"}
<1>1. call[t].pc # "idle"
  BY DEF Asks, RequestSteps
<1>2. CASE t = "app"
  BY <1>1, <1>2, InCallAt DEF Asks, RequestSteps
<1>3. CASE t = "mqtt"
  <2>1. handler.pc = "callback"
    BY <1>1, <1>3, InCallAt
  <2>2. call["app"].pc = "idle"
    BY <2>1 DEF TInv, Excluded
  <2>3. QED
    BY <2>1, <2>2
<1>4. QED
  BY <1>2, <1>3 DEF Callers

(* Nothing is waited for yet. *)
LEMMA InitHInv == Init => HInv
<1>1. SUFFICES ASSUME Init PROVE HInv
  OBVIOUS
<1>2. /\ \A t \in Callers : call[t].pc = "idle"
      /\ handler.pc = "idle" /\ registered = {} /\ "app" \in Callers
  BY <1>1, IdleType DEF Init, NoHandler, Callers
<1>3. \A k \in Kinds : ~Pending(k)
  BY <1>1 DEF Init, Pending
<1>4. QED
  BY <1>2, <1>3 DEF HInv, CallsHeard, NothingLeft, WantedHeard

(* Steps that leave the calls and the tables alone, and no topic. *)
LEMMA HFrame ==
  ASSUME HInv, UNCHANGED <<registered, table, call, handler, phase, use>>, Heard \subseteq Heard'
  PROVE  HInv'
<1>1. \A k \in Kinds : Pending(k)' => Pending(k)
  BY DEF Pending
<1>2. QED
  BY <1>1, SameUse DEF HInv, CallsHeard, NothingLeft, WantedHeard, Table

(* A lost connection strands what was subscribed, and loses nothing else. *)
LEMMA NetworkHInv == TInv /\ HInv /\ Network => HInv'
  BY HFrame DEF Network, Attempt, Disconnect, AutoReconnect, tbVars, useVars, pastVars, Heard

(* Resubscribing only adds to what is heard. *)
LEMMA PublisherHInv == TInv /\ HInv /\ Publisher => HInv'
<1>1. SUFFICES ASSUME TInv, HInv, Publisher PROVE HInv'
  OBVIOUS
<1>2. UNCHANGED <<registered, table, call, handler, phase, use>>
  BY <1>1 DEF Publisher, Connect, Resubscribe, tbVars, useVars
<1>3. Heard \subseteq Heard'
  <2>1. CASE Connect
    BY <2>1 DEF Connect, Heard
  <2>2. CASE Resubscribe
    <3>1. LastingOrder \in [1 .. 2 -> Lasting] /\ Len(LastingOrder) = 2
      BY DEF LastingOrder, Lasting
    <3>2. LastingOrder[resub] \in Topics
      BY <1>1, <2>2, <3>1 DEF Resubscribe, TInv, TypeOK, Topics
    <3>3. QED
      BY <1>1, <2>2, <3>2, SubscribeStep DEF Resubscribe, TInv, Heard
  <2>3. QED
    BY <1>1, <2>1, <2>2 DEF Publisher
<1>4. QED
  BY <1>1, <1>2, <1>3, HFrame
(* Steps of one call that only listen more. *)
LEMMA HCall ==
  ASSUME TInv, TInv', HInv, UNCHANGED <<registered, table, handler, use>>, Heard \subseteq Heard',
         \A q \in Requests : phase'[q] = "sent" => phase[q] = "sent",
         NEW t \in Callers, \A u \in Callers \ {t} : call'[u] = call[u],
         call'[t].pc \in {"push", "back", "number", "send"} => Kind[call'[t].req] \in Heard',
         call'[t].pc = "insert" => call'[t].topic \in Heard',
         call'[t].pc # "leave"
  PROVE  HInv'
<1>1. SUFFICES ASSUME serial PROVE CallsHeard' /\ NothingLeft' /\ WantedHeard'
  BY SameUse DEF HInv
<1>2. CallsHeard /\ NothingLeft /\ WantedHeard
  BY <1>1 DEF HInv
<1>0. "app" \in Callers
  BY DEF Callers
<1>3. CallsHeard'
  <2>1. \A u \in Callers : call'[u].pc \in {"push", "back", "number", "send"} => Kind[call'[u].req] \in Heard'
    BY <1>2 DEF CallsHeard, Table
  <2>2. call'["app"].pc = "insert" => call'["app"].topic \in Heard'
    <3>1. CASE t = "app"
      BY <3>1
    <3>2. CASE t # "app"
      BY <1>2, <1>0, <3>2 DEF CallsHeard
    <3>3. QED
      BY <3>1, <3>2
  <2>3. QED
    BY <2>1, <2>2 DEF CallsHeard, Table
<1>4. NothingLeft'
  <2>1. call'["app"].pc = "leave" => call'["app"] = call["app"]
    BY <1>0
  <2>2. QED
    BY <1>2, <2>1 DEF NothingLeft
<1>5. WantedHeard'
  <2>1. \A k \in Kinds : Pending(k)' => Pending(k)
    BY PendingDown
  <2>2. QED
    BY <1>2, <2>1 DEF WantedHeard
<1>6. QED
  BY <1>3, <1>4, <1>5

(* A call that begins waits for nothing yet. *)
LEMMA BeginHInv ==
  ASSUME TInv, TInv', HInv, Begin
  PROVE  HInv'
<1>1. /\ UNCHANGED <<registered, table, handler, subs, stranded, use, phase>>
      /\ \A u \in Callers \ {"app"} : call'[u] = call[u]
      /\ call'["app"].pc \in {"enter", "clear"}
  BY BeginEffect DEF tbVars, mqttVars, pastVars
<1>2. Heard \subseteq Heard' /\ "app" \in Callers
  BY <1>1 DEF Heard, Callers
<1>3. QED
  BY <1>1, <1>2, HCall

(* A registration is subscribed before it is inserted; a cleanup clears    *)
(* before it leaves.                                                       *)
LEMMA AppHInv ==
  ASSUME TInv, TInv', HInv, AppStep
  PROVE  HInv'
<1>1. "app" \in Callers
  BY DEF Callers
<1>2. CASE EnterTopic
  <2>1. /\ UNCHANGED <<registered, table, handler, use, phase>>
        /\ \A u \in Callers \ {"app"} : call'[u] = call[u]
        /\ Heard \subseteq Heard'
        /\ \/ call'["app"].pc = "insert" /\ call'["app"].topic \in Heard'
           \/ call'["app"].pc = "idle"
    BY <1>2, EnterEffect DEF tbVars, Heard
  <2>2. QED
    BY <1>1, <2>1, HCall
<1>3. SUFFICES ASSUME serial, Insert \/ ClearTopic \/ LeaveTopic
               PROVE  CallsHeard' /\ NothingLeft' /\ WantedHeard'
  <2>1. UNCHANGED use
    BY DEF AppStep, EnterTopic, Insert, ClearTopic, LeaveTopic, useVars
  <2>2. QED
    BY <1>2, <1>3, <2>1, SameUse DEF AppStep, HInv
<1>4. CallsHeard /\ NothingLeft /\ WantedHeard
  BY <1>3 DEF HInv
<1>5. handler.pc = "idle" /\ call["mqtt"].pc = "idle"
  <2>1. call["app"].pc # "idle"
    BY <1>3 DEF Insert, ClearTopic, LeaveTopic
  <2>2. QED
    BY <1>3, <2>1 DEF TInv, Excluded, ByHandler
<1>6. UNCHANGED handler /\ \A u \in Callers \ {"app"} : call'[u] = call[u]
  BY <1>3, InsertEffect, ClearTopicEffect, LeaveTopicEffect
<1>7. ASSUME call'["app"].pc \in {"idle", "clear", "leave"}
      PROVE  CallsHeard'
  BY <1>1, <1>5, <1>6, <1>7 DEF CallsHeard, Callers
<1>8. handler'.pc # "unsubscribe"
  BY <1>5, <1>6
<1>9. CASE Insert
  <2>1. /\ UNCHANGED <<table, subs, stranded, phase>>
        /\ call["app"].pc = "insert" /\ call'["app"].pc = "idle"
        /\ registered' = registered \cup {call["app"].topic}
    BY <1>9, InsertEffect DEF mqttVars, pastVars
  <2>2. WantedHeard'
    BY <1>4, <2>1 DEF WantedHeard, CallsHeard, Heard, Pending
  <2>3. QED
    BY <1>7, <1>8, <2>1, <2>2 DEF NothingLeft
<1>10. CASE ClearTopic
  <2> DEFINE k == Head(call["app"].leave)
  <2>1. /\ UNCHANGED <<subs, stranded>>
        /\ call'["app"].pc = "leave" /\ call'["app"].leave = call["app"].leave
        /\ \/ /\ k \in Lasting /\ k \notin Kinds
              /\ registered' = registered \ {k} /\ UNCHANGED <<table, phase>>
           \/ /\ k \in Kinds /\ k \notin Lasting /\ Forget(k) /\ UNCHANGED registered
              /\ table'[k] = <<>> /\ Shrinks(k)
    BY <1>10, ClearTopicEffect DEF mqttVars, useVars
  <2>2. NothingLeft'
    <3>1. registered \subseteq Lasting
      BY DEF TInv, TypeOK
    <3>2. QED
      BY <1>8, <2>1, <3>1 DEF NothingLeft
  <2>3. WantedHeard'
    <3>1. \A q \in Requests : phase'[q] = "sent" => phase[q] = "sent"
      BY <2>1, ForgetPhase DEF TInv, Forget
    <3>2. \A j \in Kinds : Pending(j)' => Pending(j)
      BY <2>1, <3>1, PendingDown
    <3>3. QED
      BY <1>4, <2>1, <3>2 DEF WantedHeard, Heard
  <2>4. QED
    BY <1>7, <2>1, <2>2, <2>3
<1>11. CASE LeaveTopic
  <2> DEFINE k == Head(call["app"].leave)
  <2>1. /\ UNCHANGED <<registered, table, phase, stranded>>
        /\ call["app"].pc = "leave" /\ call'["app"].pc \in {"idle", "clear"}
        /\ subs \ {k} \subseteq subs'
    BY <1>11, LeaveTopicEffect DEF tbVars, pastVars
  <2>2. k \notin registered /\ (k \in Kinds => table[k] = <<>>)
    BY <1>4, <2>1 DEF NothingLeft
  <2>3. WantedHeard'
    <3>1. k \in Kinds => ~Pending(k)
      BY <2>2 DEF Pending
    <3>2. \A j \in Kinds : Pending(j)' => Pending(j)
      BY <2>1 DEF Pending
    <3>3. QED
      BY <1>4, <2>1, <2>2, <3>1, <3>2 DEF WantedHeard, Heard
  <2>4. QED
    BY <1>7, <1>8, <2>1, <2>3 DEF NothingLeft
<1>12. QED
  BY <1>3, <1>9, <1>10, <1>11
(* Steps of a request that is heard already: only what its table waits for *)
(* may grow.                                                               *)
LEMMA HWaits ==
  ASSUME TInv, TInv', HInv, UNCHANGED <<registered, handler, use, subs, stranded>>,
         NEW t \in Callers, \A u \in Callers \ {t} : call'[u] = call[u],
         call[t].pc \in {"push", "back", "number", "send"}, call'[t].pc \in {"idle", "back", "number", "send"},
         call'[t].pc # "idle" => call'[t].req = call[t].req,
         \A j \in Kinds \ {Table(t)} : table'[j] = table[j],
         \A q \in Requests : Kind[q] # Table(t) /\ phase'[q] = "sent" => phase[q] = "sent"
  PROVE  HInv'
<1>1. SUFFICES ASSUME serial PROVE CallsHeard' /\ NothingLeft' /\ WantedHeard'
  BY SameUse DEF HInv
<1>2. CallsHeard /\ NothingLeft /\ WantedHeard
  BY <1>1 DEF HInv
<1>3. Table(t) \in Heard /\ UNCHANGED Heard
  BY <1>2 DEF CallsHeard, Heard
<1>4. /\ handler.pc # "unsubscribe"
      /\ call'["app"].pc \notin {"insert", "leave"}
  <2>1. Asks(t)
    BY DEF Asks, RequestSteps
  <2>2. handler.pc # "unsubscribe" /\ call["app"].pc \notin {"insert", "leave"}
    BY <1>1, <2>1, NobodyLeaves
  <2>3. "app" \in Callers
    BY DEF Callers
  <2>4. QED
    BY <2>2, <2>3
<1>5. CallsHeard'
  BY <1>2, <1>3, <1>4 DEF CallsHeard, Table
<1>6. NothingLeft'
  BY <1>4 DEF NothingLeft
<1>7. WantedHeard'
  <2>1. ASSUME NEW j \in Kinds, j # Table(t), Pending(j)'
        PROVE  Pending(j)
    <3>1. table'[j] = table[j]
      BY <2>1
    <3>2. PICK i \in DOMAIN table[j] : phase'[table[j][i].req] = "sent"
      BY <2>1, <3>1 DEF Pending
    <3>3. table[j][i].req \in Requests /\ Kind[table[j][i].req] = j
      BY SlotType
    <3>4. QED
      BY <2>1, <3>2, <3>3 DEF Pending
  <2>2. QED
    BY <1>2, <1>3, <2>1 DEF WantedHeard
<1>8. QED
  BY <1>5, <1>6, <1>7

(* A request that begins waits for nothing yet. *)
LEMMA RequestHInv ==
  ASSUME TInv, TInv', HInv, NEW t \in Callers, NEW r \in Requests, Request(t, r)
  PROVE  HInv'
<1>1. /\ UNCHANGED <<registered, table, handler, use, subs, stranded>>
      /\ \A u \in Callers \ {t} : call'[u] = call[u]
      /\ \A q \in Requests : phase'[q] = "sent" => phase[q] = "sent"
      /\ UNCHANGED call \/ call'[t].pc = "subscribe"
  BY RequestEffect DEF tbVars, mqttVars, useVars
<1>2. Heard \subseteq Heard'
  BY <1>1 DEF Heard
<1>3. CASE call'[t].pc = "subscribe"
  BY <1>1, <1>2, <1>3, HCall
<1>4. CASE UNCHANGED call
  <2>1. call[t].pc = "idle"
    BY RequestEffect
  <2>2. QED
    BY <1>1, <1>2, <1>4, <2>1, HCall
<1>5. QED
  BY <1>1, <1>3, <1>4

(* A request subscribes before it waits. *)
LEMMA RequestStepHInv ==
  ASSUME TInv, TInv', HInv, NEW t \in Callers, RequestStep(t)
  PROVE  HInv'
<1>1. CASE SubscribeAnswer(t)
  <2>1. /\ UNCHANGED <<registered, table, handler, use>>
        /\ \A u \in Callers \ {t} : call'[u] = call[u]
        /\ Heard \subseteq Heard'
        /\ \A q \in Requests \ {call[t].req} : phase'[q] = phase[q]
        /\ \/ /\ call'[t].pc = "push" /\ call'[t].req = call[t].req /\ UNCHANGED phase
              /\ Table(t) \in Heard'
           \/ call'[t].pc = "idle" /\ phase'[call[t].req] = "refused"
    BY <1>1, SubscribeEffect DEF tbVars, Heard
  <2>2. /\ \A q \in Requests : phase'[q] = "sent" => phase[q] = "sent"
        /\ call'[t].pc = "push" => Kind[call'[t].req] \in Heard'
        /\ call'[t].pc \in {"push", "idle"}
    BY <2>1 DEF Table
  <2>3. QED
    BY <2>1, <2>2, HCall
<1>2. CASE PushBack(t)
  <2>1. /\ UNCHANGED <<registered, handler, use, subs, stranded>>
        /\ \A u \in Callers \ {t} : call'[u] = call[u]
        /\ call[t].pc = "push" /\ call'[t].pc \in {"back", "send"} /\ call'[t].req = call[t].req
        /\ \A j \in Kinds \ {Table(t)} : table'[j] = table[j]
        /\ UNCHANGED phase \/ phase' = Forgotten("provision")
    BY <1>2, PushEffect DEF mqttVars, useVars
  <2>2. \A q \in Requests : phase'[q] = "sent" => phase[q] = "sent"
    <3>1. "provision" \in Kinds
      BY DEF Kinds
    <3>2. QED
      BY <2>1, <3>1, ForgetPhase DEF TInv
  <2>3. QED
    BY <2>1, <2>2, HWaits
<1>3. CASE SetRequestId(t)
  <2>1. /\ UNCHANGED <<registered, handler, use, subs, stranded, phase>>
        /\ \A u \in Callers \ {t} : call'[u] = call[u]
        /\ call[t].pc = "number" /\ call'[t].pc = "send" /\ call'[t].req = call[t].req
        /\ \A j \in Kinds \ {Table(t)} : table'[j] = table[j]
    BY <1>3, NumberEffect DEF mqttVars, useVars, pastVars
  <2>2. QED
    BY <2>1, HWaits
<1>4. CASE SendJson(t)
  <2>1. /\ UNCHANGED <<registered, table, handler, use, subs, stranded>>
        /\ \A u \in Callers \ {t} : call'[u] = call[u]
        /\ call[t].pc = "send" /\ call'[t].pc = "idle"
        /\ \A q \in Requests \ {call[t].req} : phase'[q] = phase[q]
    BY <1>4, SendEffect DEF tbVars, useVars
  <2>2. \A q \in Requests : Kind[q] # Table(t) /\ phase'[q] = "sent" => phase[q] = "sent"
    BY <2>1 DEF Table
  <2>3. QED
    BY <2>1, <2>2, HWaits
<1>5. CASE Back(t)
  <2>1. /\ UNCHANGED <<registered, table, handler, use, subs, stranded, phase>>
        /\ \A u \in Callers \ {t} : call'[u] = call[u]
        /\ call[t].pc = "back" /\ call'[t].pc = "number" /\ call'[t].req = call[t].req
    BY <1>5, BackEffect DEF tbVars, mqttVars, useVars
  <2>2. QED
    BY <2>1, HWaits
<1>6. QED
  BY <1>1, <1>2, <1>3, <1>4, <1>5 DEF RequestStep

(* An answer only ends waiting. *)
LEMMA DeliverHInv ==
  ASSUME TInv, TInv', HInv, NEW a \in net, Deliver(a)
  PROVE  HInv'
<1>1. /\ UNCHANGED <<registered, table, call, use, subs, stranded>>
      /\ \A q \in Requests : phase'[q] = "sent" => phase[q] = "sent"
      /\ handler'.pc # "unsubscribe"
  BY DeliverEffect DEF tbVars, useVars
<1>2. \A k \in Kinds : Pending(k)' => Pending(k)
  BY <1>1, PendingDown
<1>3. QED
  BY <1>1, <1>2, SameUse DEF HInv, CallsHeard, NothingLeft, WantedHeard, Heard, Table

(* The handler leaves a topic nobody waits for: nobody calls meanwhile. *)
LEMMA HandlerHInv ==
  ASSUME TInv, TInv', ~crashed, HInv, HandlerStep
  PROVE  HInv'
<1>1. UNCHANGED use
  BY DEF HandlerStep, RemoveCallback, TestEmpty, ClearTable, LeaveAnswers, useVars
<1>2. SUFFICES ASSUME serial PROVE CallsHeard' /\ NothingLeft' /\ WantedHeard'
  BY <1>1, SameUse DEF HInv
<1>3. CallsHeard /\ NothingLeft /\ WantedHeard
  BY <1>2 DEF HInv
<1>4. \A t \in Callers : call[t].pc = "idle"
  <2>1. handler.pc # "idle" /\ (handler.pc = "callback" => call["mqtt"].pc = "idle")
    BY DEF HandlerStep, RemoveCallback, TestEmpty, ClearTable, LeaveAnswers
  <2>2. QED
    BY <1>2, <2>1 DEF TInv, Excluded, ByHandler, Callers
<1>5. UNCHANGED <<registered, call, stranded>>
  BY DEF HandlerStep, RemoveCallback, TestEmpty, ClearTable, LeaveAnswers, tbVars, pastVars
<1>6. CallsHeard' /\ call'["app"].pc # "leave"
  BY <1>4, <1>5 DEF CallsHeard, Callers
<1>7. ASSUME UNCHANGED subs, \A k \in Kinds : Pending(k)' => Pending(k)
      PROVE  WantedHeard'
  BY <1>3, <1>5, <1>7 DEF WantedHeard, Heard
<1>8. CASE RemoveCallback
  <2>1. UNCHANGED <<subs, phase>> /\ handler'.pc # "unsubscribe"
    BY <1>8, RemoveEffect DEF mqttVars, pastVars
  <2>2. UNCHANGED table \/ \E k \in Kinds : Shrinks(k)
    <3>1. handler.kind \in Kinds
      BY DEF TInv, TypeOK, HandlerType
    <3>2. QED
      BY <1>8, <3>1, RemoveEffect, RemoveTable DEF TInv
  <2>3. \A k \in Kinds : Pending(k)' => Pending(k)
    BY <2>1, <2>2, PendingDown
  <2>4. QED
    BY <1>6, <1>7, <2>1, <2>3 DEF NothingLeft
<1>9. CASE TestEmpty
  <2>1. UNCHANGED <<subs, phase, table>> /\ handler'.pc # "unsubscribe"
    BY <1>9, TestEffect DEF tbVars, mqttVars, pastVars
  <2>2. \A k \in Kinds : Pending(k)' => Pending(k)
    BY <2>1 DEF Pending
  <2>3. QED
    BY <1>6, <1>7, <2>1, <2>2 DEF NothingLeft
<1>10. CASE ClearTable
  <2>1. /\ UNCHANGED subs
        /\ handler.kind \in Kinds /\ Forget(handler.kind) /\ handler'.kind = handler.kind
    BY <1>10, ClearEffect DEF mqttVars
  <2>2. table'[handler.kind] = <<>> /\ Shrinks(handler.kind)
    BY <2>1, ForgetTable DEF TInv
  <2>3. \A q \in Requests : phase'[q] = "sent" => phase[q] = "sent"
    BY <2>1, ForgetPhase DEF TInv, Forget
  <2>4. \A k \in Kinds : Pending(k)' => Pending(k)
    BY <2>1, <2>2, <2>3, PendingDown
  <2>5. QED
    BY <1>6, <1>7, <2>1, <2>2, <2>4 DEF NothingLeft
<1>11. CASE LeaveAnswers
  <2>1. /\ UNCHANGED <<table, phase>>
        /\ handler.pc = "unsubscribe" /\ handler.kind \in Kinds /\ handler'.pc = "idle"
        /\ subs \ {handler.kind} \subseteq subs'
    BY <1>11, LeaveEffect DEF tbVars, pastVars
  <2>2. ~Pending(handler.kind)
    BY <1>3, <2>1 DEF NothingLeft, Pending
  <2>3. \A k \in Kinds : Pending(k)' => Pending(k)
    BY <2>1 DEF Pending
  <2>4. handler.kind \notin registered
    BY <2>1 DEF TInv, TypeOK, Lasting, Kinds
  <2>5. WantedHeard'
    BY <1>3, <1>5, <2>1, <2>2, <2>3, <2>4 DEF WantedHeard, Heard
  <2>6. QED
    BY <1>6, <2>1, <2>5 DEF NothingLeft
<1>12. QED
  BY <1>8, <1>9, <1>10, <1>11 DEF HandlerStep

(* Every step keeps what is waited for heard. *)
LEMMA NextHInv == TInv /\ HInv /\ [Next]_vars => HInv'
<1>1. SUFFICES ASSUME TInv, HInv, [Next]_vars PROVE HInv'
  OBVIOUS
<1>2. TInv'
  BY <1>1, NextTInv
<1>3. CASE UNCHANGED vars
  BY <1>1, <1>3, HFrame DEF vars, tbVars, mqttVars, useVars, pastVars, Heard
<1>4. CASE Network \/ Publisher \/ Begin \/ AppStep \/ (~crashed /\ HandlerStep)
  BY <1>1, <1>2, <1>4, NetworkHInv, PublisherHInv, BeginHInv, AppHInv, HandlerHInv
<1>5. CASE \E t \in Callers : \E r \in Requests : Request(t, r)
  BY <1>1, <1>2, <1>5, RequestHInv
<1>6. CASE \E t \in Callers : RequestStep(t)
  BY <1>1, <1>2, <1>6, RequestStepHInv
<1>7. CASE \E a \in net : Deliver(a)
  BY <1>1, <1>2, <1>7, DeliverHInv
<1>8. CASE Race
  BY <1>1, <1>8, HFrame DEF Race, tbVars, mqttVars, useVars, Heard
<1>9. QED
  BY <1>1, <1>3, <1>4, <1>5, <1>6, <1>7, <1>8, NextCases

(* While calls and messages exclude each other, nothing is waited for on a *)
(* topic that was left: the unsubscription after the last answer, or by    *)
(* the application, never hits a request or a registration made meanwhile. *)
(* Only the end of a connection loses subscriptions (ThingsBoard.h:1592).  *)
THEOREM KeepsListening == Spec => []Listening
<1>1. HInv => Listening
  <2>1. SUFFICES ASSUME HInv, NEW k \in Topics \ stranded, Supported(k),
                        IF k \in Lasting THEN k \in registered ELSE Pending(k)
                 PROVE  k \in subs
    BY DEF Listening
  <2>2. WantedHeard
    BY <2>1 DEF HInv, Supported
  <2>3. k \in Heard
    BY <2>1, <2>2 DEF WantedHeard, Topics
  <2>4. QED
    BY <2>1, <2>3 DEF Heard
<1>2. QED
  BY <1>1, InitTInv, NextTInv, InitHInv, NextHInv, PTL DEF Spec
-----------------------------------------------------------------------------
(* Release.  While calls and messages exclude each other, what was pushed  *)
(* is still there when its address is taken.                               *)
Pushed  == serial => \A t \in Callers : call[t].pc = "back" => table[Table(t)] # <<>>
NoCrash == crashed => ~serial

(* On a connection that holds: a slot belongs to one request, which is     *)
(* being made, waits, was refused, or has its callback running; and an     *)
(* empty table that is listened for is about to be filled or left.         *)
Held(r) == \E t \in Callers : call[t].pc \in {"back", "number", "send"} /\ call[t].req = r
InHandler(k, i) == handler.pc \in {"callback", "clear"} /\ handler.kind = k /\ handler.slot = i
Occupied(k, i) ==
  LET r == table[k][i].req
  IN \/ phase[r] \in {"sent", "refused"}
     \/ phase[r] = "asking" /\ Held(r)
     \/ phase[r] \in {"answered", "confused"} /\ InHandler(k, i)
Filling(k) == \E t \in Callers : call[t].pc = "push" /\ Table(t) = k
Leaving(k) == \/ handler.pc # "idle" /\ handler.kind = k
              \/ call["app"].pc = "leave" /\ Head(call["app"].leave) = k

LinkHolds     == subs # {} => link = "up"
CallersAsk    == \A t \in Callers : Asks(t) => phase[call[t].req] = "asking"
OneSlotEach   == \A k \in Kinds : \A i, j \in DOMAIN table[k] :
                   table[k][i].req = table[k][j].req => i = j
SlotsOccupied == \A k \in Kinds : \A i \in DOMAIN table[k] : Occupied(k, i)
EmptyLeft     == \A k \in Kinds : table[k] = <<>> /\ k \in subs => Filling(k) \/ Leaving(k)

Steady == LinkHolds /\ CallersAsk /\ OneSlotEach /\ SlotsOccupied /\ EmptyLeft
RInv   == Pushed /\ NoCrash /\ (serial /\ stable => Steady)

(* There is no slot and no subscription yet. *)
LEMMA InitRInv == Init => RInv
<1>1. SUFFICES ASSUME Init PROVE RInv
  OBVIOUS
<1>2. /\ \A t \in Callers : ~Asks(t)
      /\ handler.pc = "idle" /\ crashed = FALSE /\ subs = {}
      /\ \A k \in Kinds : DOMAIN table[k] = {}
  <2>1. DOMAIN <<>> = {}
    OBVIOUS
  <2>2. QED
    BY <1>1, <2>1, IdleType DEF Init, NoHandler, Asks, RequestSteps
<1>3. QED
  BY <1>2 DEF RInv, Pushed, NoCrash, Steady, LinkHolds, CallersAsk, OneSlotEach, SlotsOccupied,
              EmptyLeft, Asks, RequestSteps

(* Steps of the network and of the subscriptions that last. *)
LEMMA RFrame ==
  ASSUME RInv, UNCHANGED <<table, call, handler, phase, use, crashed>>,
         serial /\ stable => subs' \cap Kinds \subseteq subs /\ (subs' # {} => link' = "up")
  PROVE  RInv'
<1>1. Pushed' /\ NoCrash'
  BY SameUse DEF RInv, Pushed, NoCrash, Table
<1>2. SUFFICES ASSUME serial, stable PROVE Steady'
  BY <1>1, SameUse DEF RInv
<1>3. Steady /\ subs' \cap Kinds \subseteq subs /\ (subs' # {} => link' = "up")
  BY <1>2 DEF RInv
<1>4. LinkHolds' /\ CallersAsk' /\ OneSlotEach'
  BY <1>3 DEF Steady, LinkHolds, CallersAsk, OneSlotEach, Asks
<1>5. SlotsOccupied'
  BY <1>3 DEF Steady, SlotsOccupied, Occupied, Held, InHandler
<1>6. EmptyLeft'
  BY <1>3 DEF Steady, EmptyLeft, Filling, Leaving, Table
<1>7. QED
  BY <1>4, <1>5, <1>6 DEF Steady

(* A connection that holds is made once and not lost. *)
LEMMA NetworkRInv == TInv /\ RInv /\ Network => RInv'
<1>1. SUFFICES ASSUME TInv, RInv, Network PROVE RInv'
  OBVIOUS
<1>2. UNCHANGED <<table, call, handler, phase, use, crashed>>
  BY <1>1 DEF Network, Attempt, Disconnect, AutoReconnect, tbVars, useVars, pastVars
<1>3. ASSUME serial, stable
      PROVE  subs' = subs /\ (subs' # {} => link' = "up")
  <2>1. subs # {} => link = "up"
    BY <1>1, <1>3 DEF RInv, Steady, LinkHolds
  <2>2. ~Disconnect
    BY <1>3 DEF Disconnect
  <2>3. QED
    BY <1>1, <2>1, <2>2 DEF Network, Attempt, AutoReconnect
<1>4. QED
  BY <1>1, <1>2, <1>3, RFrame

(* The topics that last are not those of the answers. *)
LEMMA PublisherRInv == TInv /\ RInv /\ Publisher => RInv'
<1>1. SUFFICES ASSUME TInv, RInv, Publisher PROVE RInv'
  OBVIOUS
<1>2. UNCHANGED <<table, call, handler, phase, use, crashed>>
  BY <1>1 DEF Publisher, Connect, Resubscribe, tbVars, useVars
<1>3. ASSUME serial, stable
      PROVE  subs' \cap Kinds \subseteq subs /\ (subs' # {} => link' = "up")
  <2>1. subs # {} => link = "up"
    BY <1>1, <1>3 DEF RInv, Steady, LinkHolds
  <2>2. CASE Connect
    BY <2>1, <2>2 DEF Connect
  <2>3. CASE Resubscribe
    <3>1. LastingOrder \in [1 .. 2 -> Lasting] /\ Len(LastingOrder) = 2
      BY DEF LastingOrder, Lasting
    <3>2. LastingOrder[resub] \in Lasting
      BY <1>1, <2>3, <3>1 DEF Resubscribe, TInv, TypeOK
    <3>3. LastingOrder[resub] \in Topics /\ LastingOrder[resub] \notin Kinds
      BY <3>2 DEF Topics, Lasting, Kinds
    <3>4. UNCHANGED link
      BY <2>3 DEF Resubscribe
    <3>5. UNCHANGED subs \/ (subs' = subs \cup {LastingOrder[resub]} /\ link = "up")
      BY <1>1, <2>3, <3>3, SubscribeStep DEF Resubscribe, TInv
    <3>6. QED
      BY <2>1, <3>3, <3>4, <3>5
  <2>4. QED
    BY <1>1, <2>2, <2>3 DEF Publisher
<1>4. QED
  BY <1>1, <1>2, <1>3, RFrame

(* While no request is being made the slots are settled. *)
LEMMA Settled ==
  ASSUME TInv, Steady, \A t \in Callers : ~Asks(t)
  PROVE  /\ \A k \in Kinds : \A i \in DOMAIN table[k] :
              \/ phase[table[k][i].req] \in {"sent", "refused"}
              \/ phase[table[k][i].req] \in {"answered", "confused"} /\ InHandler(k, i)
         /\ \A k \in Kinds : ~Filling(k)
<1>1. \A t \in Callers : call[t].pc \notin {"push", "back", "number", "send"}
  BY DEF Asks, RequestSteps
<1>2. \A r \in Requests : ~Held(r)
  BY <1>1 DEF Held
<1>3. \A k \in Kinds : ~Filling(k)
  BY <1>1 DEF Filling
<1>4. ASSUME NEW k \in Kinds, NEW i \in DOMAIN table[k]
      PROVE  \/ phase[table[k][i].req] \in {"sent", "refused"}
             \/ phase[table[k][i].req] \in {"answered", "confused"} /\ InHandler(k, i)
  <2>1. table[k][i].req \in Requests
    BY <1>4, SlotType
  <2>2. Occupied(k, i)
    BY <1>4 DEF Steady, SlotsOccupied
  <2>3. QED
    BY <1>2, <2>1, <2>2 DEF Occupied
<1>5. QED
  BY <1>3, <1>4

(* Clearing a table at rest releases it and leaves the others alone. *)
LEMMA ForgetSettles ==
  ASSUME TInv, NEW k \in Kinds, Forget(k),
         \A j \in Kinds : \A i \in DOMAIN table[j] :
           j # k => phase[table[j][i].req] \in {"sent", "refused"}
  PROVE  \A j \in Kinds : \A i \in DOMAIN table'[j] : phase'[table'[j][i].req] \in {"sent", "refused"}
<1>1. SUFFICES ASSUME NEW j \in Kinds, NEW i \in DOMAIN table'[j]
               PROVE  phase'[table'[j][i].req] \in {"sent", "refused"}
  OBVIOUS
<1>2. table'[k] = <<>> /\ Shrinks(k) /\ DOMAIN <<>> = {}
  BY ForgetTable DEF TInv
<1>3. j # k /\ table'[j] = table[j]
  BY <1>1, <1>2 DEF Shrinks
<1>4. table[j][i].req \in Requests /\ Kind[table[j][i].req] = j
  BY <1>1, <1>3, SlotType
<1>5. \A l \in DOMAIN table[k] : Kind[table[k][l].req] = k
  BY SlotType
<1>6. phase'[table[j][i].req] = phase[table[j][i].req]
  BY <1>3, <1>4, <1>5, ForgetPhase DEF TInv, Forget
<1>7. QED
  BY <1>1, <1>3, <1>6

(* Slots that stay stay one for each request. *)
LEMMA ForgetOneSlot ==
  ASSUME TInv, NEW k \in Kinds, Forget(k), OneSlotEach
  PROVE  OneSlotEach'
<1>1. table'[k] = <<>> /\ Shrinks(k) /\ DOMAIN <<>> = {}
  BY ForgetTable DEF TInv
<1>2. QED
  BY <1>1 DEF OneSlotEach, Shrinks

(* A cleanup releases the table before its topic. *)
LEMMA AppRInv ==
  ASSUME TInv, TInv', RInv, Begin \/ AppStep
  PROVE  RInv'
<1>0. "app" \in Callers /\ Callers = {"app", "mqtt"}
  BY DEF Callers
<1>1. /\ UNCHANGED <<handler, use>> /\ UNCHANGED call["mqtt"]
      /\ UNCHANGED crashed \/ (crashed' => handler.pc = "callback")
      /\ call["app"].pc \in {"idle", "enter", "insert", "clear", "leave"}
      /\ call'["app"].pc \in {"idle", "enter", "insert", "clear", "leave"}
  <2>1. CASE Begin
    BY <1>0, <2>1, BeginEffect DEF pastVars
  <2>2. CASE EnterTopic
    BY <1>0, <2>2, EnterEffect
  <2>3. CASE Insert
    BY <1>0, <2>3, InsertEffect DEF useVars, pastVars
  <2>4. CASE ClearTopic
    BY <1>0, <2>4, ClearTopicEffect DEF useVars
  <2>5. CASE LeaveTopic
    BY <1>0, <2>5, LeaveTopicEffect DEF pastVars
  <2>6. QED
    BY <2>1, <2>2, <2>3, <2>4, <2>5 DEF AppStep
<1>2. serial => handler.pc = "idle"
  <2>1. AppStep => call["app"].pc # "idle"
    BY DEF AppStep, EnterTopic, Insert, ClearTopic, LeaveTopic
  <2>2. QED
    BY <2>1, BeginEffect DEF TInv, Excluded
<1>3. Pushed' /\ NoCrash'
  <2>1. serial => call["mqtt"].pc = "idle"
    BY <1>2 DEF TInv, ByHandler
  <2>2. Pushed'
    BY <1>0, <1>1, <2>1, SameUse DEF Pushed
  <2>3. NoCrash'
    BY <1>1, <1>2, SameUse DEF RInv, NoCrash
  <2>4. QED
    BY <2>2, <2>3
<1>4. SUFFICES ASSUME serial, stable PROVE Steady'
  BY <1>1, <1>3, SameUse DEF RInv
<1>5. Steady /\ handler.pc = "idle" /\ call["mqtt"].pc = "idle"
  BY <1>2, <1>4 DEF RInv, TInv, ByHandler
<1>6. (\A t \in Callers : ~Asks(t)) /\ (\A t \in Callers : ~Asks(t)')
  BY <1>0, <1>1, <1>5 DEF Asks, RequestSteps
<1>7. /\ \A k \in Kinds : \A i \in DOMAIN table[k] : phase[table[k][i].req] \in {"sent", "refused"}
      /\ \A k \in Kinds : ~Filling(k)
  BY <1>5, <1>6, Settled DEF InHandler
<1>8. CallersAsk'
  BY <1>6 DEF CallersAsk
<1>9. ASSUME UNCHANGED <<table, phase>>
      PROVE  OneSlotEach' /\ SlotsOccupied'
  BY <1>5, <1>7, <1>9 DEF Steady, OneSlotEach, SlotsOccupied, Occupied
<1>10. CASE call["app"].pc # "leave" /\ UNCHANGED <<table, phase>> /\ subs' \cap Kinds \subseteq subs
            /\ (subs' # {} => link' = "up")
  <2>1. EmptyLeft'
    BY <1>5, <1>7, <1>10 DEF Steady, EmptyLeft, Leaving
  <2>2. QED
    BY <1>8, <1>9, <1>10, <2>1 DEF Steady, LinkHolds
<1>11. CASE Begin
  <2>1. /\ UNCHANGED <<table, phase, subs, link>> /\ call["app"].pc = "idle"
    BY <1>11, BeginEffect DEF tbVars, mqttVars, pastVars
  <2>2. QED
    BY <1>5, <1>10, <2>1 DEF Steady, LinkHolds
<1>12. CASE EnterTopic
  <2>1. /\ UNCHANGED <<table, phase, link>> /\ call["app"].pc = "enter" /\ call["app"].topic \in Lasting
        /\ UNCHANGED subs \/ (link = "up" /\ subs' = subs \cup {call["app"].topic})
    BY <1>12, EnterEffect DEF tbVars
  <2>2. call["app"].topic \notin Kinds
    BY <2>1 DEF Lasting, Kinds
  <2>3. QED
    BY <1>5, <1>10, <2>1, <2>2 DEF Steady, LinkHolds
<1>13. CASE Insert
  <2>1. /\ UNCHANGED <<table, phase, subs, link>> /\ call["app"].pc = "insert"
    BY <1>13, InsertEffect DEF mqttVars, pastVars
  <2>2. QED
    BY <1>5, <1>10, <2>1 DEF Steady, LinkHolds
<1>14. CASE ClearTopic
  <2> DEFINE k == Head(call["app"].leave)
  <2>1. /\ UNCHANGED <<subs, link>> /\ call["app"].pc = "clear"
        /\ call'["app"].pc = "leave" /\ call'["app"].leave = call["app"].leave
        /\ UNCHANGED <<table, phase>> \/ (k \in Kinds /\ Forget(k))
    BY <1>14, ClearTopicEffect DEF mqttVars
  <2>2. CASE UNCHANGED <<table, phase>>
    BY <1>5, <1>10, <2>1, <2>2 DEF Steady, LinkHolds
  <2>3. CASE k \in Kinds /\ Forget(k)
    <3>1. SlotsOccupied'
      BY <1>7, <2>3, ForgetSettles DEF SlotsOccupied, Occupied
    <3>2. OneSlotEach'
      BY <1>5, <2>3, ForgetOneSlot DEF Steady
    <3>3. EmptyLeft'
      <4>1. \A j \in Kinds \ {k} : table'[j] = table[j]
        BY <2>3, ForgetTable DEF Shrinks, TInv
      <4>2. SUFFICES ASSUME NEW j \in Kinds, table'[j] = <<>>, j \in subs'
                     PROVE  Leaving(j)'
        BY DEF EmptyLeft
      <4>3. CASE j = k
        BY <2>1, <4>3 DEF Leaving
      <4>4. CASE j # k
        <5>1. table[j] = <<>> /\ j \in subs
          BY <2>1, <4>1, <4>2, <4>4
        <5>2. Filling(j) \/ Leaving(j)
          BY <1>5, <5>1 DEF Steady, EmptyLeft
        <5>3. QED
          BY <1>5, <1>7, <2>1, <5>2 DEF Leaving
      <4>5. QED
        BY <4>3, <4>4
    <3>4. LinkHolds'
      BY <1>5, <2>1 DEF Steady, LinkHolds
    <3>5. QED
      BY <1>8, <3>1, <3>2, <3>3, <3>4 DEF Steady
  <2>4. QED
    BY <2>1, <2>2, <2>3
<1>15. CASE LeaveTopic
  <2> DEFINE k == Head(call["app"].leave)
  <2>1. /\ UNCHANGED <<table, phase, link>> /\ call["app"].pc = "leave"
        /\ subs' \subseteq subs /\ (link = "up" => k \notin subs')
    BY <1>4, <1>15, LeaveTopicEffect DEF tbVars, pastVars
  <2>2. LinkHolds' /\ k \notin subs'
    BY <1>5, <2>1 DEF Steady, LinkHolds
  <2>3. EmptyLeft'
    BY <1>5, <1>7, <2>1, <2>2 DEF Steady, EmptyLeft, Leaving
  <2>4. QED
    BY <1>8, <1>9, <2>1, <2>2, <2>3 DEF Steady
<1>16. QED
  BY <1>11, <1>12, <1>13, <1>14, <1>15 DEF AppStep

(* A request in progress is the only one, and nobody leaves anything.      *)
LEMMA Alone ==
  ASSUME TInv, serial, NEW t \in Callers, Asks(t)
  PROVE  /\ \A u \in Callers \ {t} : ~Asks(u)
         /\ handler.pc \in {"idle", "callback"} /\ call["app"].pc # "leave"
<1>1. OneCaller
  BY DEF OneCaller
<1>2. \A u \in Callers \ {t} : ~Asks(u)
  BY <1>1, OneAtATime
<1>3. handler.pc \in {"idle", "callback"}
  <2>1. handler \in HandlerType /\ handler.pc \notin {"test", "clear", "unsubscribe"}
    BY NobodyLeaves DEF TInv, TypeOK
  <2>2. QED
    BY <2>1 DEF HandlerType
<1>4. QED
  BY <1>2, <1>3, NobodyLeaves

(* What the steps of a request have to leave behind for the slots to stay  *)
(* accounted for.                                                          *)
LEMMA RStep ==
  ASSUME TInv, RInv, NEW t \in Callers, Asks(t), UNCHANGED <<handler, use, link>>,
         \A u \in Callers \ {t} : call'[u] = call[u],
         call'[t].pc \in RequestSteps \cup {"idle"},
         serial => ~crashed',
         serial /\ call'[t].pc = "back" => table'[Kind[call'[t].req]] # <<>>,
         serial /\ stable => LinkHolds' /\ CallersAsk' /\ OneSlotEach' /\ SlotsOccupied',
         serial /\ stable => \A k \in Kinds : table'[k] = <<>> /\ k \in subs'
                               => \/ call'[t].pc = "push" /\ Table(t)' = k
                                  \/ (handler.pc # "idle" /\ handler.kind = k)
  PROVE  RInv'
<1>1. Pushed'
  <2>1. SUFFICES ASSUME serial, NEW u \in Callers, call'[u].pc = "back"
                 PROVE  table'[Kind[call'[u].req]] # <<>>
    BY SameUse DEF Pushed, Table
  <2>2. u # t => call[u].pc # "back"
    BY <2>1, Alone DEF Asks, RequestSteps
  <2>3. QED
    BY <2>1, <2>2
<1>2. NoCrash'
  BY SameUse DEF NoCrash
<1>3. SUFFICES ASSUME serial, stable PROVE EmptyLeft'
  BY <1>1, <1>2, SameUse DEF RInv, Steady
<1>4. QED
  BY <1>3 DEF EmptyLeft, Filling, Leaving

(* An empty table somebody listens for, before a request goes on. *)
LEMMA BeforeStep ==
  ASSUME TInv, serial, Steady, NEW t \in Callers, Asks(t),
         NEW k \in Kinds, table[k] = <<>>, k \in subs
  PROVE  \/ call[t].pc = "push" /\ Table(t) = k
         \/ (handler.pc # "idle" /\ handler.kind = k)
<1>1. Filling(k) \/ Leaving(k)
  BY DEF Steady, EmptyLeft
<1>2. CASE Leaving(k)
  BY <1>2, Alone DEF Leaving
<1>3. CASE Filling(k)
  <2>1. PICK u \in Callers : call[u].pc = "push" /\ Table(u) = k
    BY <1>3 DEF Filling
  <2>2. Asks(u)
    BY <2>1 DEF Asks, RequestSteps
  <2>3. u = t
    BY <2>2, Alone
  <2>4. QED
    BY <2>1, <2>3
<1>4. QED
  BY <1>1, <1>2, <1>3

(* The slots of the others, before a request goes on. *)
LEMMA HeldByOne ==
  ASSUME TInv, serial, NEW t \in Callers, Asks(t), NEW r \in Requests, Held(r)
  PROVE  call[t].pc \in {"back", "number", "send"} /\ call[t].req = r
<1>1. PICK u \in Callers : call[u].pc \in {"back", "number", "send"} /\ call[u].req = r
  BY DEF Held
<1>2. Asks(u)
  BY <1>1 DEF Asks, RequestSteps
<1>3. u = t
  BY <1>2, Alone
<1>4. QED
  BY <1>1, <1>3

(* A request that begins has no slot, and belongs to nobody else. *)
LEMMA RequestRInv ==
  ASSUME TInv, TInv', RInv, NEW t \in Callers, NEW r \in Requests, Request(t, r)
  PROVE  RInv'
<1>1. /\ UNCHANGED <<table, handler, link, subs, use, crashed>>
      /\ call[t].pc = "idle" /\ phase[r] = "new"
      /\ \A q \in Requests \ {r} : phase'[q] = phase[q]
      /\ \A u \in Callers \ {t} : call'[u] = call[u]
      /\ \/ phase'[r] = "refused" /\ UNCHANGED call
         \/ phase'[r] = "asking" /\ call'[t].pc = "subscribe" /\ call'[t].req = r
  BY RequestEffect DEF tbVars, mqttVars, useVars
<1>2. call'[t].pc \in {"idle", "subscribe"} /\ {"idle", "subscribe"} \subseteq RequestSteps \cup {"idle"}
  BY <1>1 DEF RequestSteps
<1>3. /\ t = "mqtt" => handler.pc = "callback"
      /\ t = "app" /\ serial => handler.pc = "idle"
  BY RequestEffect
<1>4. ASSUME serial, stable
      PROVE  Steady'
  <2>1. Steady
    BY <1>4 DEF RInv
  <2>2. \A u \in Callers : ~Asks(u)
    <3>1. ~Asks(t)
      BY <1>1 DEF Asks, RequestSteps
    <3>2. \A u \in Callers \ {t} : ~Asks(u)
      <4>1. SUFFICES ASSUME NEW u \in Callers, u # t, Asks(u) PROVE FALSE
        OBVIOUS
      <4>2. call[u].pc # "idle"
        BY <4>1 DEF Asks, RequestSteps
      <4>3. /\ u = "mqtt" => handler.pc = "callback"
            /\ u = "app" => handler.pc = "idle"
        BY <1>4, <4>1, <4>2, InCallAt
      <4>4. QED
        BY <1>3, <1>4, <4>1, <4>3 DEF Callers
    <3>3. QED
      BY <3>1, <3>2
  <2>3. \A k \in Kinds : \A i \in DOMAIN table[k] :
          /\ table[k][i].req \in Requests
          /\ \/ phase[table[k][i].req] \in {"sent", "refused"}
             \/ phase[table[k][i].req] \in {"answered", "confused"} /\ InHandler(k, i)
    BY <2>1, <2>2, Settled, SlotType
  <2>4. \A k \in Kinds : \A i \in DOMAIN table[k] : phase'[table[k][i].req] = phase[table[k][i].req]
    BY <1>1, <2>3
  <2>5. SlotsOccupied'
    BY <1>1, <2>3, <2>4 DEF SlotsOccupied, Occupied, InHandler
  <2>6. CallersAsk'
    <3>1. \A u \in Callers \ {t} : ~Asks(u)'
      BY <1>1, <2>2 DEF Asks
    <3>2. Asks(t)' => phase'[call'[t].req] = "asking"
      BY <1>1, <2>2 DEF Asks
    <3>3. QED
      BY <3>1, <3>2 DEF CallersAsk
  <2>7. LinkHolds' /\ OneSlotEach'
    BY <1>1, <2>1 DEF Steady, LinkHolds, OneSlotEach
  <2>8. EmptyLeft'
    <3>1. \A k \in Kinds : ~Filling(k)
      BY <2>1, <2>2, Settled
    <3>2. call["app"].pc = "leave" => call'["app"] = call["app"]
      BY <1>1 DEF Callers
    <3>3. QED
      BY <1>1, <2>1, <3>1, <3>2 DEF Steady, EmptyLeft, Leaving
  <2>9. QED
    BY <2>5, <2>6, <2>7, <2>8 DEF Steady
<1>5. QED
  <2>1. Pushed' /\ NoCrash'
    BY <1>1, SameUse DEF RInv, Pushed, NoCrash, Table
  <2>2. QED
    BY <1>1, <1>4, <2>1, SameUse DEF RInv
(* The slots of the others, until the caller has one of its own. *)
LEMMA NotHeld ==
  ASSUME TInv, serial, Steady, NEW t \in Callers, call[t].pc \in {"subscribe", "push"},
         NEW k \in Kinds, NEW i \in DOMAIN table[k]
  PROVE  /\ \/ phase[table[k][i].req] \in {"sent", "refused"}
            \/ phase[table[k][i].req] \in {"answered", "confused"} /\ InHandler(k, i)
         /\ table[k][i].req \in Requests \ {call[t].req}
         /\ phase[call[t].req] = "asking"
<1>1. Asks(t)
  BY DEF Asks, RequestSteps
<1>2. table[k][i].req \in Requests
  BY SlotType
<1>3. ~Held(table[k][i].req)
  BY <1>1, <1>2, HeldByOne
<1>4. Occupied(k, i)
  BY DEF Steady, SlotsOccupied
<1>5. \/ phase[table[k][i].req] \in {"sent", "refused"}
      \/ phase[table[k][i].req] \in {"answered", "confused"} /\ InHandler(k, i)
  BY <1>3, <1>4 DEF Occupied
<1>6. phase[call[t].req] = "asking"
  BY <1>1 DEF Steady, CallersAsk
<1>7. QED
  BY <1>2, <1>5, <1>6

(* The callers that ask after a step of the only one. *)
LEMMA StillAsk ==
  ASSUME TInv, serial, NEW t \in Callers, Asks(t), \A u \in Callers \ {t} : call'[u] = call[u],
         call'[t].pc \in RequestSteps => phase'[call'[t].req] = "asking"
  PROVE  CallersAsk'
<1>1. \A u \in Callers \ {t} : ~Asks(u)
  BY Alone
<1>2. QED
  BY <1>1 DEF CallersAsk, Asks

(* It is heard before it has a slot, and is about to fill one. *)
LEMMA SubscribeRInv ==
  ASSUME TInv, RInv, NEW t \in Callers, SubscribeAnswer(t)
  PROVE  RInv'
<1> DEFINE r == call[t].req
           k == Table(t)
<1>1. /\ UNCHANGED <<table, handler, use, crashed, link>>
      /\ call[t].pc = "subscribe" /\ r \in Requests /\ k \in Kinds
      /\ \A u \in Callers \ {t} : call'[u] = call[u]
      /\ \A q \in Requests \ {r} : phase'[q] = phase[q]
      /\ \/ /\ call'[t].pc = "push" /\ call'[t].req = r /\ UNCHANGED phase
            /\ link = "up" /\ subs' = subs \cup {k}
         \/ call'[t].pc = "idle" /\ UNCHANGED subs
  BY SubscribeEffect DEF tbVars
<1>2. Asks(t) /\ {"push", "idle"} \subseteq RequestSteps \cup {"idle"} /\ "idle" \notin RequestSteps
  BY <1>1 DEF Asks, RequestSteps
<1>3. ASSUME serial, stable
      PROVE  LinkHolds' /\ CallersAsk' /\ OneSlotEach' /\ SlotsOccupied'
  <2>1. Steady
    BY <1>3 DEF RInv
  <2>2. LinkHolds'
    BY <1>1, <2>1 DEF Steady, LinkHolds
  <2>3. phase[r] = "asking"
    BY <1>2, <2>1 DEF Steady, CallersAsk
  <2>4. CallersAsk'
    BY <1>1, <1>2, <1>3, <2>3, StillAsk
  <2>5. OneSlotEach'
    BY <1>1, <2>1 DEF Steady, OneSlotEach
  <2>6. SlotsOccupied'
    <3>1. SUFFICES ASSUME NEW j \in Kinds, NEW i \in DOMAIN table[j] PROVE Occupied(j, i)'
      BY <1>1 DEF SlotsOccupied
    <3>2. /\ \/ phase[table[j][i].req] \in {"sent", "refused"}
             \/ phase[table[j][i].req] \in {"answered", "confused"} /\ InHandler(j, i)
          /\ table[j][i].req \in Requests \ {r}
      BY <1>1, <1>3, <2>1, NotHeld
    <3>3. QED
      BY <1>1, <3>2 DEF Occupied, InHandler
  <2>7. QED
    BY <2>2, <2>4, <2>5, <2>6
<1>4. ASSUME serial, stable, NEW j \in Kinds, table'[j] = <<>>, j \in subs'
      PROVE  \/ call'[t].pc = "push" /\ Table(t)' = j
             \/ (handler.pc # "idle" /\ handler.kind = j)
  <2>1. CASE j \in subs
    <3>1. Steady
      BY <1>4 DEF RInv
    <3>2. \/ call[t].pc = "push" /\ Table(t) = j
          \/ (handler.pc # "idle" /\ handler.kind = j)
      BY <1>1, <1>2, <1>4, <2>1, <3>1, BeforeStep
    <3>3. QED
      BY <1>1, <3>2
  <2>2. CASE j \notin subs
    BY <1>1, <1>4, <2>2 DEF Table
  <2>3. QED
    BY <2>1, <2>2
<1>5. call'[t].pc \in RequestSteps \cup {"idle"}
  BY <1>1, <1>2
<1>6. serial => ~crashed'
  BY <1>1 DEF RInv, NoCrash
<1>7. QED
  BY <1>1, <1>2, <1>3, <1>4, <1>5, <1>6, RStep

(* It fills one slot, and holds it. *)
LEMMA PushRInv ==
  ASSUME TInv, RInv, NEW t \in Callers, PushBack(t)
  PROVE  RInv'
<1> DEFINE r == call[t].req
           k == Table(t)
           n == Len(table[k])
<1>1. /\ UNCHANGED <<handler, use, crashed, link, subs>>
      /\ call[t].pc = "push" /\ r \in Requests /\ k \in Kinds
      /\ \A u \in Callers \ {t} : call'[u] = call[u]
      /\ call'[t].pc \in {"back", "send"} /\ call'[t].req = r
      /\ \A j \in Kinds \ {k} : table'[j] = table[j]
      /\ table'[k] # <<>>
  BY PushEffect DEF mqttVars, useVars
(* One new slot; the old ones stay, but for the provisioning callback. *)
<1>2. /\ \A i \in DOMAIN table'[k] :
           \/ table'[k][i].req = r
           \/ k # "provision" /\ i \in DOMAIN table[k] /\ table'[k][i] = table[k][i]
      /\ \A i, j \in DOMAIN table'[k] : table'[k][i].req = r /\ table'[k][j].req = r =>
           \/ i = j
           \/ k # "provision" /\ i \in DOMAIN table[k] /\ table[k][i].req = r
           \/ k # "provision" /\ j \in DOMAIN table[k] /\ table[k][j].req = r
      /\ k # "provision" => DOMAIN table[k] \subseteq DOMAIN table'[k]
  <2>1. [req |-> r, id |-> 0].req = r
    OBVIOUS
  <2>2. CASE k = "provision"
    <3>1. DOMAIN table'[k] = {1} /\ table'[k][1] = [req |-> r, id |-> 0]
      BY <2>2, PushEffect
    <3>2. QED
      BY <2>1, <2>2, <3>1
  <2>3. CASE k # "provision"
    <3>1. /\ n \in Nat /\ DOMAIN table[k] = 1 .. n /\ DOMAIN table'[k] = 1 .. n + 1
          /\ \A i \in 1 .. n : table'[k][i] = table[k][i]
          /\ table'[k][n + 1].req = r
      BY <2>1, <2>3, PushEffect
    <3>2. \A i \in 1 .. n + 1 : i \in 1 .. n \/ i = n + 1
      BY <3>1
    <3>3. 1 .. n \subseteq 1 .. n + 1
      BY <3>1
    <3>4. QED
      BY <2>3, <3>1, <3>2, <3>3
  <2>4. QED
    BY <2>2, <2>3
<1>3. Asks(t) /\ {"back", "send"} \subseteq RequestSteps \cup {"idle"}
  BY <1>1 DEF Asks, RequestSteps
<1>4. ASSUME serial, stable
      PROVE  LinkHolds' /\ CallersAsk' /\ OneSlotEach' /\ SlotsOccupied'
  <2>1. Steady
    BY <1>4 DEF RInv
  <2>2. LinkHolds'
    BY <1>1, <2>1 DEF Steady, LinkHolds
  <2>3. phase[r] = "asking"
    BY <1>3, <2>1 DEF Steady, CallersAsk
  <2>4. /\ phase'[r] = "asking"
        /\ \A j \in Kinds : \A i \in DOMAIN table[j] :
             j # k \/ k # "provision" => phase'[table[j][i].req] = phase[table[j][i].req]
    <3>1. CASE k # "provision"
      BY <2>3, <3>1, PushEffect
    <3>2. CASE k = "provision"
      <4>1. /\ phase' \in [Requests -> Phases]
            /\ \A q \in Requests :
                 phase'[q] = IF phase[q] = "sent" /\ \E i \in DOMAIN table[k] : table[k][i].req = q
                             THEN "dropped" ELSE phase[q]
        BY <1>1, <3>2, PushEffect, ForgetPhase DEF TInv
      <4>2. \A j \in Kinds : \A i \in DOMAIN table[j] :
              table[j][i].req \in Requests /\ Kind[table[j][i].req] = j
        BY SlotType
      <4>3. ASSUME NEW j \in Kinds, NEW i \in DOMAIN table[j], j # k
            PROVE  phase'[table[j][i].req] = phase[table[j][i].req]
        <5>1. \A l \in DOMAIN table[k] : table[k][l].req # table[j][i].req
          BY <1>1, <4>2, <4>3
        <5>2. QED
          BY <4>1, <4>2, <5>1
      <4>4. phase'[r] = "asking"
        BY <1>1, <2>3, <4>1
      <4>5. QED
        BY <3>2, <4>3, <4>4
    <3>3. QED
      BY <3>1, <3>2
  <2>5. CallersAsk'
    BY <1>1, <1>3, <1>4, <2>4, StillAsk
  <2>6. \A j \in Kinds : \A i \in DOMAIN table[j] :
          /\ \/ phase[table[j][i].req] \in {"sent", "refused"}
             \/ phase[table[j][i].req] \in {"answered", "confused"} /\ InHandler(j, i)
          /\ table[j][i].req \in Requests \ {r}
    BY <1>1, <1>4, <2>1, NotHeld
  <2>7. SlotsOccupied'
    <3>1. SUFFICES ASSUME NEW j \in Kinds, NEW i \in DOMAIN table'[j] PROVE Occupied(j, i)'
      BY DEF SlotsOccupied
    <3>2. CASE table'[j][i].req = r
      BY <1>1, <2>4, <3>2 DEF Occupied, Held
    <3>3. CASE table'[j][i].req # r
      <4>1. /\ i \in DOMAIN table[j] /\ table'[j][i].req = table[j][i].req
            /\ j # k \/ k # "provision"
        BY <1>1, <1>2, <3>1, <3>3
      <4>2. phase'[table[j][i].req] = phase[table[j][i].req]
        BY <2>4, <4>1
      <4>3. QED
        BY <1>1, <2>6, <4>1, <4>2 DEF Occupied, InHandler
    <3>4. QED
      BY <3>2, <3>3
  <2>8. OneSlotEach'
    <3>1. SUFFICES ASSUME NEW j \in Kinds, NEW i \in DOMAIN table'[j], NEW l \in DOMAIN table'[j],
                          table'[j][i].req = table'[j][l].req
                   PROVE  i = l
      BY DEF OneSlotEach
    <3>2. CASE j # k
      BY <1>1, <2>1, <3>1, <3>2 DEF Steady, OneSlotEach
    <3>3. CASE j = k /\ table'[j][i].req = r
      BY <1>1, <1>2, <2>6, <3>1, <3>3
    <3>4. CASE j = k /\ table'[j][i].req # r
      BY <1>1, <1>2, <2>1, <3>1, <3>4 DEF Steady, OneSlotEach
    <3>5. QED
      BY <3>2, <3>3, <3>4
  <2>9. QED
    BY <2>2, <2>5, <2>7, <2>8
<1>5. ASSUME serial, stable, NEW j \in Kinds, table'[j] = <<>>, j \in subs'
      PROVE  handler.pc # "idle" /\ handler.kind = j
  <2>1. Steady /\ j # k /\ table[j] = <<>> /\ j \in subs
    BY <1>1, <1>5 DEF RInv
  <2>2. QED
    BY <1>3, <1>5, <2>1, BeforeStep
<1>6. /\ serial => ~crashed'
      /\ table'[Kind[call'[t].req]] # <<>>
  BY <1>1 DEF RInv, NoCrash, Table
<1>7. call'[t].pc \in RequestSteps \cup {"idle"}
  BY <1>1, <1>3
<1>8. QED
  BY <1>1, <1>3, <1>4, <1>5, <1>6, <1>7, RStep

(* It holds its slot, which is there, while it takes its address. *)
LEMMA BackRInv ==
  ASSUME TInv, RInv, NEW t \in Callers, Back(t)
  PROVE  RInv'
<1> DEFINE r == call[t].req
<1>1. /\ UNCHANGED <<table, handler, use, link, subs, phase>>
      /\ call[t].pc = "back" /\ r \in Requests /\ Table(t) \in Kinds
      /\ \A u \in Callers \ {t} : call'[u] = call[u]
      /\ call'[t].pc = "number" /\ call'[t].req = r
      /\ crashed' = (Len(table[Table(t)]) = 0)
  BY BackEffect DEF tbVars, mqttVars, useVars
<1>2. Asks(t) /\ "number" \in RequestSteps
  BY <1>1 DEF Asks, RequestSteps
<1>3. serial => ~crashed'
  <2>1. table[Table(t)] \in Seq(Slot)
    BY <1>1 DEF TInv, TypeOK
  <2>2. QED
    BY <1>1, <2>1, EmptySeq DEF RInv, Pushed
<1>4. ASSUME serial, stable
      PROVE  LinkHolds' /\ CallersAsk' /\ OneSlotEach' /\ SlotsOccupied'
  <2>1. Steady
    BY <1>4 DEF RInv
  <2>2. LinkHolds' /\ OneSlotEach'
    BY <1>1, <2>1 DEF Steady, LinkHolds, OneSlotEach
  <2>3. CallersAsk'
    <3>1. phase'[r] = "asking"
      BY <1>1, <1>2, <2>1 DEF Steady, CallersAsk
    <3>2. QED
      BY <1>1, <1>2, <1>4, <3>1, StillAsk
  <2>4. SlotsOccupied'
    <3>1. \A q \in Requests : Held(q) => Held(q)'
      BY <1>1 DEF Held
    <3>2. QED
      BY <1>1, <2>1, <3>1, SlotType DEF Steady, SlotsOccupied, Occupied, InHandler
  <2>5. QED
    BY <2>2, <2>3, <2>4
<1>5. ASSUME serial, stable, NEW j \in Kinds, table'[j] = <<>>, j \in subs'
      PROVE  handler.pc # "idle" /\ handler.kind = j
  <2>1. Steady /\ table[j] = <<>> /\ j \in subs
    BY <1>1, <1>5 DEF RInv
  <2>2. QED
    BY <1>1, <1>2, <1>5, <2>1, BeforeStep
<1>6. QED
  BY <1>1, <1>2, <1>3, <1>4, <1>5, RStep

(* It holds its slot while it takes a number. *)
LEMMA NumberRInv ==
  ASSUME TInv, RInv, NEW t \in Callers, SetRequestId(t)
  PROVE  RInv'
<1> DEFINE r == call[t].req
<1>1. /\ UNCHANGED <<handler, use, crashed, link, subs, phase>>
      /\ call[t].pc = "number" /\ r \in Requests
      /\ \A u \in Callers \ {t} : call'[u] = call[u]
      /\ call'[t].pc = "send" /\ call'[t].req = r
      /\ table' \in [Kinds -> Seq(Slot)]
      /\ \A j \in Kinds : /\ Len(table'[j]) = Len(table[j]) /\ DOMAIN table'[j] = DOMAIN table[j]
                          /\ \A i \in DOMAIN table[j] : table'[j][i].req = table[j][i].req
  BY NumberEffect DEF mqttVars, useVars, pastVars
<1>2. Asks(t) /\ "send" \in RequestSteps
  BY <1>1 DEF Asks, RequestSteps
<1>3. ASSUME serial, stable
      PROVE  LinkHolds' /\ CallersAsk' /\ OneSlotEach' /\ SlotsOccupied'
  <2>1. Steady
    BY <1>3 DEF RInv
  <2>2. LinkHolds' /\ OneSlotEach'
    BY <1>1, <2>1 DEF Steady, LinkHolds, OneSlotEach
  <2>3. CallersAsk'
    <3>1. phase'[r] = "asking"
      BY <1>1, <1>2, <2>1 DEF Steady, CallersAsk
    <3>2. QED
      BY <1>1, <1>2, <1>3, <3>1, StillAsk
  <2>4. SlotsOccupied'
    <3>1. SUFFICES ASSUME NEW j \in Kinds, NEW i \in DOMAIN table[j] PROVE Occupied(j, i)'
      BY <1>1 DEF SlotsOccupied
    <3>2. table[j][i].req \in Requests /\ Occupied(j, i)
      BY <2>1, SlotType DEF Steady, SlotsOccupied
    <3>3. Held(table[j][i].req) => Held(table[j][i].req)'
      <4>1. SUFFICES ASSUME Held(table[j][i].req) PROVE Held(table[j][i].req)'
        OBVIOUS
      <4>2. table[j][i].req = r
        BY <1>2, <1>3, <3>2, <4>1, HeldByOne
      <4>3. QED
        BY <1>1, <3>1, <4>2 DEF Held
    <3>4. QED
      BY <1>1, <3>2, <3>3 DEF Occupied, InHandler, Held
  <2>5. QED
    BY <2>2, <2>3, <2>4
<1>4. ASSUME serial, stable, NEW j \in Kinds, table'[j] = <<>>, j \in subs'
      PROVE  handler.pc # "idle" /\ handler.kind = j
  <2>1. Len(table[j]) = 0 /\ table[j] \in Seq(Slot)
    BY <1>1, <1>4, EmptySeq DEF TInv, TypeOK
  <2>2. table[j] = <<>>
    BY <2>1, EmptySeq
  <2>3. Steady /\ j \in subs
    BY <1>1, <1>4 DEF RInv
  <2>4. QED
    BY <1>1, <1>2, <1>4, <2>2, <2>3, BeforeStep
<1>5. serial => ~crashed'
  BY <1>1 DEF RInv, NoCrash
<1>6. QED
  BY <1>1, <1>2, <1>3, <1>4, <1>5, RStep

(* It lets go of its slot, which waits or was refused. *)
LEMMA SendRInv ==
  ASSUME TInv, RInv, NEW t \in Callers, SendJson(t)
  PROVE  RInv'
<1> DEFINE r == call[t].req
<1>1. /\ UNCHANGED <<table, handler, use, crashed, link, subs>>
      /\ call[t].pc = "send" /\ r \in Requests
      /\ \A u \in Callers \ {t} : call'[u] = call[u]
      /\ call'[t].pc = "idle"
      /\ \A q \in Requests \ {r} : phase'[q] = phase[q]
      /\ phase'[r] \in {"refused", "sent"}
  BY SendEffect DEF tbVars, useVars
<1>2. Asks(t) /\ "idle" \notin RequestSteps
  BY <1>1 DEF Asks, RequestSteps
<1>3. ASSUME serial, stable
      PROVE  LinkHolds' /\ CallersAsk' /\ OneSlotEach' /\ SlotsOccupied'
  <2>1. Steady
    BY <1>3 DEF RInv
  <2>2. LinkHolds' /\ OneSlotEach'
    BY <1>1, <2>1 DEF Steady, LinkHolds, OneSlotEach
  <2>3. CallersAsk'
    BY <1>1, <1>2, <1>3, StillAsk
  <2>4. SlotsOccupied'
    <3>1. SUFFICES ASSUME NEW j \in Kinds, NEW i \in DOMAIN table[j] PROVE Occupied(j, i)'
      BY <1>1 DEF SlotsOccupied
    <3>2. table[j][i].req \in Requests /\ Occupied(j, i)
      BY <2>1, SlotType DEF Steady, SlotsOccupied
    <3>3. CASE table[j][i].req = r
      BY <1>1, <3>3 DEF Occupied
    <3>4. CASE table[j][i].req # r
      <4>1. ~Held(table[j][i].req)
        BY <1>2, <1>3, <3>2, <3>4, HeldByOne
      <4>2. QED
        BY <1>1, <3>2, <3>4, <4>1 DEF Occupied, InHandler
    <3>5. QED
      BY <3>3, <3>4
  <2>5. QED
    BY <2>2, <2>3, <2>4
<1>4. ASSUME serial, stable, NEW j \in Kinds, table'[j] = <<>>, j \in subs'
      PROVE  handler.pc # "idle" /\ handler.kind = j
  <2>1. Steady /\ table[j] = <<>> /\ j \in subs
    BY <1>1, <1>4 DEF RInv
  <2>2. QED
    BY <1>1, <1>2, <1>4, <2>1, BeforeStep
<1>5. serial => ~crashed'
  BY <1>1 DEF RInv, NoCrash
<1>6. QED
  BY <1>1, <1>2, <1>3, <1>4, <1>5, RStep
(* The slot whose callback runs is in the hands of the handler. *)
LEMMA DeliverRInv ==
  ASSUME TInv, RInv, NEW a \in net, Deliver(a)
  PROVE  RInv'
<1> DEFINE k == a.kind
           i == handler'.slot
           r == table[k][i].req
<1>1. /\ UNCHANGED <<table, call, use, crashed, link, subs>>
      /\ handler.pc = "idle" /\ call["mqtt"].pc = "idle"
      /\ serial => call["app"].pc = "idle"
      /\ \/ UNCHANGED <<handler, phase>>
         \/ /\ UNCHANGED phase /\ handler'.pc \in {"clear", "test"}
         \/ /\ handler'.pc = "callback" /\ handler'.kind = k
            /\ i \in DOMAIN table[k]
            /\ r \in Requests /\ \A q \in Requests \ {r} : phase'[q] = phase[q]
            /\ phase'[r] \in {"answered", "confused"}
  BY DeliverEffect DEF tbVars, useVars
<1>2. k \in Kinds
  BY DEF TInv, TypeOK, Answers
<1>3. Pushed' /\ NoCrash'
  BY <1>1, SameUse DEF RInv, Pushed, NoCrash, Table
<1>4. SUFFICES ASSUME serial, stable PROVE Steady'
  BY <1>1, <1>3, SameUse DEF RInv
<1>5. Steady /\ \A t \in Callers : ~Asks(t)
  BY <1>1, <1>4 DEF RInv, Asks, RequestSteps, Callers
<1>6. /\ \A j \in Kinds : \A l \in DOMAIN table[j] : phase[table[j][l].req] \in {"sent", "refused"}
      /\ \A j \in Kinds : ~Filling(j)
  BY <1>1, <1>5, Settled DEF InHandler
<1>7. LinkHolds' /\ OneSlotEach'
  BY <1>1, <1>5 DEF Steady, LinkHolds, OneSlotEach
<1>8. CallersAsk'
  BY <1>1, <1>5 DEF CallersAsk, Asks
<1>9. EmptyLeft'
  <2>1. \A j \in Kinds : ~(table[j] = <<>> /\ j \in subs)
    BY <1>1, <1>4, <1>5, <1>6 DEF Steady, EmptyLeft, Leaving
  <2>2. QED
    BY <1>1, <2>1 DEF EmptyLeft
<1>10. SlotsOccupied'
  <2>1. SUFFICES ASSUME NEW j \in Kinds, NEW l \in DOMAIN table[j] PROVE Occupied(j, l)'
    BY <1>1 DEF SlotsOccupied
  <2>2. table[j][l].req \in Requests /\ Kind[table[j][l].req] = j
    BY SlotType
  <2>3. CASE UNCHANGED phase
    BY <1>1, <1>6, <2>3 DEF Occupied
  <2>4. CASE /\ handler'.pc = "callback" /\ handler'.kind = k
             /\ i \in DOMAIN table[k]
             /\ r \in Requests /\ \A q \in Requests \ {r} : phase'[q] = phase[q]
             /\ phase'[r] \in {"answered", "confused"}
    <3>1. CASE table[j][l].req = r
      <4>1. j = k
        BY <1>2, <2>2, <2>4, <3>1, SlotType
      <4>2. l = i
        BY <1>2, <1>5, <2>4, <3>1, <4>1 DEF Steady, OneSlotEach
      <4>3. QED
        BY <1>1, <2>4, <3>1, <4>1, <4>2 DEF Occupied, InHandler
    <3>2. CASE table[j][l].req # r
      BY <1>1, <1>6, <2>2, <2>4, <3>2 DEF Occupied
    <3>3. QED
      BY <3>1, <3>2
  <2>5. QED
    BY <1>1, <2>3, <2>4
<1>11. QED
  BY <1>7, <1>8, <1>9, <1>10 DEF Steady

(* While the handler goes on nobody calls, and it leaves only its topic.   *)
LEMMA HandlerAlone ==
  ASSUME TInv, serial, Steady, HandlerStep
  PROVE  /\ handler \in HandlerType /\ handler.pc # "idle"
         /\ \A t \in Callers : call[t].pc = "idle" /\ ~Asks(t)
         /\ \A j \in Kinds : \A l \in DOMAIN table[j] :
              \/ phase[table[j][l].req] \in {"sent", "refused"}
              \/ phase[table[j][l].req] \in {"answered", "confused"} /\ InHandler(j, l)
         /\ \A j \in Kinds : table[j] = <<>> /\ j \in subs => j = handler.kind
<1>1. handler \in HandlerType /\ handler.pc # "idle"
  BY DEF TInv, TypeOK, HandlerStep, RemoveCallback, TestEmpty, ClearTable, LeaveAnswers
<1>2. call["app"].pc = "idle"
  BY <1>1 DEF TInv, Excluded
<1>3. call["mqtt"].pc = "idle"
  BY DEF TInv, ByHandler, HandlerStep, RemoveCallback, TestEmpty, ClearTable, LeaveAnswers
<1>4. \A t \in Callers : call[t].pc = "idle" /\ ~Asks(t)
  BY <1>2, <1>3 DEF Asks, RequestSteps, Callers
<1>5. /\ \A j \in Kinds : \A l \in DOMAIN table[j] :
           \/ phase[table[j][l].req] \in {"sent", "refused"}
           \/ phase[table[j][l].req] \in {"answered", "confused"} /\ InHandler(j, l)
      /\ \A j \in Kinds : ~Filling(j)
  BY <1>4, Settled
<1>6. \A j \in Kinds : table[j] = <<>> /\ j \in subs => j = handler.kind
  BY <1>2, <1>5 DEF Steady, EmptyLeft, Leaving
<1>7. QED
  BY <1>1, <1>4, <1>5, <1>6

(* The handler releases that slot, and with the last one the table and the *)
(* topic.                                                                  *)
LEMMA HandlerRInv == TInv /\ TInv' /\ ~crashed /\ RInv /\ HandlerStep => RInv'
<1> DEFINE k == handler.kind
<1>1. SUFFICES ASSUME TInv, ~crashed, RInv, HandlerStep PROVE RInv'
  OBVIOUS
<1>2. UNCHANGED <<call, use, link>> /\ handler'.pc # "callback"
  <2>1. CASE RemoveCallback
    BY <1>1, <2>1, RemoveEffect DEF mqttVars, useVars
  <2>2. CASE TestEmpty
    BY <1>1, <2>2, TestEffect DEF mqttVars, useVars
  <2>3. CASE ClearTable
    BY <1>1, <2>3, ClearEffect DEF mqttVars, useVars
  <2>4. CASE LeaveAnswers
    BY <1>1, <2>4, LeaveEffect
  <2>5. QED
    BY <1>1, <2>1, <2>2, <2>3, <2>4 DEF HandlerStep
<1>3. UNCHANGED crashed
  BY <1>1 DEF HandlerStep, RemoveCallback, TestEmpty, ClearTable, LeaveAnswers, pastVars
<1>4. Pushed' /\ NoCrash'
  <2>1. /\ handler.pc # "idle"
        /\ handler.pc = "callback" => call["mqtt"].pc = "idle"
    BY <1>1 DEF HandlerStep, RemoveCallback, TestEmpty, ClearTable, LeaveAnswers
  <2>2. serial => \A t \in Callers : call[t].pc = "idle"
    BY <1>1, <2>1 DEF TInv, Excluded, ByHandler, Callers
  <2>3. QED
    BY <1>1, <1>2, <1>3, <2>2, SameUse DEF RInv, Pushed, NoCrash
<1>5. SUFFICES ASSUME serial, stable PROVE Steady'
  BY <1>2, <1>4, SameUse DEF RInv
<1>6. Steady
  BY <1>1, <1>5 DEF RInv
<1>7. /\ handler \in HandlerType /\ handler.pc # "idle"
      /\ \A t \in Callers : call[t].pc = "idle" /\ ~Asks(t)
      /\ \A j \in Kinds : \A l \in DOMAIN table[j] :
           \/ phase[table[j][l].req] \in {"sent", "refused"}
           \/ phase[table[j][l].req] \in {"answered", "confused"} /\ InHandler(j, l)
      /\ \A j \in Kinds : table[j] = <<>> /\ j \in subs => j = k
  BY <1>1, <1>5, <1>6, HandlerAlone
<1>8. k \in Kinds
  BY <1>7 DEF HandlerType
<1>9. CallersAsk'
  BY <1>2, <1>7 DEF CallersAsk, Asks
<1>10. CASE RemoveCallback
  <2>1. /\ UNCHANGED <<phase, subs>> /\ handler.pc = "callback"
        /\ handler'.kind = k /\ handler'.slot = handler.slot /\ handler'.pc # "idle"
        /\ \/ k = "provision" /\ handler'.pc = "clear" /\ UNCHANGED table
           \/ /\ k # "provision" /\ handler.slot \in DOMAIN table[k]
              /\ table' = [table EXCEPT ![k] = RemoveAt(@, handler.slot)]
    BY <1>1, <1>10, RemoveEffect DEF mqttVars, pastVars
  <2>2. LinkHolds'
    BY <1>2, <1>6, <2>1 DEF Steady, LinkHolds
  <2>3. CASE k = "provision" /\ handler'.pc = "clear" /\ UNCHANGED table
    <3>1. OneSlotEach' /\ EmptyLeft'
      BY <1>6, <1>7, <2>1, <2>3 DEF Steady, OneSlotEach, EmptyLeft, Leaving
    <3>2. SlotsOccupied'
      BY <1>7, <2>1, <2>3 DEF SlotsOccupied, Occupied, InHandler
    <3>3. QED
      BY <1>9, <2>2, <3>1, <3>2 DEF Steady
  <2>4. CASE /\ k # "provision" /\ handler.slot \in DOMAIN table[k]
             /\ table' = [table EXCEPT ![k] = RemoveAt(@, handler.slot)]
    <3>1. /\ \A j \in Kinds \ {k} : table'[j] = table[j]
          /\ \A j \in DOMAIN table'[k] :
               \E l \in DOMAIN table[k] \ {handler.slot} : table'[k][j] = table[k][l]
          /\ \A j, l \in DOMAIN table'[k] :
               j # l => \E m, n \in DOMAIN table[k] : /\ m # n
                                                      /\ table'[k][j] = table[k][m]
                                                      /\ table'[k][l] = table[k][n]
      <4>1. TypeOK
        BY <1>1 DEF TInv
      <4>2. QED
        BY <1>8, <2>4, <4>1, RemoveTable DEF Shrinks
    <3>2. EmptyLeft'
      BY <1>7, <2>1, <3>1 DEF EmptyLeft, Leaving
    <3>3. OneSlotEach'
      <4>1. SUFFICES ASSUME NEW j \in Kinds, NEW l \in DOMAIN table'[j], NEW m \in DOMAIN table'[j],
                            l # m
                     PROVE  table'[j][l].req # table'[j][m].req
        BY DEF OneSlotEach
      <4>2. CASE j # k
        BY <1>6, <3>1, <4>1, <4>2 DEF Steady, OneSlotEach
      <4>3. CASE j = k
        <5>1. PICK p, q \in DOMAIN table[k] : /\ p # q /\ table'[k][l] = table[k][p]
                                              /\ table'[k][m] = table[k][q]
          BY <3>1, <4>1, <4>3
        <5>2. table[k][p].req # table[k][q].req
          BY <1>6, <1>8, <5>1 DEF Steady, OneSlotEach
        <5>3. QED
          BY <4>3, <5>1, <5>2
      <4>4. QED
        BY <4>2, <4>3
    <3>4. SlotsOccupied'
      <4>1. SUFFICES ASSUME NEW j \in Kinds, NEW l \in DOMAIN table'[j] PROVE Occupied(j, l)'
        BY DEF SlotsOccupied
      <4>2. CASE j # k
        BY <1>7, <2>1, <3>1, <4>1, <4>2 DEF Occupied, InHandler
      <4>3. CASE j = k
        <5>1. PICK m \in DOMAIN table[k] \ {handler.slot} : table'[k][l] = table[k][m]
          BY <3>1, <4>1, <4>3
        <5>2. phase[table[k][m].req] \in {"sent", "refused"}
          BY <1>7, <1>8, <5>1 DEF InHandler
        <5>3. QED
          BY <2>1, <4>3, <5>1, <5>2 DEF Occupied
      <4>4. QED
        BY <4>2, <4>3
    <3>5. QED
      BY <1>9, <2>2, <3>2, <3>3, <3>4 DEF Steady
  <2>5. QED
    BY <2>1, <2>3, <2>4
<1>11. CASE TestEmpty
  <2>1. /\ UNCHANGED <<table, phase, subs>> /\ handler.pc = "test"
        /\ \/ handler'.pc = "clear" /\ handler'.kind = k
           \/ table[k] # <<>>
    BY <1>1, <1>11, TestEffect DEF tbVars, mqttVars, pastVars
  <2>2. LinkHolds' /\ OneSlotEach'
    BY <1>2, <1>6, <2>1 DEF Steady, LinkHolds, OneSlotEach
  <2>3. SlotsOccupied'
    BY <1>7, <2>1 DEF SlotsOccupied, Occupied, InHandler
  <2>4. EmptyLeft'
    BY <1>7, <2>1 DEF EmptyLeft, Leaving
  <2>5. QED
    BY <1>9, <2>2, <2>3, <2>4 DEF Steady
<1>12. CASE ClearTable
  <2>1. UNCHANGED subs /\ Forget(k) /\ handler'.pc = "unsubscribe" /\ handler'.kind = k
    BY <1>1, <1>12, ClearEffect DEF mqttVars
  <2>2. LinkHolds' /\ OneSlotEach'
    BY <1>1, <1>2, <1>6, <1>8, <2>1, ForgetOneSlot DEF Steady, LinkHolds
  <2>3. \A j \in Kinds : \A l \in DOMAIN table[j] :
          j # k => phase[table[j][l].req] \in {"sent", "refused"}
    BY <1>7 DEF InHandler
  <2>4. \A j \in Kinds : \A l \in DOMAIN table'[j] : phase'[table'[j][l].req] \in {"sent", "refused"}
    BY <1>1, <1>8, <2>1, <2>3, ForgetSettles
  <2>5. SlotsOccupied'
    BY <2>4 DEF SlotsOccupied, Occupied
  <2>6. EmptyLeft'
    <3>1. \A j \in Kinds \ {k} : table'[j] = table[j]
      BY <1>1, <1>8, <2>1, ForgetTable DEF TInv, Shrinks
    <3>2. QED
      BY <1>7, <2>1, <3>1 DEF EmptyLeft, Leaving
  <2>7. QED
    BY <1>9, <2>2, <2>5, <2>6 DEF Steady
<1>13. CASE LeaveAnswers
  <2>1. /\ UNCHANGED <<table, phase>> /\ handler.pc = "unsubscribe"
        /\ subs' \subseteq subs /\ (link = "up" => k \notin subs')
    BY <1>1, <1>5, <1>13, LeaveEffect DEF tbVars, pastVars
  <2>2. LinkHolds' /\ OneSlotEach' /\ k \notin subs'
    BY <1>2, <1>6, <2>1 DEF Steady, LinkHolds, OneSlotEach
  <2>3. SlotsOccupied'
    BY <1>7, <2>1 DEF SlotsOccupied, Occupied, InHandler
  <2>4. EmptyLeft'
    BY <1>7, <2>1, <2>2 DEF EmptyLeft
  <2>5. QED
    BY <1>9, <2>2, <2>3, <2>4 DEF Steady
<1>14. QED
  BY <1>1, <1>10, <1>11, <1>12, <1>13 DEF HandlerStep

(* Every step keeps the slots accounted for. *)
LEMMA NextRInv == TInv /\ TInv' /\ RInv /\ [Next]_vars => RInv'
<1>1. SUFFICES ASSUME TInv, TInv', RInv, [Next]_vars PROVE RInv'
  OBVIOUS
<1>2. CASE UNCHANGED vars
  <2>1. UNCHANGED <<table, call, handler, phase, use, crashed, subs, link>>
    BY <1>2 DEF vars, tbVars, mqttVars, useVars, pastVars
  <2>2. serial /\ stable => subs' \cap Kinds \subseteq subs /\ (subs' # {} => link' = "up")
    BY <1>1, <2>1 DEF RInv, Steady, LinkHolds
  <2>3. QED
    BY <1>1, <2>1, <2>2, RFrame
<1>3. CASE Network \/ Publisher
  BY <1>1, <1>3, NetworkRInv, PublisherRInv
<1>4. CASE Begin \/ AppStep
  BY <1>1, <1>4, AppRInv
<1>5. CASE \E t \in Callers : \E r \in Requests : Request(t, r)
  BY <1>1, <1>5, RequestRInv
<1>6. CASE \E t \in Callers : RequestStep(t)
  BY <1>1, <1>6, SubscribeRInv, PushRInv, BackRInv, NumberRInv, SendRInv DEF RequestStep
<1>7. CASE \E a \in net : Deliver(a)
  BY <1>1, <1>7, DeliverRInv
<1>8. CASE ~crashed /\ HandlerStep
  BY <1>1, <1>8, HandlerRInv
<1>9. CASE Race
  <2>1. ~serial /\ UNCHANGED use
    BY <1>9 DEF Race, useVars
  <2>2. QED
    BY <2>1, SameUse DEF RInv, Pushed, NoCrash
<1>10. QED
  BY <1>1, <1>2, <1>3, <1>4, <1>5, <1>6, <1>7, <1>8, <1>9, NextCases

(* While calls and messages exclude each other no vector is used that is   *)
(* gone, and on a connection that holds a table and its topic are          *)
(* released with the last answer: at rest a slot waits for its answer or   *)
(* was refused by the send buffer, and an empty table is not listened for  *)
(* (ThingsBoard.h:1583-1593, 1860-1870).                                   *)
THEOREM ReleasesAll == Spec => []Released
<1>1. TInv /\ RInv => Released
  <2>1. SUFFICES ASSUME TInv, RInv PROVE Released
    OBVIOUS
  <2>2. crashed => ~serial
    BY <2>1 DEF RInv, NoCrash
  <2>3. SUFFICES ASSUME NEW k \in Kinds, serial, stable, handler.pc = "idle",
                        \A t \in Callers : call[t].pc = "idle"
                 PROVE  /\ \A i \in DOMAIN table[k] : phase[table[k][i].req] \in {"sent", "refused"}
                        /\ table[k] = <<>> => k \notin subs
    BY <2>2 DEF Released
  <2>4. Steady /\ \A t \in Callers : ~Asks(t)
    BY <2>1, <2>3 DEF RInv, Asks, RequestSteps
  <2>5. /\ \A i \in DOMAIN table[k] : phase[table[k][i].req] \in {"sent", "refused"}
        /\ ~Filling(k)
    BY <2>1, <2>3, <2>4, Settled DEF InHandler
  <2>6. ~Leaving(k)
    BY <2>3 DEF Leaving, Callers
  <2>7. QED
    BY <2>3, <2>4, <2>5, <2>6 DEF Steady, EmptyLeft
<1>2. QED
  BY <1>1, InitTInv, NextTInv, InitRInv, NextRInv, PTL DEF Spec
-----------------------------------------------------------------------------
(* The promise of a request.  While a caller takes the address of its slot *)
(* that is the last one, or there is none; on its way to the number of the *)
(* slot it finds it there, or nothing; with its number in hand no other    *)
(* slot has that number; and an answer finds only the slot of its request. *)
Newest(t) ==
  LET s == table[Table(t)]
  IN s # <<>> => s[Len(s)].req = call[t].req
Numbering(t) ==
  LET k == Table(t)
      i == call[t].slot
  IN Len(table[k]) <= i /\ (i \in DOMAIN table[k] => table[k][i].req = call[t].req)
Sending(t) ==
  /\ call[t].id \in 1 .. m_request_id
  /\ \A i \in Matching(Table(t), call[t].id) : table[Table(t)][i].req = call[t].req

Calling == \A t \in Callers :
             Asks(t) /\ Table(t) # "provision"
             => /\ phase[call[t].req] = "asking"
                /\ call[t].pc = "number" => Numbering(t)
                /\ call[t].pc = "send" => Sending(t)
Slots == \A k \in Kinds \ {"provision"} : \A i \in DOMAIN table[k] :
           table[k][i].id <= m_request_id /\ phase[table[k][i].req] # "dropped"
Answering == \A a \in net :
               a.kind # "provision"
               => /\ a.id \in 1 .. m_request_id
                  /\ phase[a.req] \in {"sent", "dropped"}
                  /\ \A i \in Matching(a.kind, a.id) : table[a.kind][i].req = a.req
                  /\ \A b \in net : b.req = a.req => b = a

PInv == OneCaller => Calling /\ Slots /\ Answering

(* What the handler erases is the slot of a request that was answered: not *)
(* the one a caller takes the address of.                                  *)
Backs   == \A t \in Callers : call[t].pc = "back" => Newest(t)
Handing == ~crashed /\ handler.pc = "callback" /\ handler.kind # "provision"
           => phase[table[handler.kind][handler.slot].req] = "answered"

BInv == OneCaller => Backs /\ Handing

(* Nothing is asked or answered yet. *)
LEMMA InitPInv == Init => PInv
<1>1. SUFFICES ASSUME Init PROVE PInv
  OBVIOUS
<1>2. \A k \in Kinds : DOMAIN table[k] = {}
  <2>1. DOMAIN <<>> = {}
    OBVIOUS
  <2>2. QED
    BY <1>1, <2>1 DEF Init
<1>3. \A t \in Callers : ~Asks(t)
  BY <1>1, IdleType DEF Init, Asks, RequestSteps
<1>4. QED
  BY <1>1, <1>2, <1>3 DEF Init, PInv, Calling, Slots, Answering

(* A table that shrinks does not get in the way of anybody. *)
Less(k) == /\ table'[k] = table[k] \/ Len(table'[k]) < Len(table[k])
           /\ \A i \in DOMAIN table'[k] : \E j \in DOMAIN table[k] : table'[k][i] = table[k][j]

(* Erasing from a table, or clearing it, disturbs nobody. *)
LEMMA ShrinksLess ==
  ASSUME NEW k \in Kinds, Shrinks(k)
  PROVE  \A j \in Kinds : Less(j)
  BY DEF Shrinks, Less

(* What makes no slot and no answer keeps the promise, as long as nobody   *)
(* loses a request in progress, a slot that is kept or an answer.          *)
LEMMA PKeeps ==
  ASSUME TInv, TInv', PInv, UNCHANGED <<m_request_id, use>>, net' \subseteq net,
         \A k \in Kinds \ {"provision"} : Less(k),
         OneCaller => \A t \in Callers :
           Asks(t)' /\ Table(t)' # "provision"
           => /\ phase'[call'[t].req] = "asking"
              /\ call'[t] = call[t] \/ call'[t].pc \in {"subscribe", "push"},
         OneCaller => \A k \in Kinds \ {"provision"} : \A i \in DOMAIN table'[k] :
           phase'[table'[k][i].req] # "dropped",
         OneCaller => \A a \in net' : a.kind # "provision" => phase'[a.req] \in {"sent", "dropped"}
  PROVE  PInv'
<1>1. SUFFICES ASSUME OneCaller PROVE Calling' /\ Slots' /\ Answering'
  BY SameUse DEF PInv
<1>2. Calling /\ Slots /\ Answering
  BY <1>1 DEF PInv
<1>3. \A k \in Kinds \ {"provision"} : \A n \in Nat, r \in Requests :
        (\A i \in Matching(k, n) : table[k][i].req = r)
        => \A i \in DOMAIN table'[k] : table'[k][i].id = n => table'[k][i].req = r
  BY DEF Less, Matching
<1>4. Calling'
  <2>1. SUFFICES ASSUME NEW t \in Callers, Asks(t)', Table(t)' # "provision",
                        call'[t] = call[t], call[t].pc \in {"number", "send"}
                 PROVE  (call[t].pc = "number" => Numbering(t)') /\ (call[t].pc = "send" => Sending(t)')
    BY <1>1 DEF Calling
  <2>2. Asks(t) /\ Table(t)' = Table(t) /\ call[t].pc # "idle"
    BY <2>1 DEF Asks, Table, RequestSteps
  <2>3. /\ Table(t) \in Kinds \ {"provision"} /\ call[t].req \in Requests
        /\ call[t] \in Call /\ call[t].slot \in Nat
    BY <2>1, <2>2, InCallAt DEF TInv, TypeOK, Call
  <2>4. CASE call[t].pc = "number"
    <3>1. Numbering(t)
      BY <1>2, <2>2, <2>3, <2>4 DEF Calling
    <3>2. /\ Len(table[Table(t)]) \in Nat /\ Len(table'[Table(t)]) \in Nat
          /\ DOMAIN table'[Table(t)] = 1 .. Len(table'[Table(t)])
      BY <2>3, LenProperties DEF TInv, TypeOK
    <3>3. Less(Table(t))
      BY <2>3
    <3>4. Numbering(t)'
      <4>1. CASE table'[Table(t)] = table[Table(t)]
        BY <2>1, <2>2, <3>1, <4>1 DEF Numbering
      <4>2. CASE Len(table'[Table(t)]) < Len(table[Table(t)])
        <5>1. Len(table'[Table(t)]) < call[t].slot
          BY <2>3, <3>1, <3>2, <4>2 DEF Numbering
        <5>2. call[t].slot \notin DOMAIN table'[Table(t)]
          BY <2>3, <3>2, <5>1
        <5>3. Len(table'[Table(t)]) <= call[t].slot
          BY <2>3, <3>2, <5>1
        <5>4. QED
          BY <2>1, <2>2, <5>2, <5>3 DEF Numbering
      <4>3. QED
        BY <3>3, <4>1, <4>2 DEF Less
    <3>5. QED
      BY <2>4, <3>4
  <2>5. CASE call[t].pc = "send"
    <3>1. Sending(t)
      BY <1>2, <2>2, <2>3, <2>5 DEF Calling
    <3>2. call[t].id \in Nat
      BY <2>3 DEF Call
    <3>3. \A i \in DOMAIN table'[Table(t)] :
            table'[Table(t)][i].id = call[t].id => table'[Table(t)][i].req = call[t].req
      BY <1>3, <2>3, <3>1, <3>2 DEF Sending
    <3>4. Sending(t)'
      BY <2>1, <2>2, <3>1, <3>3 DEF Sending, Matching
    <3>5. QED
      BY <2>5, <3>4
  <2>6. QED
    BY <2>1, <2>4, <2>5
<1>5. Slots'
  BY <1>1, <1>2 DEF Slots, Less
<1>6. Answering'
  <2>1. SUFFICES ASSUME NEW a \in net', a.kind # "provision"
                 PROVE  \A i \in DOMAIN table'[a.kind] :
                          table'[a.kind][i].id = a.id => table'[a.kind][i].req = a.req
    BY <1>1, <1>2 DEF Answering, Matching
  <2>2. a \in net /\ a.kind \in Kinds \ {"provision"} /\ a.id \in Nat /\ a.req \in Requests
    BY <2>1 DEF TInv, TypeOK, Answers
  <2>3. \A i \in Matching(a.kind, a.id) : table[a.kind][i].req = a.req
    BY <1>2, <2>2 DEF Answering
  <2>4. QED
    BY <1>3, <2>2, <2>3
<1>7. QED
  BY <1>4, <1>5, <1>6
(* Steps that change no table, phase or answer, and begin no request. *)
LEMMA PSame ==
  ASSUME TInv, TInv', PInv, UNCHANGED <<table, phase, net, m_request_id, use>>,
         \A t \in Callers : Asks(t)' => call'[t] = call[t]
  PROVE  PInv'
<1>1. OneCaller => Calling /\ Slots /\ Answering
  BY DEF PInv
<1>2. \A k \in Kinds \ {"provision"} : Less(k)
  BY DEF Less
<1>3. OneCaller => \A t \in Callers :
        Asks(t)' /\ Table(t)' # "provision" => phase'[call'[t].req] = "asking" /\ call'[t] = call[t]
  BY <1>1 DEF Calling, Asks, Table
<1>4. OneCaller => \A k \in Kinds \ {"provision"} : \A i \in DOMAIN table'[k] :
        phase'[table'[k][i].req] # "dropped"
  BY <1>1 DEF Slots
<1>5. OneCaller => \A a \in net' : a.kind # "provision" => phase'[a.req] \in {"sent", "dropped"}
  BY <1>1 DEF Answering
<1>6. QED
  BY <1>2, <1>3, <1>4, <1>5, PKeeps

(* Clearing a table gives up what was sent, and its slots are gone. *)
LEMMA PForget ==
  ASSUME TInv, TInv', PInv, NEW k \in Kinds, Forget(k), UNCHANGED <<net, m_request_id, use>>,
         \A t \in Callers : Asks(t)' => call'[t] = call[t]
  PROVE  PInv'
<1>1. OneCaller => Calling /\ Slots /\ Answering
  BY DEF PInv
<1>2. table'[k] = <<>> /\ Shrinks(k) /\ DOMAIN <<>> = {}
  BY ForgetTable DEF TInv
<1>3. \A j \in Kinds \ {"provision"} : Less(j)
  BY <1>2, ShrinksLess
<1>4. \A r \in Requests :
        phase'[r] = IF phase[r] = "sent" /\ \E i \in DOMAIN table[k] : table[k][i].req = r
                    THEN "dropped" ELSE phase[r]
  BY ForgetPhase DEF TInv, Forget
<1>5. OneCaller => \A t \in Callers :
        Asks(t)' /\ Table(t)' # "provision" => phase'[call'[t].req] = "asking" /\ call'[t] = call[t]
  <2>1. SUFFICES ASSUME OneCaller, NEW t \in Callers, Asks(t)', Table(t)' # "provision"
                 PROVE  phase'[call'[t].req] = "asking" /\ call'[t] = call[t]
    OBVIOUS
  <2>2. call'[t] = call[t] /\ Asks(t) /\ Table(t) # "provision" /\ call[t].pc # "idle"
    BY <2>1 DEF Asks, Table, RequestSteps
  <2>3. call[t].req \in Requests /\ phase[call[t].req] = "asking"
    BY <1>1, <2>1, <2>2, InCallAt DEF Calling
  <2>4. QED
    BY <1>4, <2>2, <2>3
<1>6. OneCaller => \A j \in Kinds \ {"provision"} : \A i \in DOMAIN table'[j] :
        phase'[table'[j][i].req] # "dropped"
  <2>1. SUFFICES ASSUME OneCaller, NEW j \in Kinds \ {"provision"}, NEW i \in DOMAIN table'[j]
                 PROVE  phase'[table'[j][i].req] # "dropped"
    OBVIOUS
  <2>2. j # k /\ table'[j] = table[j]
    BY <1>2, <2>1 DEF Shrinks
  <2>3. table[j][i].req \in Requests /\ Kind[table[j][i].req] = j
    BY <2>1, <2>2, SlotType
  <2>4. \A l \in DOMAIN table[k] : Kind[table[k][l].req] = k
    BY SlotType
  <2>5. phase'[table[j][i].req] = phase[table[j][i].req]
    BY <1>4, <2>2, <2>3, <2>4
  <2>6. QED
    BY <1>1, <2>1, <2>2, <2>5 DEF Slots
<1>7. OneCaller => \A a \in net' : a.kind # "provision" => phase'[a.req] \in {"sent", "dropped"}
  <2>1. \A a \in net : a.req \in Requests
    BY DEF TInv, TypeOK, Answers
  <2>2. QED
    BY <1>1, <1>4, <2>1 DEF Answering
<1>8. QED
  BY <1>3, <1>5, <1>6, <1>7, PKeeps

(* The connection and the resubscription keep the promise. *)
LEMMA NetworkPInv == TInv /\ TInv' /\ PInv /\ (Network \/ Publisher) => PInv'
<1>1. SUFFICES ASSUME TInv, TInv', PInv, Network \/ Publisher PROVE PInv'
  OBVIOUS
<1>2. UNCHANGED <<table, phase, net, m_request_id, use, call>>
  BY <1>1 DEF Network, Publisher, Attempt, Disconnect, AutoReconnect, Connect, Resubscribe,
              tbVars, useVars, pastVars
<1>3. QED
  BY <1>1, <1>2, PSame

(* A cleanup gives up what it clears. *)
LEMMA AppPInv == TInv /\ TInv' /\ PInv /\ (Begin \/ AppStep) => PInv'
<1>1. SUFFICES ASSUME TInv, TInv', PInv, Begin \/ AppStep PROVE PInv'
  OBVIOUS
<1>2. /\ UNCHANGED <<net, m_request_id, use>>
      /\ \A t \in Callers \ {"app"} : call'[t] = call[t]
      /\ call'["app"].pc \in {"idle", "enter", "insert", "clear", "leave"}
      /\ UNCHANGED <<table, phase>> \/ \E k \in Kinds : Forget(k)
  <2>1. CASE Begin
    BY <1>1, <2>1, BeginEffect DEF tbVars, mqttVars, pastVars
  <2>2. CASE EnterTopic
    BY <1>1, <2>2, EnterEffect DEF tbVars
  <2>3. CASE Insert
    BY <1>1, <2>3, InsertEffect DEF mqttVars, useVars, pastVars
  <2>4. CASE ClearTopic
    BY <1>1, <2>4, ClearTopicEffect DEF mqttVars, useVars
  <2>5. CASE LeaveTopic
    BY <1>1, <2>5, LeaveTopicEffect DEF tbVars, pastVars
  <2>6. QED
    BY <1>1, <2>1, <2>2, <2>3, <2>4, <2>5 DEF AppStep
<1>3. \A t \in Callers : Asks(t)' => call'[t] = call[t]
  BY <1>2 DEF Asks, RequestSteps
<1>4. QED
  BY <1>1, <1>2, <1>3, PSame, PForget

(* A request that begins was new: it has no slot and no answer. *)
LEMMA RequestPInv ==
  ASSUME TInv, TInv', PInv, NEW t \in Callers, NEW r \in Requests, Request(t, r)
  PROVE  PInv'
<1>1. /\ UNCHANGED <<table, net, m_request_id, use>>
      /\ phase[r] = "new" /\ call[t].pc = "idle"
      /\ \A q \in Requests \ {r} : phase'[q] = phase[q]
      /\ \A u \in Callers \ {t} : call'[u] = call[u]
      /\ \/ phase'[r] = "refused" /\ UNCHANGED call
         \/ phase'[r] = "asking" /\ call'[t].pc = "subscribe" /\ call'[t].req = r
  BY RequestEffect DEF tbVars, mqttVars, useVars
<1>2. OneCaller => Calling /\ Slots /\ Answering
  BY DEF PInv
<1>3. \A k \in Kinds \ {"provision"} : Less(k)
  BY <1>1 DEF Less
<1>4. OneCaller => \A u \in Callers :
        Asks(u)' /\ Table(u)' # "provision"
        => /\ phase'[call'[u].req] = "asking"
           /\ call'[u] = call[u] \/ call'[u].pc \in {"subscribe", "push"}
  <2>1. SUFFICES ASSUME OneCaller, NEW u \in Callers, Asks(u)', Table(u)' # "provision"
                 PROVE  /\ phase'[call'[u].req] = "asking"
                        /\ call'[u] = call[u] \/ call'[u].pc \in {"subscribe", "push"}
    OBVIOUS
  <2>2. CASE call'[u] = call[u]
    <3>1. Asks(u) /\ Table(u) # "provision" /\ call[u].pc # "idle"
      BY <2>1, <2>2 DEF Asks, Table, RequestSteps
    <3>2. call[u].req \in Requests /\ phase[call[u].req] = "asking"
      BY <1>2, <2>1, <3>1, InCallAt DEF Calling
    <3>3. call[u].req # r
      BY <1>1, <3>2
    <3>4. QED
      BY <1>1, <2>2, <3>2, <3>3
  <2>3. CASE call'[u] # call[u]
    BY <1>1, <2>3
  <2>4. QED
    BY <2>2, <2>3
<1>5. OneCaller => \A k \in Kinds \ {"provision"} : \A i \in DOMAIN table'[k] :
        phase'[table'[k][i].req] # "dropped"
  <2>1. \A k \in Kinds : \A i \in DOMAIN table[k] : table[k][i].req \in Requests
    BY SlotType
  <2>2. QED
    BY <1>1, <1>2, <2>1 DEF Slots
<1>6. OneCaller => \A a \in net' : a.kind # "provision" => phase'[a.req] \in {"sent", "dropped"}
  <2>1. \A a \in net : a.req \in Requests
    BY DEF TInv, TypeOK, Answers
  <2>2. QED
    BY <1>1, <1>2, <2>1 DEF Answering
<1>7. QED
  BY <1>1, <1>3, <1>4, <1>5, <1>6, PKeeps

(* A request that is refused was not sent. *)
LEMMA SubscribePInv ==
  ASSUME TInv, TInv', PInv, NEW t \in Callers, SubscribeAnswer(t)
  PROVE  PInv'
<1> DEFINE r == call[t].req
<1>1. /\ UNCHANGED <<table, net, m_request_id, use>>
      /\ call[t].pc = "subscribe" /\ r \in Requests /\ Table(t) \in Kinds
      /\ \A u \in Callers \ {t} : call'[u] = call[u]
      /\ \A q \in Requests \ {r} : phase'[q] = phase[q]
      /\ \/ call'[t].pc = "push" /\ call'[t].req = r /\ UNCHANGED phase
         \/ call'[t].pc = "idle" /\ phase'[r] = "refused"
  BY SubscribeEffect DEF tbVars
<1>2. OneCaller => Calling /\ Slots /\ Answering
  BY DEF PInv
<1>3. \A k \in Kinds \ {"provision"} : Less(k)
  BY <1>1 DEF Less
<1>4. Asks(t) /\ (Table(t) # "provision" /\ OneCaller => phase[r] = "asking")
  BY <1>1, <1>2 DEF Asks, RequestSteps, Calling
<1>5. OneCaller => \A u \in Callers :
        Asks(u)' /\ Table(u)' # "provision"
        => /\ phase'[call'[u].req] = "asking"
           /\ call'[u] = call[u] \/ call'[u].pc \in {"subscribe", "push"}
  <2>1. SUFFICES ASSUME OneCaller, NEW u \in Callers, Asks(u)', Table(u)' # "provision"
                 PROVE  /\ phase'[call'[u].req] = "asking"
                        /\ call'[u] = call[u] \/ call'[u].pc \in {"subscribe", "push"}
    OBVIOUS
  <2>2. CASE u = t
    BY <1>1, <1>4, <2>1, <2>2 DEF Asks, RequestSteps, Table
  <2>3. CASE u # t
    <3>1. Asks(u)
      BY <1>1, <2>1, <2>3 DEF Asks
    <3>2. QED
      BY <1>4, <2>1, <2>3, <3>1, OneAtATime
  <2>4. QED
    BY <2>2, <2>3
<1>6. OneCaller => \A k \in Kinds \ {"provision"} : \A i \in DOMAIN table'[k] :
        phase'[table'[k][i].req] # "dropped"
  <2>1. \A k \in Kinds : \A i \in DOMAIN table[k] : table[k][i].req \in Requests
    BY SlotType
  <2>2. QED
    BY <1>1, <1>2, <2>1 DEF Slots
<1>7. OneCaller => \A a \in net' : a.kind # "provision" => phase'[a.req] \in {"sent", "dropped"}
  <2>1. SUFFICES ASSUME OneCaller, NEW a \in net, a.kind # "provision"
                 PROVE  phase'[a.req] \in {"sent", "dropped"}
    BY <1>1
  <2>2. a.req \in Requests /\ Kind[a.req] = a.kind /\ phase[a.req] \in {"sent", "dropped"}
    BY <1>2, <2>1 DEF TInv, TypeOK, Answers, OfTheirKind, Answering
  <2>3. a.req # r
    BY <1>4, <2>1, <2>2 DEF Table
  <2>4. QED
    BY <1>1, <2>2, <2>3
<1>8. QED
  BY <1>1, <1>3, <1>5, <1>6, <1>7, PKeeps

(* A new slot has no number yet, and 0 is not the number of an answer. *)
LEMMA PushPInv ==
  ASSUME TInv, TInv', PInv, NEW t \in Callers, PushBack(t)
  PROVE  PInv'
<1> DEFINE r == call[t].req
           k == Table(t)
           n == Len(table[k])
<1>1. /\ UNCHANGED <<net, m_request_id, use>>
      /\ call[t].pc = "push" /\ r \in Requests /\ k \in Kinds
      /\ \A u \in Callers \ {t} : call'[u] = call[u]
      /\ call'[t].req = r
      /\ \A j \in Kinds \ {k} : table'[j] = table[j]
  BY PushEffect DEF mqttVars, useVars
<1>2. Asks(t)
  BY <1>1 DEF Asks, RequestSteps
<1>3. OneCaller => /\ Calling /\ Slots /\ Answering
                   /\ \A u \in Callers \ {t} : ~Asks(u)'
  BY <1>1, <1>2, OneAtATime DEF PInv, Asks
<1>4. CASE k = "provision"
  <2>1. phase' = Forgotten(k)
    BY <1>4, PushEffect
  <2>2. \A q \in Requests : Kind[q] # "provision" => phase'[q] = phase[q]
    <3>1. \A i \in DOMAIN table[k] : Kind[table[k][i].req] = "provision"
      BY <1>1, <1>4, SlotType
    <3>2. QED
      BY <1>1, <2>1, <3>1, ForgetPhase DEF TInv
  <2>3. \A j \in Kinds \ {"provision"} : Less(j)
    BY <1>1, <1>4 DEF Less
  <2>4. OneCaller => \A u \in Callers : Asks(u)' => Table(u)' = "provision"
    BY <1>1, <1>3, <1>4 DEF Table
  <2>5. OneCaller => \A j \in Kinds \ {"provision"} : \A i \in DOMAIN table'[j] :
          phase'[table'[j][i].req] # "dropped"
    <3>1. SUFFICES ASSUME OneCaller, NEW j \in Kinds \ {"provision"}, NEW i \in DOMAIN table[j]
                   PROVE  phase'[table[j][i].req] # "dropped"
      BY <1>1, <1>4
    <3>2. table[j][i].req \in Requests /\ Kind[table[j][i].req] = j
      BY SlotType
    <3>3. QED
      BY <1>3, <2>2, <3>1, <3>2 DEF Slots
  <2>6. OneCaller => \A a \in net' : a.kind # "provision" => phase'[a.req] \in {"sent", "dropped"}
    <3>1. \A a \in net : a.req \in Requests /\ Kind[a.req] = a.kind
      BY DEF TInv, TypeOK, Answers, OfTheirKind
    <3>2. QED
      BY <1>1, <1>3, <2>2, <3>1 DEF Answering
  <2>7. QED
    BY <1>1, <2>3, <2>4, <2>5, <2>6, PKeeps
<1>5. CASE k # "provision"
  <2>1. SUFFICES ASSUME OneCaller PROVE Calling' /\ Slots' /\ Answering'
    BY <1>1, SameUse DEF PInv
  <2>2. /\ call'[t].pc = "back" /\ UNCHANGED phase
        /\ n \in Nat /\ DOMAIN table[k] = 1 .. n /\ DOMAIN table'[k] = 1 .. n + 1
        /\ Len(table'[k]) = n + 1
        /\ \A i \in 1 .. n : table'[k][i] = table[k][i]
        /\ table'[k][n + 1].req = r /\ table'[k][n + 1].id = 0
    <3>1. [req |-> r, id |-> 0].req = r /\ [req |-> r, id |-> 0].id = 0
      OBVIOUS
    <3>2. QED
      BY <1>5, <3>1, PushEffect
  <2>3. phase[r] = "asking"
    BY <1>2, <1>3, <1>5, <2>1 DEF Calling
  <2>4. \A j \in Kinds : \A i \in DOMAIN table'[j] :
          \/ i \in DOMAIN table[j] /\ table'[j][i] = table[j][i]
          \/ j = k /\ table'[j][i].req = r /\ table'[j][i].id = 0
    <3>1. \A i \in 1 .. n + 1 : i \in 1 .. n \/ i = n + 1
      BY <2>2
    <3>2. QED
      BY <1>1, <2>2, <3>1
  <2>5. Calling'
    <3>1. SUFFICES phase'[call'[t].req] = "asking"
      BY <1>3, <2>1, <2>2 DEF Calling
    <3>2. QED
      BY <1>1, <2>2, <2>3
  <2>6. Slots'
    <3>1. 0 <= m_request_id
      BY DEF TInv, TypeOK
    <3>2. QED
      BY <1>1, <1>3, <2>1, <2>2, <2>3, <2>4, <3>1 DEF Slots
  <2>7. Answering'
    <3>1. SUFFICES ASSUME NEW a \in net, a.kind # "provision", NEW i \in DOMAIN table'[a.kind],
                          table'[a.kind][i].id = a.id
                   PROVE  table'[a.kind][i].req = a.req
      BY <1>1, <1>3, <2>1, <2>2 DEF Answering, Matching
    <3>2. a.kind \in Kinds
      BY DEF TInv, TypeOK, Answers
    <3>3. a.id # 0 /\ \A j \in DOMAIN table[a.kind] :
                        table[a.kind][j].id = a.id => table[a.kind][j].req = a.req
      BY <1>3, <2>1, <3>1 DEF Answering, Matching
    <3>4. QED
      BY <2>4, <3>1, <3>2, <3>3
  <2>8. QED
    BY <2>5, <2>6, <2>7
<1>6. QED
  BY <1>4, <1>5

(* The address a caller takes is that of its slot. *)
LEMMA BackPInv ==
  ASSUME TInv, TInv', PInv, BInv, NEW t \in Callers, Back(t)
  PROVE  PInv'
<1> DEFINE k == Table(t)
           n == Len(table[k])
<1>1. /\ UNCHANGED <<table, phase, net, m_request_id, use>>
      /\ call[t].pc = "back" /\ k \in Kinds
      /\ \A u \in Callers \ {t} : call'[u] = call[u]
      /\ call'[t].pc = "number" /\ call'[t].req = call[t].req
      /\ n \in Nat /\ call'[t].slot = n
  BY BackEffect DEF tbVars, mqttVars, useVars
<1>2. Asks(t)
  BY <1>1 DEF Asks, RequestSteps
<1>3. SUFFICES ASSUME OneCaller PROVE Calling' /\ Slots' /\ Answering'
  BY <1>1, SameUse DEF PInv
<1>4. Calling /\ Slots /\ Answering /\ \A u \in Callers \ {t} : ~Asks(u)'
  BY <1>1, <1>2, <1>3, OneAtATime DEF PInv, Asks
<1>5. table[k] \in Seq(Slot) /\ DOMAIN table[k] = 1 .. n
  BY <1>1, LenProperties DEF TInv, TypeOK
<1>6. n \in DOMAIN table[k] => table[k][n].req = call[t].req
  BY <1>1, <1>3, <1>5, EmptySeq DEF BInv, Backs, Newest
<1>7. Calling'
  <2>1. Numbering(t)'
    BY <1>1, <1>6 DEF Numbering, Table
  <2>2. Asks(t)' /\ Table(t)' # "provision" => phase'[call'[t].req] = "asking"
    BY <1>1, <1>2, <1>4 DEF Calling, Table
  <2>3. QED
    BY <1>1, <1>4, <2>1, <2>2 DEF Calling
<1>8. Slots' /\ Answering'
  BY <1>1, <1>4 DEF Slots, Answering, Matching
<1>9. QED
  BY <1>7, <1>8

(* Numbers grow: the one a caller takes is nobody else's. *)
LEMMA NumberPInv ==
  ASSUME TInv, TInv', PInv, NEW t \in Callers, SetRequestId(t)
  PROVE  PInv'
<1> DEFINE r == call[t].req
           k == Table(t)
           m == m_request_id + 1
<1>1. /\ UNCHANGED <<net, use, phase>>
      /\ call[t].pc = "number" /\ r \in Requests /\ k \in Kinds \ {"provision"}
      /\ \A u \in Callers \ {t} : call'[u] = call[u]
      /\ call'[t].pc = "send" /\ call'[t].req = r /\ call'[t].id = m
      /\ m_request_id' = m
      /\ \A j \in Kinds \ {k} : table'[j] = table[j]
      /\ DOMAIN table'[k] = DOMAIN table[k]
      /\ \A i \in DOMAIN table[k] :
           /\ table'[k][i].req = table[k][i].req
           /\ table'[k][i].id = IF i = call[t].slot THEN m ELSE table[k][i].id
  BY NumberEffect DEF mqttVars, useVars, pastVars
<1>2. Asks(t) /\ m_request_id \in Nat /\ m \in Nat
  BY <1>1 DEF Asks, RequestSteps, TInv, TypeOK
<1>3. SUFFICES ASSUME OneCaller PROVE Calling' /\ Slots' /\ Answering'
  BY <1>1, SameUse DEF PInv
<1>4. Calling /\ Slots /\ Answering /\ \A u \in Callers \ {t} : ~Asks(u)'
  BY <1>1, <1>2, <1>3, OneAtATime DEF PInv, Asks
<1>5. phase[r] = "asking" /\ Numbering(t)
  BY <1>1, <1>2, <1>4 DEF Calling
<1>6. \A j \in Kinds : \A i \in DOMAIN table'[j] :
        /\ i \in DOMAIN table[j] /\ table'[j][i].req = table[j][i].req
        /\ table[j][i].id \in Nat
        /\ \/ table'[j][i].id = table[j][i].id
           \/ table'[j][i].id = m /\ j = k /\ i = call[t].slot
  BY <1>1, SlotType
<1>7. Calling'
  <2>1. SUFFICES Sending(t)'
    BY <1>1, <1>4, <1>5 DEF Calling
  <2>2. m \in 1 .. m
    BY <1>2
  <2>3. SUFFICES ASSUME NEW i \in DOMAIN table'[k], table'[k][i].id = m
                 PROVE  table'[k][i].req = r
    BY <1>1, <2>2 DEF Sending, Matching, Table
  <2>4. table[k][i].id <= m_request_id
    BY <1>1, <1>4, <2>3 DEF Slots
  <2>5. i = call[t].slot
    BY <1>1, <1>2, <1>6, <2>3, <2>4
  <2>6. QED
    BY <1>1, <1>5, <2>3, <2>5 DEF Numbering
<1>8. Slots'
  <2>1. SUFFICES ASSUME NEW j \in Kinds \ {"provision"}, NEW i \in DOMAIN table'[j]
                 PROVE  table'[j][i].id <= m /\ phase[table'[j][i].req] # "dropped"
    BY <1>1 DEF Slots
  <2>2. table[j][i].id <= m_request_id /\ phase[table[j][i].req] # "dropped" /\ table[j][i].id \in Nat
    BY <1>4, <1>6, <2>1 DEF Slots
  <2>3. QED
    BY <1>2, <1>6, <2>1, <2>2
<1>9. Answering'
  <2>1. SUFFICES ASSUME NEW a \in net, a.kind # "provision"
                 PROVE  /\ a.id \in 1 .. m
                        /\ \A i \in DOMAIN table'[a.kind] :
                             table'[a.kind][i].id = a.id => table'[a.kind][i].req = a.req
    BY <1>1, <1>4 DEF Answering, Matching
  <2>2. /\ a.kind \in Kinds /\ a.id \in 1 .. m_request_id
        /\ \A i \in DOMAIN table[a.kind] :
             table[a.kind][i].id = a.id => table[a.kind][i].req = a.req
    BY <1>4, <2>1 DEF TInv, TypeOK, Answers, Answering, Matching
  <2>3. a.id \in 1 .. m /\ a.id # m
    BY <1>2, <2>2
  <2>4. QED
    BY <1>6, <2>2, <2>3
<1>10. QED
  BY <1>7, <1>8, <1>9

(* The answer bears the number of its slot, and is the only one. *)
LEMMA SendPInv ==
  ASSUME TInv, TInv', PInv, NEW t \in Callers, SendJson(t)
  PROVE  PInv'
<1> DEFINE r == call[t].req
           k == Table(t)
           answer == [kind |-> k, id |-> call[t].id, req |-> r]
<1>1. /\ UNCHANGED <<table, m_request_id, use>>
      /\ call[t].pc = "send" /\ r \in Requests /\ k \in Kinds
      /\ \A u \in Callers \ {t} : call'[u] = call[u]
      /\ call'[t].pc = "idle"
      /\ \A q \in Requests \ {r} : phase'[q] = phase[q]
      /\ phase'[r] \in {"refused", "sent"}
      /\ \/ UNCHANGED net
         \/ phase'[r] = "sent" /\ net' = net \cup {answer}
  BY SendEffect DEF tbVars, useVars
<1>2. Asks(t) /\ ~Asks(t)'
  BY <1>1 DEF Asks, RequestSteps
<1>3. SUFFICES ASSUME OneCaller PROVE Calling' /\ Slots' /\ Answering'
  BY <1>1, SameUse DEF PInv
<1>4. Calling /\ Slots /\ Answering /\ \A u \in Callers : ~Asks(u)'
  BY <1>1, <1>2, <1>3, OneAtATime DEF PInv, Asks
<1>5. k # "provision" => phase[r] = "asking" /\ Sending(t)
  BY <1>1, <1>2, <1>4 DEF Calling
<1>6. Calling'
  BY <1>4 DEF Calling
<1>7. Slots'
  <2>1. \A j \in Kinds : \A i \in DOMAIN table[j] : table[j][i].req \in Requests
    BY SlotType
  <2>2. QED
    BY <1>1, <1>4, <2>1 DEF Slots
<1>8. Answering'
  <2>1. \A a \in net : a.req \in Requests /\ Kind[a.req] = a.kind /\ a.kind \in Kinds
    BY DEF TInv, TypeOK, Answers, OfTheirKind
  <2>2. \A a \in net : a.kind # "provision" =>
          a.req # r /\ phase[a.req] \in {"sent", "dropped"} /\ phase'[a.req] = phase[a.req]
    <3>1. SUFFICES ASSUME NEW a \in net, a.kind # "provision"
                   PROVE  a.req # r /\ phase[a.req] \in {"sent", "dropped"} /\ phase'[a.req] = phase[a.req]
      OBVIOUS
    <3>2. phase[a.req] \in {"sent", "dropped"}
      BY <1>4, <3>1 DEF Answering
    <3>3. a.req # r
      BY <1>5, <2>1, <3>1, <3>2 DEF Table
    <3>4. QED
      BY <1>1, <2>1, <3>2, <3>3
  <2>3. ASSUME NEW a \in net, a.kind # "provision"
        PROVE  /\ a.id \in 1 .. m_request_id
               /\ phase'[a.req] \in {"sent", "dropped"}
               /\ \A i \in Matching(a.kind, a.id) : table[a.kind][i].req = a.req
               /\ \A b \in net : b.req = a.req => b = a
               /\ a.req # r
    BY <1>4, <2>2, <2>3 DEF Answering
  <2>4. ASSUME k # "provision", phase'[r] = "sent"
        PROVE  /\ call[t].id \in 1 .. m_request_id
               /\ \A i \in Matching(k, call[t].id) : table[k][i].req = r
               /\ \A b \in net : b.req # r
    <3>1. \A b \in net : b.req = r => b.kind = k
      BY <2>1 DEF Table
    <3>2. QED
      BY <1>5, <2>2, <2>4, <3>1 DEF Sending
  <2>5. answer.kind = k /\ answer.id = call[t].id /\ answer.req = r
    OBVIOUS
  <2>6. CASE UNCHANGED net
    BY <1>1, <2>3, <2>6 DEF Answering, Matching
  <2>7. CASE phase'[r] = "sent" /\ net' = net \cup {answer}
    <3> HIDE DEF answer
    <3>1. SUFFICES ASSUME NEW a \in net', a.kind # "provision"
                   PROVE  /\ a.id \in 1 .. m_request_id
                          /\ phase'[a.req] \in {"sent", "dropped"}
                          /\ \A i \in Matching(a.kind, a.id) : table[a.kind][i].req = a.req
                          /\ \A b \in net' : b.req = a.req => b = a
      BY <1>1 DEF Answering, Matching
    <3>2. CASE a \in net
      BY <2>3, <2>5, <2>7, <3>1, <3>2
    <3>3. CASE a = answer
      BY <2>4, <2>5, <2>7, <3>1, <3>3
    <3>4. QED
      BY <2>7, <3>1, <3>2, <3>3
  <2>8. QED
    BY <1>1, <2>6, <2>7
<1>9. QED
  BY <1>6, <1>7, <1>8

(* An answer finds the slot of its request, and that was sent; no other    *)
(* answer to it is left.                                                   *)
LEMMA OwnAnswer ==
  ASSUME TInv, PInv, OneCaller, NEW a \in net, a.kind # "provision",
         NEW i \in Matching(a.kind, a.id)
  PROVE  /\ table[a.kind][i].req = a.req /\ a.req \in Requests /\ Kind[a.req] = a.kind
         /\ phase[a.req] = "sent"
         /\ \A b \in net \ {a} : b.req # a.req
<1>1. a.kind \in Kinds \ {"provision"} /\ a.req \in Requests /\ Kind[a.req] = a.kind
  BY DEF TInv, TypeOK, Answers, OfTheirKind
<1>2. /\ table[a.kind][i].req = a.req /\ phase[a.req] \in {"sent", "dropped"}
      /\ \A b \in net \ {a} : b.req # a.req
  BY DEF PInv, Answering
<1>3. phase[table[a.kind][i].req] # "dropped"
  BY <1>1 DEF PInv, Slots, Matching
<1>4. QED
  BY <1>1, <1>2, <1>3

(* The request whose callback is called was sent, and has no other answer. *)
LEMMA DeliverPInv ==
  ASSUME TInv, TInv', PInv, NEW a \in net, Deliver(a)
  PROVE  PInv'
<1> DEFINE i == handler'.slot
           r == table[a.kind][i].req
<1>1. /\ UNCHANGED <<table, m_request_id, call, use>>
      /\ net' = net \ {a} /\ a.kind \in Kinds
      /\ \/ UNCHANGED phase
         \/ /\ i \in Matching(a.kind, a.id) /\ i \in DOMAIN table[a.kind]
            /\ r \in Requests /\ \A q \in Requests \ {r} : phase'[q] = phase[q]
            /\ phase'[r] = IF r = a.req THEN "answered" ELSE "confused"
  BY DeliverEffect DEF tbVars, useVars, Answers
<1>2. \A k \in Kinds \ {"provision"} : Less(k)
  BY <1>1 DEF Less
(* Only the request that was sent changes its phase. *)
<1>3. ASSUME OneCaller, NEW q \in Requests, Kind[q] # "provision", phase'[q] # phase[q]
      PROVE  phase[q] = "sent" /\ phase'[q] = "answered" /\ \A b \in net' : b.req # q
  <2>1. q = r /\ i \in Matching(a.kind, a.id) /\ i \in DOMAIN table[a.kind]
        /\ phase'[r] = IF r = a.req THEN "answered" ELSE "confused"
    BY <1>1, <1>3
  <2>2. a.kind # "provision"
    BY <1>1, <1>3, <2>1, SlotType
  <2>3. QED
    BY <1>1, <1>3, <2>1, <2>2, OwnAnswer
<1>4. OneCaller => Calling /\ Slots /\ Answering
  BY DEF PInv
<1>5. OneCaller => \A t \in Callers :
        Asks(t)' /\ Table(t)' # "provision" => phase'[call'[t].req] = "asking" /\ call'[t] = call[t]
  <2>1. SUFFICES ASSUME OneCaller, NEW t \in Callers, Asks(t), Table(t) # "provision"
                 PROVE  phase'[call[t].req] = "asking"
    BY <1>1 DEF Asks, Table
  <2>2. call[t].req \in Requests /\ phase[call[t].req] = "asking"
    BY <1>4, <2>1 DEF Calling, TInv, InCall
  <2>3. QED
    BY <1>3, <2>1, <2>2 DEF Table
<1>6. OneCaller => \A k \in Kinds \ {"provision"} : \A l \in DOMAIN table'[k] :
        phase'[table'[k][l].req] # "dropped"
  <2>1. SUFFICES ASSUME OneCaller, NEW k \in Kinds \ {"provision"}, NEW l \in DOMAIN table[k]
                 PROVE  phase'[table[k][l].req] # "dropped"
    BY <1>1
  <2>2. table[k][l].req \in Requests /\ Kind[table[k][l].req] # "provision"
    BY <2>1, SlotType
  <2>3. phase[table[k][l].req] # "dropped"
    BY <1>4, <2>1 DEF Slots
  <2>4. QED
    BY <1>3, <2>1, <2>2, <2>3
<1>7. OneCaller => \A b \in net' : b.kind # "provision" => phase'[b.req] \in {"sent", "dropped"}
  <2>1. SUFFICES ASSUME OneCaller, NEW b \in net', b.kind # "provision"
                 PROVE  phase'[b.req] \in {"sent", "dropped"}
    OBVIOUS
  <2>2. b \in net /\ b.req \in Requests /\ Kind[b.req] # "provision"
    BY <1>1, <2>1 DEF TInv, TypeOK, Answers, OfTheirKind
  <2>3. phase[b.req] \in {"sent", "dropped"}
    BY <1>4, <2>1, <2>2 DEF Answering
  <2>4. QED
    BY <1>3, <2>1, <2>2, <2>3
<1>8. net' \subseteq net
  BY <1>1
<1>9. QED
  BY <1>1, <1>2, <1>5, <1>6, <1>7, <1>8, PKeeps

(* Erasing slots leaves no other slot under the number of an answer. *)
LEMMA HandlerPInv == TInv /\ TInv' /\ ~crashed /\ PInv /\ HandlerStep => PInv'
<1>1. SUFFICES ASSUME TInv, TInv', ~crashed, PInv, HandlerStep PROVE PInv'
  OBVIOUS
<1>2. UNCHANGED <<net, m_request_id, use, call>>
  <2>1. CASE RemoveCallback
    BY <1>1, <2>1, RemoveEffect DEF mqttVars, useVars
  <2>2. CASE TestEmpty
    BY <1>1, <2>2, TestEffect DEF mqttVars, useVars, tbVars
  <2>3. CASE ClearTable
    BY <1>1, <2>3, ClearEffect DEF mqttVars, useVars
  <2>4. CASE LeaveAnswers
    BY <1>1, <2>4, LeaveEffect DEF tbVars
  <2>5. QED
    BY <1>1, <2>1, <2>2, <2>3, <2>4 DEF HandlerStep
<1>3. CASE UNCHANGED <<table, phase>>
  BY <1>1, <1>2, <1>3, PSame
<1>4. CASE RemoveCallback /\ table' # table
  <2> DEFINE k == handler.kind
  <2>1. /\ UNCHANGED phase /\ k \in Kinds /\ handler.slot \in DOMAIN table[k]
        /\ table' = [table EXCEPT ![k] = RemoveAt(@, handler.slot)]
    BY <1>1, <1>4, RemoveEffect DEF HandlerType, pastVars
  <2>2. Shrinks(k)
    BY <1>1, <2>1, RemoveTable DEF TInv
  <2>3. \A j \in Kinds : Less(j)
    BY <2>1, <2>2, ShrinksLess
  <2>4. OneCaller => Calling /\ Slots /\ Answering
    BY <1>1 DEF PInv
  <2>5. OneCaller => \A t \in Callers :
          Asks(t)' /\ Table(t)' # "provision" => phase'[call'[t].req] = "asking" /\ call'[t] = call[t]
    BY <1>2, <2>1, <2>4 DEF Calling, Asks, Table
  <2>6. OneCaller => \A j \in Kinds \ {"provision"} : \A l \in DOMAIN table'[j] :
          phase'[table'[j][l].req] # "dropped"
    BY <2>1, <2>3, <2>4 DEF Slots, Less
  <2>7. OneCaller => \A a \in net' : a.kind # "provision" => phase'[a.req] \in {"sent", "dropped"}
    BY <1>2, <2>1, <2>4 DEF Answering
  <2>8. QED
    BY <1>1, <1>2, <2>3, <2>5, <2>6, <2>7, PKeeps
<1>5. CASE ClearTable
  BY <1>1, <1>2, <1>5, ClearEffect, PForget
<1>6. RemoveCallback \/ TestEmpty \/ LeaveAnswers => UNCHANGED phase
  BY <1>1, RemoveEffect, TestEffect, LeaveEffect DEF pastVars
<1>7. TestEmpty \/ LeaveAnswers => UNCHANGED table
  BY <1>1, TestEffect, LeaveEffect DEF tbVars
<1>8. QED
  BY <1>1, <1>3, <1>4, <1>5, <1>6, <1>7 DEF HandlerStep

(* Every step keeps the promise. *)
LEMMA NextPInv == TInv /\ TInv' /\ PInv /\ BInv /\ [Next]_vars => PInv'
<1>1. SUFFICES ASSUME TInv, TInv', PInv, BInv, [Next]_vars PROVE PInv'
  OBVIOUS
<1>2. CASE UNCHANGED vars
  <2>1. UNCHANGED <<table, phase, net, m_request_id, use, call>>
    BY <1>2 DEF vars, tbVars, mqttVars, useVars, pastVars
  <2>2. QED
    BY <1>1, <2>1, PSame
<1>3. CASE Network \/ Publisher
  BY <1>1, <1>3, NetworkPInv
<1>4. CASE Begin \/ AppStep
  BY <1>1, <1>4, AppPInv
<1>5. CASE \E t \in Callers : \E r \in Requests : Request(t, r)
  BY <1>1, <1>5, RequestPInv
<1>6. CASE \E t \in Callers : RequestStep(t)
  BY <1>1, <1>6, SubscribePInv, PushPInv, BackPInv, NumberPInv, SendPInv DEF RequestStep
<1>7. CASE \E a \in net : Deliver(a)
  BY <1>1, <1>7, DeliverPInv
<1>8. CASE ~crashed /\ HandlerStep
  BY <1>1, <1>8, HandlerPInv
<1>9. CASE Race
  BY <1>1, <1>9, PSame DEF Race, tbVars, mqttVars, useVars
<1>10. QED
  BY <1>1, <1>2, <1>3, <1>4, <1>5, <1>6, <1>7, <1>8, <1>9, NextCases

(* Nobody takes an address and no callback is called yet. *)
LEMMA InitBInv == Init => BInv
  BY IdleType DEF Init, BInv, Backs, Handing, NoHandler

(* The last slot of a table stays the last, or the table is empty. *)
KeepsLast(k) == table'[k] # <<>> =>
                  /\ table[k] # <<>>
                  /\ table'[k][Len(table'[k])].req = table[k][Len(table[k])].req

(* What keeps the last slots, and the callback that is called, keeps who   *)
(* takes an address and what is erased.                                    *)
LEMMA BKeeps ==
  ASSUME BInv, UNCHANGED use,
         OneCaller => \A t \in Callers : call'[t].pc = "back" =>
           call'[t] = call[t] /\ KeepsLast(Table(t)),
         OneCaller => Handing'
  PROVE  BInv'
<1>1. SUFFICES ASSUME OneCaller, NEW t \in Callers, call'[t].pc = "back" PROVE Newest(t)'
  BY SameUse DEF BInv, Backs
<1>2. call'[t] = call[t] /\ KeepsLast(Table(t)) /\ Newest(t)
  BY <1>1 DEF BInv, Backs
<1>3. QED
  BY <1>2 DEF KeepsLast, Newest, Table

(* A callback that is called keeps its slot, or the program is undefined.  *)
LEMMA HandingStays ==
  ASSUME TInv, Handing, UNCHANGED handler, crashed => crashed',
         ~crashed' => \A k \in Kinds \ {"provision"} : \A i \in DOMAIN table[k] :
           handler.pc = "callback" /\ handler.kind = k => table'[k][i].req = table[k][i].req,
         \A r \in Requests : Kind[r] # "provision" /\ phase[r] = "answered" => phase'[r] = "answered"
  PROVE  Handing'
<1>1. SUFFICES ASSUME ~crashed', ~crashed, handler.pc = "callback", handler.kind # "provision"
               PROVE  phase'[table'[handler.kind][handler.slot].req] = "answered"
  BY DEF Handing
<1>2. handler.kind \in Kinds \ {"provision"} /\ handler.slot \in DOMAIN table[handler.kind]
  BY <1>1 DEF TInv, TypeOK, HandlerType, Handled
<1>3. /\ table[handler.kind][handler.slot].req \in Requests
      /\ Kind[table[handler.kind][handler.slot].req] # "provision"
  BY <1>2, SlotType
<1>4. phase[table[handler.kind][handler.slot].req] = "answered"
  BY <1>1 DEF Handing
<1>5. QED
  BY <1>1, <1>2, <1>3, <1>4

(* Steps that neither add slots nor take them away.                        *)
LEMMA BStep ==
  ASSUME TInv, TInv', BInv, UNCHANGED <<handler, use>>, crashed => crashed',
         NEW t \in Callers, \A u \in Callers \ {t} : call'[u] = call[u],
         call'[t].pc # "back" \/ call'[t] = call[t],
         \A k \in Kinds : /\ DOMAIN table'[k] = DOMAIN table[k]
                          /\ \A i \in DOMAIN table[k] : table'[k][i].req = table[k][i].req,
         OneCaller => \A r \in Requests :
           Kind[r] # "provision" /\ phase[r] = "answered" => phase'[r] = "answered"
  PROVE  BInv'
<1>1. \A k \in Kinds : KeepsLast(k)
  <2>1. SUFFICES ASSUME NEW k \in Kinds PROVE KeepsLast(k)
    OBVIOUS
  <2>2. /\ table[k] \in Seq(Slot) /\ Len(table[k]) \in Nat /\ DOMAIN table[k] = 1 .. Len(table[k])
        /\ table'[k] \in Seq(Slot) /\ Len(table'[k]) \in Nat
        /\ DOMAIN table'[k] = 1 .. Len(table'[k])
    BY LenProperties DEF TInv, TypeOK
  <2>3. (table[k] = <<>> <=> Len(table[k]) = 0) /\ (table'[k] = <<>> <=> Len(table'[k]) = 0)
    BY <2>2, EmptySeq
  <2>4. Len(table'[k]) = Len(table[k])
    BY <2>2
  <2>5. QED
    BY <2>2, <2>3, <2>4 DEF KeepsLast
<1>2. OneCaller => Handing'
  BY HandingStays DEF BInv
<1>3. ASSUME NEW u \in Callers, call'[u].pc = "back"
      PROVE  call'[u] = call[u] /\ KeepsLast(Table(u))
  <2>1. call'[u] = call[u] /\ Asks(u) /\ call[u].pc # "idle"
    BY <1>3 DEF Asks, RequestSteps
  <2>2. QED
    BY <1>1, <2>1, InCallAt
<1>4. QED
  BY <1>2, <1>3, BKeeps

(* A cleanup leaves an empty table to who was about to take an address in  *)
(* it, and undefined behaviour to a callback it was called in.             *)
LEMMA AppBInv == TInv /\ TInv' /\ ~crashed /\ BInv /\ (Begin \/ AppStep) => BInv'
<1>1. SUFFICES ASSUME TInv, TInv', ~crashed, BInv, Begin \/ AppStep PROVE BInv'
  OBVIOUS
<1>2. "app" \in Callers
  BY DEF Callers
<1>3. CASE Begin \/ EnterTopic \/ Insert \/ LeaveTopic
  <2>1. /\ UNCHANGED <<table, phase, handler, use>>
        /\ \A t \in Callers \ {"app"} : call'[t] = call[t]
        /\ call'["app"].pc # "back"
    <3>1. CASE Begin
      BY <1>1, <3>1, BeginEffect DEF tbVars, pastVars
    <3>2. CASE EnterTopic
      BY <1>1, <3>2, EnterEffect DEF tbVars
    <3>3. CASE Insert
      BY <1>1, <3>3, InsertEffect DEF useVars, pastVars
    <3>4. CASE LeaveTopic
      BY <1>1, <3>4, LeaveTopicEffect DEF tbVars, pastVars
    <3>5. QED
      BY <1>3, <3>1, <3>2, <3>3, <3>4
  <2>2. QED
    BY <1>1, <1>2, <2>1, BStep
<1>4. CASE ClearTopic
  <2> DEFINE k == Head(call["app"].leave)
  <2>1. /\ UNCHANGED <<handler, use>>
        /\ \A t \in Callers \ {"app"} : call'[t] = call[t]
        /\ call'["app"].pc = "leave"
        /\ \/ UNCHANGED <<table, phase>>
           \/ /\ k \in Kinds /\ Forget(k)
              /\ crashed' = (handler.pc = "callback" /\ handler.kind = k)
              /\ table'[k] = <<>> /\ Shrinks(k)
    BY <1>1, <1>4, ClearTopicEffect DEF useVars
  <2>2. CASE UNCHANGED <<table, phase>>
    BY <1>1, <1>2, <2>1, <2>2, BStep
  <2>3. CASE /\ k \in Kinds /\ Forget(k)
             /\ crashed' = (handler.pc = "callback" /\ handler.kind = k)
             /\ table'[k] = <<>> /\ Shrinks(k)
    <3>1. \A j \in Kinds : KeepsLast(j)
      <4>1. \A j \in Kinds \ {k} : table'[j] = table[j]
        BY <2>3 DEF Shrinks
      <4>2. QED
        BY <2>3, <4>1 DEF KeepsLast
    <3>2. \A r \in Requests : phase[r] = "answered" => phase'[r] = "answered"
      BY <1>1, <2>3, ForgetPhase DEF TInv, Forget
    <3>3. OneCaller => Handing'
      <4>1. ~crashed' => \A j \in Kinds \ {"provision"} : \A i \in DOMAIN table[j] :
              handler.pc = "callback" /\ handler.kind = j => table'[j][i].req = table[j][i].req
        BY <2>3 DEF Shrinks
      <4>2. QED
        BY <1>1, <2>1, <3>2, <4>1, HandingStays DEF BInv
    <3>4. ASSUME NEW u \in Callers, call'[u].pc = "back"
          PROVE  call'[u] = call[u] /\ KeepsLast(Table(u))
      <4>1. call'[u] = call[u] /\ Asks(u) /\ call[u].pc # "idle"
        BY <2>1, <3>4 DEF Asks, RequestSteps
      <4>2. QED
        BY <1>1, <3>1, <4>1, InCallAt
    <3>5. QED
      BY <1>1, <2>1, <3>3, <3>4, BKeeps
  <2>4. QED
    BY <2>1, <2>2, <2>3
<1>5. QED
  BY <1>1, <1>3, <1>4 DEF AppStep

(* A request that goes on was not answered. *)
LEMMA RequestStepBInv ==
  ASSUME TInv, TInv', ~crashed, PInv, BInv, NEW t \in Callers,
         \/ \E r \in Requests : Request(t, r)
         \/ RequestStep(t)
  PROVE  BInv'
<1> DEFINE k == Table(t)
<1>1. ASSUME NEW r \in Requests, Request(t, r)
      PROVE  BInv'
  <2>1. /\ UNCHANGED <<table, handler, use>> /\ phase[r] = "new"
        /\ \A q \in Requests \ {r} : phase'[q] = phase[q]
        /\ \A u \in Callers \ {t} : call'[u] = call[u]
        /\ UNCHANGED call \/ call'[t].pc = "subscribe"
    BY <1>1, RequestEffect DEF tbVars, useVars
  <2>2. QED
    BY <2>1, BStep
<1>2. ASSUME call[t].pc \in {"subscribe", "send"}, call[t].req \in Requests,
             UNCHANGED <<table, handler, use>>,
             \A u \in Callers \ {t} : call'[u] = call[u], call'[t].pc # "back",
             \A q \in Requests \ {call[t].req} : phase'[q] = phase[q]
      PROVE  BInv'
  <2>1. OneCaller /\ k # "provision" => phase[call[t].req] = "asking"
    BY <1>2 DEF PInv, Calling, Asks, RequestSteps
  <2>2. OneCaller => \A r \in Requests :
          Kind[r] # "provision" /\ phase[r] = "answered" => phase'[r] = "answered"
    BY <1>2, <2>1 DEF Table
  <2>3. QED
    BY <1>2, <2>2, BStep
<1>3. CASE SubscribeAnswer(t)
  BY <1>2, <1>3, SubscribeEffect DEF tbVars
<1>4. CASE SendJson(t)
  BY <1>2, <1>4, SendEffect DEF tbVars, useVars
<1>5. CASE Back(t)
  BY <1>5, BackEffect, BStep DEF tbVars, useVars
<1>6. CASE SetRequestId(t)
  <2>1. /\ UNCHANGED <<handler, use, phase>>
        /\ \A u \in Callers \ {t} : call'[u] = call[u]
        /\ call'[t].pc = "send"
        /\ \A j \in Kinds : /\ DOMAIN table'[j] = DOMAIN table[j]
                            /\ \A i \in DOMAIN table[j] : table'[j][i].req = table[j][i].req
    BY <1>6, NumberEffect DEF useVars, pastVars
  <2>2. QED
    BY <2>1, BStep
<1>7. CASE PushBack(t)
  <2>1. /\ UNCHANGED <<handler, use, crashed>>
        /\ call[t].pc = "push" /\ k \in Kinds
        /\ \A u \in Callers \ {t} : call'[u] = call[u]
        /\ call'[t].req = call[t].req
        /\ \A j \in Kinds \ {k} : table'[j] = table[j]
    BY <1>7, PushEffect DEF useVars
  <2>2. Asks(t)
    BY <2>1 DEF Asks, RequestSteps
  <2>3. SUFFICES ASSUME OneCaller PROVE Backs' /\ Handing'
    BY <2>1, SameUse DEF BInv
  <2>4. \A u \in Callers \ {t} : call'[u].pc # "back"
    BY <2>1, <2>2, <2>3, OneAtATime DEF Asks, RequestSteps
  <2>5. CASE k = "provision"
    <3>1. call'[t].pc = "send" /\ phase' = Forgotten("provision")
      BY <1>7, <2>5, PushEffect
    <3>2. \A r \in Requests : phase[r] = "answered" => phase'[r] = "answered"
      BY <2>1, <2>5, <3>1, ForgetPhase DEF TInv
    <3>3. Handing'
      BY <2>1, <2>3, <2>5, <3>2, HandingStays DEF BInv
    <3>4. QED
      BY <2>4, <3>1, <3>3 DEF Backs
  <2>6. CASE k # "provision"
    <3> DEFINE n == Len(table[k])
    <3>1. /\ UNCHANGED phase
          /\ n \in Nat /\ DOMAIN table[k] = 1 .. n /\ Len(table'[k]) = n + 1
          /\ \A i \in 1 .. n : table'[k][i] = table[k][i]
          /\ table'[k][n + 1].req = call[t].req
      <4>1. [req |-> call[t].req, id |-> 0].req = call[t].req
        OBVIOUS
      <4>2. QED
        BY <1>7, <2>6, <4>1, PushEffect
    <3>2. Newest(t)'
      BY <2>1, <3>1 DEF Newest, Table
    <3>3. Handing'
      BY <2>1, <2>3, <3>1, HandingStays DEF BInv
    <3>4. QED
      BY <2>4, <3>2, <3>3 DEF Backs
  <2>7. QED
    BY <2>5, <2>6
<1>8. QED
  BY <1>1, <1>3, <1>4, <1>5, <1>6, <1>7 DEF RequestStep

(* The callback that is called is that of the answer, and no other.        *)
LEMMA DeliverBInv ==
  ASSUME TInv, TInv', PInv, BInv, NEW a \in net, Deliver(a)
  PROVE  BInv'
<1> DEFINE i == handler'.slot
<1>1. UNCHANGED <<table, call, use>> /\ handler.pc = "idle" /\ a.kind \in Kinds
  BY DeliverEffect DEF tbVars, useVars, Answers
<1>2. \A t \in Callers : call'[t].pc = "back" => call'[t] = call[t] /\ KeepsLast(Table(t))
  BY <1>1 DEF KeepsLast
<1>3. OneCaller => Handing'
  <2>1. SUFFICES ASSUME OneCaller, handler'.pc = "callback", handler'.kind # "provision"
                 PROVE  phase'[table'[handler'.kind][i].req] = "answered"
    BY DEF Handing
  <2>2. /\ handler'.kind = a.kind /\ i \in Matching(a.kind, a.id)
        /\ LET r == table[a.kind][i].req
           IN phase'[r] = IF r = a.req THEN "answered" ELSE "confused"
    <3>1. handler'.pc # "idle" /\ handler'.pc \notin {"clear", "test"}
      BY <2>1
    <3>2. QED
      BY <1>1, <3>1, DeliverEffect
  <2>3. table[a.kind][i].req = a.req
    BY <2>1, <2>2, OwnAnswer
  <2>4. QED
    BY <1>1, <2>2, <2>3
<1>4. QED
  BY <1>1, <1>2, <1>3, BKeeps

(* The handler does not erase the slot whose address a caller takes: that  *)
(* one is not answered yet.                                                *)
LEMMA HandlerBInv ==
  ASSUME TInv, TInv', ~crashed, PInv, BInv, HandlerStep
  PROVE  BInv'
<1> DEFINE k == handler.kind
<1>1. UNCHANGED <<call, use>> /\ handler'.pc # "callback"
  <2>1. CASE RemoveCallback
    BY <2>1, RemoveEffect DEF useVars
  <2>2. CASE TestEmpty
    BY <2>2, TestEffect DEF useVars
  <2>3. CASE ClearTable
    BY <2>3, ClearEffect DEF useVars
  <2>4. CASE LeaveAnswers
    BY <2>4, LeaveEffect
  <2>5. QED
    BY <2>1, <2>2, <2>3, <2>4 DEF HandlerStep
<1>2. k \in Kinds
  BY DEF TInv, TypeOK, HandlerType
<1>3. SUFFICES ASSUME OneCaller, NEW t \in Callers, call[t].pc = "back" PROVE KeepsLast(Table(t))
  BY <1>1, BKeeps DEF Handing
<1>4. Asks(t) /\ call[t].pc # "idle"
  BY <1>3 DEF Asks, RequestSteps
<1>5. Table(t) \in Kinds \ {"provision"}
  BY <1>3, <1>4, InCallAt DEF TInv, InCall
<1>6. CASE table'[Table(t)] = table[Table(t)] \/ table'[Table(t)] = <<>>
  BY <1>6 DEF KeepsLast
<1>7. CASE RemoveCallback /\ table' # table
  <2> DEFINE s == table[k]
             n == Len(s)
             i == handler.slot
  <2>1. /\ handler.pc = "callback" /\ k # "provision" /\ i \in DOMAIN s
        /\ table' = [table EXCEPT ![k] = RemoveAt(@, i)]
    BY <1>7, RemoveEffect
  <2>2. s \in Seq(Slot) /\ n \in Nat /\ DOMAIN s = 1 .. n /\ table'[k] = RemoveAt(s, i)
    BY <1>2, <2>1, LenProperties DEF TInv, TypeOK
  <2>3. CASE Table(t) # k
    BY <1>5, <1>6, <2>1, <2>3
  <2>4. CASE Table(t) = k
    <3>1. s # <<>> /\ n > 0
      BY <2>1, <2>2, EmptySeq
    <3>2. phase[s[n].req] = "asking"
      BY <1>3, <1>4, <1>5, <2>4, <3>1 DEF PInv, Calling, BInv, Backs, Newest
    <3>3. phase[s[i].req] = "answered"
      BY <1>3, <2>1 DEF BInv, Handing
    <3>4. i \in 1 .. n - 1
      BY <2>1, <2>2, <3>2, <3>3
    <3>5. /\ Len(table'[k]) = n - 1
          /\ \A j \in 1 .. n - 1 : table'[k][j] = s[IF j < i THEN j ELSE j + 1]
      BY <2>1, <2>2, RemoveAtProperties
    <3>6. table'[k][n - 1] = s[n]
      BY <2>2, <3>4, <3>5
    <3>7. QED
      BY <2>4, <3>1, <3>5, <3>6 DEF KeepsLast
  <2>5. QED
    BY <2>3, <2>4
<1>8. TestEmpty \/ LeaveAnswers => UNCHANGED table
  BY TestEffect, LeaveEffect DEF tbVars
<1>9. ClearTable => table'[Table(t)] = table[Table(t)] \/ table'[Table(t)] = <<>>
  BY <1>2, <1>5, ClearEffect, ForgetTable DEF Shrinks, TInv
<1>10. QED
  BY <1>6, <1>7, <1>8, <1>9 DEF HandlerStep

(* Every step keeps what is erased apart from whose address is taken.      *)
LEMMA NextBInv == TInv /\ TInv' /\ PInv /\ BInv /\ [Next]_vars => BInv'
<1>1. SUFFICES ASSUME TInv, TInv', PInv, BInv, [Next]_vars PROVE BInv'
  OBVIOUS
<1>2. "app" \in Callers
  BY DEF Callers
<1>3. CASE UNCHANGED vars \/ Network \/ Publisher
  <2>1. UNCHANGED <<table, phase, use, call, handler, crashed>>
    BY <1>3 DEF vars, tbVars, useVars, pastVars, Network, Publisher, Attempt, Disconnect,
                AutoReconnect, Connect, Resubscribe
  <2>2. QED
    BY <1>1, <1>2, <2>1, BStep
<1>4. CASE ~crashed /\ (Begin \/ AppStep)
  BY <1>1, <1>4, AppBInv
<1>5. CASE ~crashed /\ \E t \in Callers : \E r \in Requests : Request(t, r)
  BY <1>1, <1>5, RequestStepBInv
<1>6. CASE ~crashed /\ \E t \in Callers : RequestStep(t)
  BY <1>1, <1>6, RequestStepBInv
<1>7. CASE \E a \in net : Deliver(a)
  BY <1>1, <1>7, DeliverBInv
<1>8. CASE ~crashed /\ HandlerStep
  BY <1>1, <1>8, HandlerBInv
<1>9. CASE Race
  <2>1. UNCHANGED <<table, call, use>> /\ crashed' = TRUE
    BY <1>9 DEF Race, tbVars, useVars
  <2>2. QED
    BY <1>1, <2>1, BKeeps DEF KeepsLast, Handing
<1>10. QED
  BY <1>1, <1>3, <1>4, <1>5, <1>6, <1>7, <1>8, <1>9, NextCases
-----------------------------------------------------------------------------
(* The steps of TbRequest, seen from the client: one request goes on, or   *)
(* some of those sent are given up.                                        *)
GoesOn(r, p) ==
  \/ p = "asking"   /\ phase[r] = "new"
  \/ p = "refused"  /\ phase[r] \in {"new", "asking"}
  \/ p = "sent"     /\ phase[r] = "asking"
  \/ p = "answered" /\ phase[r] = "sent"

(* One request that goes on is a step of TbRequest. *)
LEMMA OneGoesOn ==
  ASSUME NEW q \in Requests, \A r \in Requests \ {q} : phase'[r] = phase[r],
         Kind[q] # "provision" => phase'[q] = phase[q] \/ GoesOn(q, phase'[q])
  PROVE  [Promise!Next]_([r \in Tracked |-> phase[r]])
<1> DEFINE pv == [r \in Tracked |-> phase[r]]
<1>1. pv' = [r \in Tracked |-> phase'[r]]
  OBVIOUS
<1>2. \A r \in Tracked : r \in Requests /\ Kind[r] # "provision"
  BY DEF Tracked
<1>3. CASE \A r \in Tracked : phase'[r] = phase[r]
  BY <1>1, <1>3
<1>4. CASE ~ \A r \in Tracked : phase'[r] = phase[r]
  <2>1. q \in Tracked /\ GoesOn(q, phase'[q])
    BY <1>2, <1>4
  <2>2. \A p : phase'[q] = p => pv' = [pv EXCEPT ![q] = p]
    BY <1>1, <1>2, <2>1
  <2>3. pv[q] = phase[q]
    BY <2>1
  <2>4. Promise!Ask(q) \/ Promise!Refuse(q) \/ Promise!Send(q) \/ Promise!Answer(q)
    <3>1. CASE phase'[q] = "asking" /\ phase[q] = "new"
      BY <2>2, <2>3, <3>1 DEF Promise!Ask
    <3>2. CASE phase'[q] = "refused" /\ phase[q] \in {"new", "asking"}
      BY <2>2, <2>3, <3>2 DEF Promise!Refuse
    <3>3. CASE phase'[q] = "sent" /\ phase[q] = "asking"
      BY <2>2, <2>3, <3>3 DEF Promise!Send
    <3>4. CASE phase'[q] = "answered" /\ phase[q] = "sent"
      BY <2>2, <2>3, <3>4 DEF Promise!Answer
    <3>5. QED
      BY <2>1, <3>1, <3>2, <3>3, <3>4 DEF GoesOn
  <2>5. QED
    BY <2>1, <2>4 DEF Promise!Next
<1>5. QED
  BY <1>3, <1>4

(* Clearing a table gives requests up, or is not seen. *)
LEMMA SomeGivenUp ==
  ASSUME TypeOK, NEW k \in Kinds, phase' = Forgotten(k)
  PROVE  [Promise!Next]_([r \in Tracked |-> phase[r]])
<1> DEFINE pv == [r \in Tracked |-> phase[r]]
           S == {r \in Tracked : phase[r] = "sent" /\ \E i \in DOMAIN table[k] : table[k][i].req = r}
<1>1. \A r \in Tracked : phase'[r] = IF r \in S THEN "dropped" ELSE phase[r]
  BY ForgetPhase DEF Tracked
<1>2. pv' = [r \in Tracked |-> IF r \in S THEN "dropped" ELSE pv[r]]
  BY <1>1
<1>3. S \in SUBSET Tracked /\ \A r \in S : pv[r] = "sent"
  OBVIOUS
<1> HIDE DEF S
<1>4. \E T \in SUBSET Tracked :
        /\ \A r \in T : pv[r] = "sent"
        /\ pv' = [r \in Tracked |-> IF r \in T THEN "dropped" ELSE pv[r]]
  BY <1>2, <1>3
<1>5. QED
  BY <1>4 DEF Promise!Next, Promise!GiveUp

(* Steps that leave the phases alone are not seen. *)
LEMMA NothingSeen ==
  ASSUME UNCHANGED phase
  PROVE  [Promise!Next]_([r \in Tracked |-> phase[r]])
  OBVIOUS

(* Every step of the client is one of TbRequest or is not seen. *)
LEMMA StepRefines ==
  ASSUME TInv, PInv, OneCaller, [Next]_vars
  PROVE  [Promise!Next]_([r \in Tracked |-> phase[r]])
<1> DEFINE Seen == [Promise!Next]_([r \in Tracked |-> phase[r]])
<1>0. Calling
  BY DEF PInv
<1>1. SUFFICES Seen
  OBVIOUS
<1> HIDE DEF Seen
<1>2. CASE UNCHANGED vars \/ Network \/ Publisher \/ Begin \/ EnterTopic \/ Insert \/ LeaveTopic
  <2>1. UNCHANGED phase
    BY <1>2, BeginEffect DEF vars, pastVars, Network, Attempt, Disconnect, AutoReconnect,
       Publisher, Connect, Resubscribe, EnterTopic, Insert, LeaveTopic
  <2>2. QED
    BY <2>1, NothingSeen DEF Seen
<1>3. CASE ClearTopic
  <2>1. UNCHANGED phase \/ \E k \in Kinds : Forget(k)
    BY <1>3, ClearTopicEffect
  <2>2. QED
    BY <2>1, NothingSeen, SomeGivenUp DEF Seen, Forget, TInv
<1>4. ASSUME NEW t \in Callers, NEW r \in Requests, Request(t, r)
      PROVE  Seen
  <2>1. /\ phase[r] = "new" /\ \A q \in Requests \ {r} : phase'[q] = phase[q]
        /\ phase'[r] \in {"refused", "asking"}
    BY <1>4, RequestEffect
  <2>2. QED
    BY <2>1, OneGoesOn DEF Seen, GoesOn
<1>5. ASSUME NEW t \in Callers, SubscribeAnswer(t)
      PROVE  Seen
  <2>1. /\ call[t].pc = "subscribe" /\ call[t].req \in Requests
        /\ \A q \in Requests \ {call[t].req} : phase'[q] = phase[q]
        /\ UNCHANGED phase \/ phase'[call[t].req] = "refused"
    BY <1>5, SubscribeEffect
  <2>2. Kind[call[t].req] # "provision" => phase[call[t].req] = "asking"
    BY <1>0, <2>1 DEF Calling, Asks, RequestSteps, Table
  <2>3. QED
    BY <2>1, <2>2, OneGoesOn DEF Seen, GoesOn
<1>6. ASSUME NEW t \in Callers, PushBack(t)
      PROVE  Seen
  <2>1. UNCHANGED phase \/ phase' = Forgotten("provision")
    BY <1>6, PushEffect
  <2>2. "provision" \in Kinds
    BY DEF Kinds
  <2>3. QED
    BY <2>1, <2>2, NothingSeen, SomeGivenUp DEF Seen, TInv
<1>7. ASSUME NEW t \in Callers, SetRequestId(t)
      PROVE  Seen
  BY <1>7, NumberEffect, NothingSeen DEF Seen, pastVars
<1>8. ASSUME NEW t \in Callers, Back(t)
       PROVE  Seen
  BY <1>8, BackEffect, NothingSeen DEF Seen
<1>9. ASSUME NEW t \in Callers, SendJson(t)
      PROVE  Seen
  <2>1. /\ call[t].pc = "send" /\ call[t].req \in Requests
        /\ \A q \in Requests \ {call[t].req} : phase'[q] = phase[q]
        /\ phase'[call[t].req] \in {"refused", "sent"}
    BY <1>9, SendEffect
  <2>2. Kind[call[t].req] # "provision" => phase[call[t].req] = "asking"
    BY <1>0, <2>1 DEF Calling, Asks, RequestSteps, Table
  <2>3. QED
    BY <2>1, <2>2, OneGoesOn DEF Seen, GoesOn
<1>10. ASSUME NEW a \in net, Deliver(a)
      PROVE  Seen
  <2> DEFINE i == handler'.slot
             r == table[a.kind][i].req
  <2>1. CASE UNCHANGED phase
    BY <2>1, NothingSeen DEF Seen
  <2>2. CASE ~UNCHANGED phase
    <3>1. /\ i \in Matching(a.kind, a.id) /\ i \in DOMAIN table[a.kind] /\ a.kind \in Kinds
          /\ r \in Requests /\ \A q \in Requests \ {r} : phase'[q] = phase[q]
          /\ phase'[r] = IF r = a.req THEN "answered" ELSE "confused"
      BY <1>10, <2>2, DeliverEffect DEF Answers
    <3>2. Kind[r] = a.kind
      BY <3>1, SlotType
    <3>3. Kind[r] # "provision" => phase'[r] = "answered" /\ phase[r] = "sent"
      BY <3>1, <3>2, OwnAnswer
    <3>4. QED
      BY <3>1, <3>3, OneGoesOn DEF Seen, GoesOn
  <2>3. QED
    BY <2>1, <2>2
<1>11. CASE ~crashed /\ HandlerStep
  <2>1. RemoveCallback \/ TestEmpty \/ LeaveAnswers => UNCHANGED phase
    BY <1>11, RemoveEffect, TestEffect, LeaveEffect DEF pastVars
  <2>2. ClearTable => \E k \in Kinds : phase' = Forgotten(k)
    BY ClearEffect DEF Forget
  <2>3. QED
    BY <1>11, <2>1, <2>2, NothingSeen, SomeGivenUp DEF HandlerStep, Seen, TInv
<1>12. CASE Network \/ Publisher \/ Begin \/ AppStep \/ (~crashed /\ HandlerStep)
  BY <1>2, <1>3, <1>11, <1>12 DEF AppStep
<1>13. CASE \E t \in Callers : \E r \in Requests : Request(t, r)
  BY <1>4, <1>13
<1>14. CASE \E t \in Callers : RequestStep(t)
  BY <1>5, <1>6, <1>7, <1>9, <1>14, <1>8 DEF RequestStep
<1>15. CASE \E a \in net : Deliver(a)
  BY <1>10, <1>15
<1>16. CASE Race
  BY <1>16, NothingSeen DEF Race, Seen
<1>17. QED
  BY <1>2, <1>12, <1>13, <1>14, <1>15, <1>16, NextCases

(* How the client is used does not change. *)
LEMMA RigidUse ==
  ASSUME TInv, [Next]_vars
  PROVE  UNCHANGED use
<1>1. CASE UNCHANGED vars
  BY <1>1 DEF vars, useVars
<1>2. CASE Network \/ Publisher
  BY <1>2 DEF Network, Publisher, Attempt, Disconnect, AutoReconnect, Connect, Resubscribe, useVars
<1>3. CASE Begin \/ AppStep
  BY <1>3, BeginEffect
     DEF AppStep, EnterTopic, Insert, ClearTopic, LeaveTopic, useVars
<1>4. CASE HandlerStep
  BY <1>4 DEF HandlerStep, RemoveCallback, TestEmpty, ClearTable, LeaveAnswers, useVars
<1>5. CASE \E t \in Callers : \E r \in Requests : Request(t, r)
  BY <1>5 DEF Request, useVars
<1>6. CASE \E t \in Callers : RequestStep(t)
  BY <1>6 DEF RequestStep, SubscribeAnswer, PushBack, Back, SetRequestId, SendJson, useVars
<1>7. CASE \E a \in net : Deliver(a)
  BY <1>7 DEF Deliver, useVars
<1>8. CASE Race
  BY <1>8 DEF Race, useVars
<1>9. QED
  BY <1>1, <1>2, <1>3, <1>4, <1>5, <1>6, <1>7, <1>8, NextCases

(* Unless two tasks can be in a request at once, a request is refused or   *)
(* sent, and once sent its callback is called at most once, with the       *)
(* answer to it and to no other, whatever is lost, and in whatever order   *)
(* push_back, back(), the number and the publication of a call come        *)
(* between the find, the call, the erase and the clear of a handler        *)
(* (ThingsBoard.h:1496-1537, 1571-1593), up to the first access that is    *)
(* undefined: two tasks in one vector, back() of an empty one, or a clear  *)
(* under a callback that is called.                                        *)
THEOREM RequestsImplemented == Spec /\ OneCaller => ImplementsRequests
<1>1. Init => Promise!Init
  BY DEF Init, Promise!Init, Tracked
<1>2. TInv /\ OneCaller /\ [Next]_vars => OneCaller'
  BY RigidUse, SameUse
<1>3. TInv /\ PInv /\ OneCaller /\ [Next]_vars => [Promise!Next]_([r \in Tracked |-> phase[r]])
  BY StepRefines
<1>4. Spec /\ OneCaller => [](TInv /\ PInv /\ OneCaller)
  BY <1>2, InitTInv, NextTInv, InitPInv, NextPInv, InitBInv, NextBInv, PTL DEF Spec
<1>5. Spec /\ OneCaller => [][Promise!Next]_([r \in Tracked |-> phase[r]])
  BY <1>3, <1>4, PTL DEF Spec
<1>6. QED
  BY <1>1, <1>5, PTL DEF Spec, ImplementsRequests, Promise!RequestSpec
=============================================================================
