----------------------------- MODULE NetAdapter -----------------------------
(***************************************************************************)
(* The network path: the WiFi station and the MQTT client of the SDK       *)
(* (external), the two tasks that run the adapter's callbacks, the         *)
(* adapter's state, ring and payload slots                                 *)
(* (adapters/esp8266_rtos_sdk/components/ev_platform/ev_net_adapter.c),    *)
(* the application's drain of the ring (app/ev_demo_app.c) and the         *)
(* connection state ACT_NETWORK keeps (core/src/ev_network_actor.c).       *)
(*                                                                         *)
(* A callback works in short critical sections: one notes the change and   *)
(* decides what is to be done, one more pushes each event.  What is still  *)
(* to be done is the task's list, and the other tasks run in between.      *)
(*                                                                         *)
(* Nothing in src/ starts the MQTT client, so the MQTT callbacks are what  *)
(* the handler does for the board code that will; Mqtt = FALSE is the      *)
(* default build.  stop_fn has no caller and is not modelled.              *)
(***************************************************************************)
EXTENDS Integers, FiniteSets, SequencesExt

CONSTANTS RingCap,     \* EV_NET_INGRESS_RING_CAPACITY
          SlotCount,   \* EV_NET_PAYLOAD_SLOT_COUNT
          MailCap,     \* cells of the mailboxes of ACT_NETWORK and ACT_COMMAND
          Interval,    \* EV_ESP8266_NET_RECONNECT_MIN_INTERVAL_MS, in ticks
          SettleTime,  \* external: least ticks from a connect to a disconnect
          Outages,     \* bound: whether the access point is ever out of reach
          Mqtt,        \* EV_ESP8266_NET_ENABLE_MQTT, a broker and a running client
          MaxGen       \* bound: values of a slot's generation

Slots == 1..SlotCount
NoSlot == 0

ASSUME NetAdapterAssumption ==
    /\ RingCap \in Nat \ {0} /\ SlotCount \in Nat /\ MailCap \in Nat \ {0}
    /\ Interval \in Nat /\ SettleTime \in Nat
    /\ Outages \in BOOLEAN /\ Mqtt \in BOOLEAN /\ MaxGen \in Nat \ {0}

StateKinds == {"WIFI_UP", "WIFI_DOWN", "MQTT_UP", "MQTT_DOWN"}

\* ev_net_ingress_event_t.  gen is not in the code: the generation of the slot
\* when the event took its reference.
Event == [kind : StateKinds \cup {"RX", "RX_LEASE"}, slot : Slots \cup {NoSlot},
          gen : 0..MaxGen]
Plain(kind) == [kind |-> kind, slot |-> NoSlot, gen |-> 0]
NoEvent == Plain("NONE")

\* The static routes of the events: config/routes.def.
Route(kind) == IF kind \in StateKinds THEN <<"network">> ELSE <<"network", "command">>
Receivers == {"network", "command"}

VARIABLES ap,            \* external: whether the access point is in reach
          station,       \* external: the SDK's station
          sysq,          \* external: system events not yet handed to the callback
          session,       \* external: whether the client has a broker session
          age,           \* ticks since esp_wifi_connect() was last called
          since,         \* ticks since last_reconnect_attempt_us
          wifiConnected, mqttConnected,
          wifiTask,      \* what the WiFi callback has yet to do
          mqttTask,      \* what the MQTT callback has yet to push
          ring, dropped, \* the ring; whether it ever refused an event
          pool,          \* the payload slots and payload_slots_in_use
          app,           \* the application's frame while it publishes an event
          box,           \* the two mailboxes
          run,           \* the message a handler works on, or NoEvent
          view           \* state of ACT_NETWORK
external == <<ap, station, sysq, session, age>>
adapter == <<since, wifiConnected, mqttConnected, wifiTask, mqttTask, ring, dropped, pool>>
application == <<app, box, run, view>>
netVars == <<external, adapter, application>>

FreeSlot == [inUse |-> FALSE, refs |-> 0, gen |-> 0]
FreshPool == [slot |-> [s \in Slots |-> FreeSlot], used |-> 0]
IdleApp == [pc |-> "idle", ev |-> NoEvent, next |-> 1, ok |-> TRUE]

\* After a successful net_start_fn(): the station is joining.  No reconnect
\* was attempted yet, which is the same as one long ago.
NetInit ==
    /\ ap \in {TRUE, ~Outages} /\ station = "joining" /\ sysq = <<>> /\ session = FALSE
    /\ age = 0 /\ since = Interval
    /\ wifiConnected = FALSE /\ mqttConnected = FALSE
    /\ wifiTask = <<>> /\ mqttTask = <<>>
    /\ ring = <<>> /\ dropped = FALSE /\ pool = FreshPool
    /\ app = IdleApp /\ box = [a \in Receivers |-> <<>>]
    /\ run = NoEvent /\ view = "DISCONNECTED"

-----------------------------------------------------------------------------
(* The world: radio, time, and the SDK's own state. *)

AccessPoint == Outages /\ ap' = ~ap /\ UNCHANGED <<station, sysq, session, age, since>>

\* Only differences up to the bounds they are compared with matter.
TimePasses ==
    /\ since < Interval \/ age < SettleTime
    /\ since' = IF since < Interval THEN since + 1 ELSE since
    /\ age' = IF age < SettleTime THEN age + 1 ELSE age
    /\ UNCHANGED <<ap, station, sysq, session>>

Joins ==
    /\ station = "joining" /\ ap
    /\ station' = "up" /\ sysq' = Append(sysq, "GOT_IP")
    /\ UNCHANGED <<ap, session, age, since>>

\* The address is renewed: the SDK reports it again.
Renews ==
    /\ station = "up" /\ sysq = <<>>
    /\ sysq' = <<"GOT_IP">>
    /\ UNCHANGED <<ap, station, session, age, since>>

\* A join that fails and a link that is lost end in the same event.  The
\* station stays idle until it is told to connect.
Loses ==
    /\ station \in {"joining", "up"} /\ ~ap /\ age >= SettleTime
    /\ station' = "idle" /\ sysq' = Append(sysq, "DISCONNECTED")
    /\ UNCHANGED <<ap, session, age, since>>

Environment ==
    /\ AccessPoint \/ TimePasses \/ Joins \/ Renews \/ Loses
    /\ UNCHANGED <<wifiConnected, mqttConnected, wifiTask, mqttTask, ring, dropped, pool>>
    /\ UNCHANGED application

-----------------------------------------------------------------------------
(* The payload slots, each operation one critical section. *)

FreeSlots(p) == {s \in Slots : ~p.slot[s].inUse}
FirstFree(p) == CHOOSE s \in FreeSlots(p) : \A t \in FreeSlots(p) : s <= t

Acquired(p, s) ==
    [slot |-> [p.slot EXCEPT ![s] = [inUse |-> TRUE, refs |-> 1,
                                     gen |-> (p.slot[s].gen % MaxGen) + 1]],
     used |-> p.used + 1]

\* Fault: the queued copy takes no reference.
Fault_NotRetained(p, s) == p

\* Nothing changes for an event without a slot, nor for a slot not in use.
Retained(p, s) ==
    IF s = NoSlot THEN p
    ELSE IF p.slot[s].refs = 0 THEN p
    ELSE [p EXCEPT !.slot[s].refs = @ + 1]

Released(p, s) ==
    IF s = NoSlot THEN p
    ELSE IF p.slot[s].refs = 0 THEN p
    ELSE IF p.slot[s].refs > 1 THEN [p EXCEPT !.slot[s].refs = @ - 1]
    ELSE [slot |-> [p.slot EXCEPT ![s].refs = 0, ![s].inUse = FALSE],
          used |-> p.used - 1]

-----------------------------------------------------------------------------
(* ev_esp8266_wifi_event_handler(), in the SDK's event task. *)

SystemEvent(e) == wifiTask = <<>> /\ sysq # <<>> /\ Head(sysq) = e /\ sysq' = Tail(sysq)

NoteWifiUp ==
    /\ SystemEvent("GOT_IP")
    /\ wifiConnected' = TRUE
    /\ wifiTask' = IF wifiConnected THEN <<>> ELSE <<"WIFI_UP">>
    /\ UNCHANGED <<ap, station, session, age, since, mqttConnected, mqttTask, ring, dropped, pool>>
    /\ UNCHANGED application

\* Fault: the interval must have passed by more than its length.
Fault_ReconnectLate == since > Interval

ReconnectDue == since >= Interval

NoteWifiDown ==
    /\ SystemEvent("DISCONNECTED")
    /\ wifiConnected' = FALSE /\ mqttConnected' = FALSE
    /\ since' = IF ReconnectDue THEN 0 ELSE since
    /\ wifiTask' = (IF mqttConnected THEN <<"MQTT_DOWN">> ELSE <<>>)
                   \o (IF wifiConnected THEN <<"WIFI_DOWN">> ELSE <<>>)
                   \o (IF ReconnectDue THEN <<"CONNECT">> ELSE <<>>)
    /\ UNCHANGED <<ap, station, session, age, mqttTask, ring, dropped, pool>>
    /\ UNCHANGED application

\* ev_esp8266_net_push_event(): a full ring refuses the newest event.
RingAccepts == Len(ring) < RingCap

\* Fault: the newest event overwrites the oldest in its place.
Fault_PushEvent(e) ==
    /\ ring' = IF RingAccepts THEN Append(ring, e) ELSE [ring EXCEPT ![1] = e]
    /\ dropped' = (dropped \/ ~RingAccepts)

PushEvent(e) ==
    /\ ring' = IF RingAccepts THEN Append(ring, e) ELSE ring
    /\ dropped' = (dropped \/ ~RingAccepts)

WifiPushes ==
    /\ wifiTask # <<>> /\ Head(wifiTask) # "CONNECT"
    /\ PushEvent(Plain(Head(wifiTask)))
    /\ wifiTask' = Tail(wifiTask)
    /\ UNCHANGED <<since, wifiConnected, mqttConnected, mqttTask, pool>>
    /\ UNCHANGED external /\ UNCHANGED application

\* The result of esp_wifi_connect() is ignored.
WifiReconnects ==
    /\ wifiTask # <<>> /\ Head(wifiTask) = "CONNECT"
    /\ station' = (IF station = "idle" THEN "joining" ELSE station)
    /\ age' = 0
    /\ wifiTask' = Tail(wifiTask)
    /\ UNCHANGED <<ap, sysq, session, since, wifiConnected, mqttConnected, mqttTask>>
    /\ UNCHANGED <<ring, dropped, pool>> /\ UNCHANGED application

WifiTask == NoteWifiUp \/ NoteWifiDown \/ WifiPushes \/ WifiReconnects

-----------------------------------------------------------------------------
(* ev_esp8266_mqtt_event_handler(), in the client's task. *)

MqttCalled == Mqtt /\ mqttTask = <<>>

NoteMqttUp ==
    /\ MqttCalled /\ ~session /\ station = "up"
    /\ session' = TRUE
    /\ mqttConnected' = TRUE
    /\ mqttTask' = IF mqttConnected THEN <<>> ELSE <<Plain("MQTT_UP")>>
    /\ UNCHANGED <<ap, station, sysq, age, since, wifiConnected, wifiTask, ring, dropped, pool>>
    /\ UNCHANGED application

NoteMqttDown ==
    /\ MqttCalled /\ session
    /\ session' = FALSE
    /\ mqttConnected' = FALSE
    /\ mqttTask' = IF mqttConnected THEN <<Plain("MQTT_DOWN")>> ELSE <<>>
    /\ UNCHANGED <<ap, station, sysq, age, since, wifiConnected, wifiTask, ring, dropped, pool>>
    /\ UNCHANGED application

\* A message that fits an inline payload.
MqttInline ==
    /\ MqttCalled /\ session
    /\ mqttTask' = <<Plain("RX")>>
    /\ UNCHANGED <<since, wifiConnected, mqttConnected, wifiTask, ring, dropped, pool>>
    /\ UNCHANGED external /\ UNCHANGED application

\* A larger one takes a slot; without a free slot, or beyond the size of a
\* slot, it is counted and forgotten.
MqttStored ==
    /\ MqttCalled /\ session
    /\ FreeSlots(pool) # {}
    /\ LET s == FirstFree(pool)
       IN  /\ pool' = Acquired(pool, s)
           /\ mqttTask' = <<[kind |-> "RX_LEASE", slot |-> s, gen |-> pool'.slot[s].gen]>>
    /\ UNCHANGED <<since, wifiConnected, mqttConnected, wifiTask, ring, dropped>>
    /\ UNCHANGED external /\ UNCHANGED application

\* Fault: the slot of an event the ring refuses is not given back.
Fault_MqttPushes ==
    /\ mqttTask # <<>>
    /\ PushEvent(Head(mqttTask))
    /\ mqttTask' = Tail(mqttTask)
    /\ UNCHANGED <<since, wifiConnected, mqttConnected, wifiTask, pool>>
    /\ UNCHANGED external /\ UNCHANGED application

MqttPushes ==
    /\ mqttTask # <<>>
    /\ PushEvent(Head(mqttTask))
    /\ pool' = IF RingAccepts THEN pool ELSE Released(pool, Head(mqttTask).slot)
    /\ mqttTask' = Tail(mqttTask)
    /\ UNCHANGED <<since, wifiConnected, mqttConnected, wifiTask>>
    /\ UNCHANGED external /\ UNCHANGED application

MqttTask == NoteMqttUp \/ NoteMqttDown \/ MqttInline \/ MqttStored \/ MqttPushes

-----------------------------------------------------------------------------
(* The application task. *)

Idle == app.pc = "idle" /\ run = NoEvent

\* poll_ingress(), and the envelope built from the event it handed out.
PollIngress ==
    /\ Idle /\ ring # <<>>
    /\ ring' = Tail(ring)
    /\ app' = [IdleApp EXCEPT !.pc = "publish", !.ev = Head(ring)]
    /\ UNCHANGED <<since, wifiConnected, mqttConnected, wifiTask, mqttTask, dropped, pool>>
    /\ UNCHANGED external /\ UNCHANGED <<box, run, view>>

Target == Route(app.ev.kind)[app.next]
FanOutOpen == app.pc = "publish" /\ app.next <= Len(Route(app.ev.kind))

Deliver ==
    /\ FanOutOpen
    /\ Len(box[Target]) < MailCap
    /\ box' = [box EXCEPT ![Target] = Append(@, app.ev)]
    /\ pool' = Retained(pool, app.ev.slot)
    /\ app' = [app EXCEPT !.next = @ + 1]
    /\ UNCHANGED <<since, wifiConnected, mqttConnected, wifiTask, mqttTask, ring, dropped>>
    /\ UNCHANGED external /\ UNCHANGED <<run, view>>

\* The publication fails at the first full mailbox.
DeliverFull ==
    /\ FanOutOpen
    /\ Len(box[Target]) >= MailCap
    /\ app' = [app EXCEPT !.pc = "dispose", !.ok = FALSE]
    /\ UNCHANGED adapter /\ UNCHANGED external /\ UNCHANGED <<box, run, view>>

FanOutDone ==
    /\ app.pc = "publish" /\ ~FanOutOpen
    /\ app' = [app EXCEPT !.pc = "dispose"]
    /\ UNCHANGED adapter /\ UNCHANGED external /\ UNCHANGED <<box, run, view>>

\* The envelope is disposed whatever the publication answered; an error ends
\* the poll and, in ev_esp8266_runtime_app_run(), restarts the chip.
DisposeEvent ==
    /\ app.pc = "dispose"
    /\ pool' = Released(pool, app.ev.slot)
    /\ app' = IF app.ok THEN IdleApp ELSE [IdleApp EXCEPT !.pc = "failed"]
    /\ UNCHANGED <<since, wifiConnected, mqttConnected, wifiTask, mqttTask, ring, dropped>>
    /\ UNCHANGED external /\ UNCHANGED <<box, run, view>>

Restart ==
    /\ app.pc = "failed"
    /\ station' = "joining" /\ sysq' = <<>> /\ session' = FALSE
    /\ age' = 0 /\ since' = Interval
    /\ wifiConnected' = FALSE /\ mqttConnected' = FALSE
    /\ wifiTask' = <<>> /\ mqttTask' = <<>>
    /\ ring' = <<>> /\ dropped' = FALSE /\ pool' = FreshPool
    /\ app' = IdleApp /\ box' = [a \in Receivers |-> <<>>]
    /\ run' = NoEvent /\ view' = "DISCONNECTED"
    /\ UNCHANGED ap

\* The handlers of ev_network_actor.c for the ingress events.
Reaction(v, kind) ==
    CASE kind = "WIFI_UP"   -> IF v = "DISCONNECTED" THEN "WIFI_UP" ELSE v
      [] kind = "WIFI_DOWN" -> "DISCONNECTED"
      [] kind = "MQTT_UP"   -> "MQTT_CONNECTED"
      [] kind = "MQTT_DOWN" -> "WIFI_UP"
      [] OTHER              -> v

\* The pump hands the oldest message to the actor.
Handle(a) ==
    /\ Idle /\ box[a] # <<>>
    /\ run' = Head(box[a])
    /\ box' = [box EXCEPT ![a] = Tail(@)]
    /\ view' = IF a = "network" THEN Reaction(view, run'.kind) ELSE view
    /\ UNCHANGED app /\ UNCHANGED adapter /\ UNCHANGED external

HandlerDone ==
    /\ run # NoEvent
    /\ pool' = Released(pool, run.slot)
    /\ run' = NoEvent
    /\ UNCHANGED <<since, wifiConnected, mqttConnected, wifiTask, mqttTask, ring, dropped>>
    /\ UNCHANGED external /\ UNCHANGED <<app, box, view>>

Publishing == Deliver \/ DeliverFull \/ FanOutDone \/ DisposeEvent

NetNext ==
    \/ Environment \/ WifiTask \/ MqttTask
    \/ PollIngress \/ Publishing \/ Restart
    \/ \E a \in Receivers : Handle(a)
    \/ HandlerDone

NetSpec == NetInit /\ [][NetNext]_netVars

(* The tasks are scheduled, every poll of the application drains the ring    *)
(* and the mailboxes, and the SDK reports what becomes of a join.            *)
NetFairness ==
    /\ WF_netVars(WifiTask) /\ WF_netVars(MqttPushes)
    /\ SF_netVars(PollIngress) /\ WF_netVars(Publishing) /\ WF_netVars(HandlerDone)
    /\ \A a \in Receivers : SF_netVars(Handle(a))
    /\ WF_netVars(TimePasses /\ Environment)
    /\ WF_netVars(Joins /\ Environment) /\ WF_netVars(Loses /\ Environment)

NetFairSpec == NetSpec /\ NetFairness

-----------------------------------------------------------------------------
Slot == [inUse : BOOLEAN, refs : Nat, gen : 0..MaxGen]
Pool == [slot : [Slots -> Slot], used : 0..SlotCount]
Frame == [pc : {"idle", "publish", "dispose", "failed"}, ev : Event \cup {NoEvent},
          next : 1..3, ok : BOOLEAN]

NetTypeOK ==
    /\ ap \in BOOLEAN /\ session \in BOOLEAN
    /\ station \in {"idle", "joining", "up"}
    /\ sysq \in Seq({"GOT_IP", "DISCONNECTED"})
    /\ age \in 0..SettleTime /\ since \in 0..Interval
    /\ wifiConnected \in BOOLEAN /\ mqttConnected \in BOOLEAN
    /\ wifiTask \in Seq(StateKinds \cup {"CONNECT"})
    /\ mqttTask \in Seq(Event)
    /\ ring \in Seq(Event) /\ Len(ring) <= RingCap /\ dropped \in BOOLEAN
    /\ pool \in Pool
    /\ app \in Frame
    /\ box \in [Receivers -> Seq(Event)] /\ \A a \in Receivers : Len(box[a]) <= MailCap
    /\ run \in Event \cup {NoEvent}
    /\ view \in {"DISCONNECTED", "WIFI_UP", "MQTT_CONNECTED"}

\* The references to a slot, wherever they wait.
ReferencesIn(q, s) == Cardinality({i \in DOMAIN q : q[i].slot = s})
Refers(e, s) == IF e.slot = s THEN 1 ELSE 0
SharesOf(s) ==
    ReferencesIn(mqttTask, s) + ReferencesIn(ring, s) + Refers(app.ev, s) + Refers(run, s)
        + ReferencesIn(box["network"], s) + ReferencesIn(box["command"], s)

(***************************************************************************)
(* A payload slot is in use exactly while events, envelopes or queued      *)
(* copies refer to it, once per reference, and the diagnostics count of    *)
(* slots in use is the true one: nothing the callback task and the         *)
(* application do to a slot in between each other leaks it or frees it     *)
(* under a reader, also when the ring or a mailbox refuses the event.      *)
(***************************************************************************)
SlotsExact ==
    /\ \A s \in Slots :
          /\ pool.slot[s].refs = SharesOf(s)
          /\ pool.slot[s].inUse <=> SharesOf(s) > 0
    /\ pool.used = Cardinality({s \in Slots : pool.slot[s].inUse})

(***************************************************************************)
(* No event or message refers to a slot that holds a later payload.        *)
(***************************************************************************)
NeverRecycled ==
    \A e \in Range(mqttTask) \cup Range(ring) \cup {app.ev, run}
               \cup Range(box["network"]) \cup Range(box["command"]) :
        e.slot # NoSlot => pool.slot[e.slot].inUse /\ pool.slot[e.slot].gen = e.gen

\* Default build: the changes of the link between the adapter and ACT_NETWORK,
\* the oldest first, as one channel.
Kinds(q) == [i \in DOMAIN q |-> q[i].kind]
Believed == IF view = "DISCONNECTED" THEN "WIFI_DOWN" ELSE "WIFI_UP"
Noted == IF wifiConnected THEN "WIFI_UP" ELSE "WIFI_DOWN"
Publishes == IF app.pc = "publish" /\ app.next = 1 THEN <<app.ev.kind>> ELSE <<>>
ToBePushed == IF wifiTask # <<>> /\ Head(wifiTask) # "CONNECT" THEN <<Head(wifiTask)>> ELSE <<>>
Flight == Kinds(box["network"]) \o Publishes \o Kinds(ring) \o ToBePushed
Lost == dropped \/ ~app.ok \/ app.pc = "failed"

\* Neither the ring nor the mailbox is full before this.
LinkRoom == IF RingCap < MailCap THEN RingCap ELSE MailCap

Link == INSTANCE LinkChannel
            WITH Room <- LinkRoom,
                 noted <- Noted, flight <- Flight, believed <- Believed, lost <- Lost

(***************************************************************************)
(* Default build: callback, ring, fan-out and mailbox together are a       *)
(* channel that keeps the order.  Whatever happens in between, and also    *)
(* after a full ring or a full mailbox refused a change, ACT_NETWORK hears *)
(* of changes in the order in which they were noted, of each at most once, *)
(* and of none that was not noted.  No change is lost while the ring and   *)
(* the mailbox could each hold all that are on their way; the mailbox is   *)
(* the network events' own here, the other traffic is left out.            *)
(***************************************************************************)
HeardInOrder == Link!Spec

(***************************************************************************)
(* Default build, until an event is lost to a full ring or mailbox: the    *)
(* link states from what the actor believes, through the changes on their  *)
(* way to it, to what the adapter noted alternate.  The actor is behind    *)
(* the adapter but never on another track.  HeardInOrder implies this.     *)
(***************************************************************************)
ViewOnTrack == Link!InStep

\* Nothing was lost to a full ring, and no full mailbox ended the poll.
Undisturbed == [](~dropped /\ app.pc # "failed")

(***************************************************************************)
(* Once the access point stays in reach, ACT_NETWORK comes to see the      *)
(* link up and keeps seeing it, whatever was reported while the access     *)
(* point came and went: the rate limit on reconnects delays the recovery   *)
(* but does not lose it.                                                   *)
(***************************************************************************)
Recovers == Undisturbed /\ <>[]ap => <>[](view = "WIFI_UP")
=============================================================================
