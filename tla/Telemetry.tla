------------------------------ MODULE Telemetry ------------------------------
(***************************************************************************)
(* What ACT_NETWORK sends to the broker (core/src/ev_network_actor.c): the *)
(* readings the sensors publish, and the commands to transmit; and the     *)
(* adapter's two publish functions (ev_net_adapter.c).                     *)
(*                                                                         *)
(* How the actor's view of the session follows the adapter's is in module  *)
(* NetAdapter: here both change at any time.  The sizes of topics and      *)
(* payloads are constants of the code and fit.                             *)
(***************************************************************************)
EXTENDS Integers

CONSTANTS TickValues,         \* values of a uint32_t: a few of them are enough
          TelemetryInterval,  \* EV_NETWORK_TELEMETRY_MIN_INTERVAL_TICKS
          Enabled,            \* EV_NETWORK_TELEMETRY_ENABLED
          MqttBuilt           \* EV_ESP8266_NET_ENABLE_MQTT

ASSUME TelemetryAssumption ==
    /\ TickValues \in Nat /\ TelemetryInterval \in 1..(TickValues - 1)
    /\ Enabled \in BOOLEAN /\ MqttBuilt \in BOOLEAN

Classes == {"temp", "time", "inputs"}
TickNever == TickValues - 1    \* EV_NETWORK_TELEMETRY_TICK_NEVER

VARIABLES view, session,      \* state of ACT_NETWORK; mqtt_connected of the adapter
          ticks, lastSent,    \* telemetry_tick_counter; last_..._telemetry_tick
          sent, answer,       \* history: what the last step sent and answered
          sinceSent           \* history: ticks since a reading of each class was
                              \* sent, unless it was sent at the tick TickNever
network == <<view, session, ticks, lastSent>>
telemetryVars == <<network, sent, answer, sinceSent>>

TelemetryReset ==
    /\ view = "DISCONNECTED" /\ session = FALSE
    /\ ticks = 0 /\ lastSent = [c \in Classes |-> TickNever]
    /\ sent = "none" /\ answer = "OK" /\ sinceSent = [c \in Classes |-> TelemetryInterval]
TelemetryInit == TelemetryReset

Session(connected) ==
    /\ session' = connected /\ sent' = "none" /\ answer' = "OK"
    /\ UNCHANGED <<view, ticks, lastSent, sinceSent>>

\* The four connection events; the last one wins.
Connection(event) ==
    /\ view' = CASE event = "WIFI_UP"   -> IF view = "DISCONNECTED" THEN "WIFI_UP" ELSE view
                 [] event = "WIFI_DOWN" -> "DISCONNECTED"
                 [] event = "MQTT_UP"   -> "MQTT_CONNECTED"
                 [] event = "MQTT_DOWN" -> "WIFI_UP"
    /\ sent' = "none" /\ answer' = "OK"
    /\ UNCHANGED <<session, ticks, lastSent, sinceSent>>

TelemetryTick ==
    /\ ticks' = (ticks + 1) % TickValues
    /\ sinceSent' = [c \in Classes |->
                        IF sinceSent[c] < TelemetryInterval THEN sinceSent[c] + 1 ELSE sinceSent[c]]
    /\ sent' = "none" /\ answer' = "OK"
    /\ UNCHANGED <<view, session, lastSent>>

\* What the adapter answers; the client (external) may refuse too.
PortAnswers(fits) ==
    IF ~MqttBuilt THEN {"UNSUPPORTED"}
    ELSE IF ~session THEN {"STATE"}
    ELSE IF ~fits THEN {"INVALID_ARG"}
    ELSE {"OK", "STATE"}

\* Fault: a counter that has wrapped is taken as an interval gone by.
Fault_TooSoon(class) == lastSent[class] <= ticks /\ ticks < lastSent[class] + TelemetryInterval

TooSoon(class) ==
    /\ lastSent[class] # TickNever
    /\ (ticks - lastSent[class]) % TickValues < TelemetryInterval

\* Whatever becomes of a reading, the sensor's event was handled.
Reading(class) ==
    /\ answer' = "OK"
    /\ \/ /\ ~Enabled \/ view # "MQTT_CONNECTED" \/ TooSoon(class)
          /\ sent' = "none" /\ UNCHANGED <<lastSent, sinceSent>>
       \/ /\ Enabled /\ view = "MQTT_CONNECTED" /\ ~TooSoon(class)
          /\ \E port \in PortAnswers(TRUE) :
                IF port = "OK"
                THEN /\ sent' = class /\ lastSent' = [lastSent EXCEPT ![class] = ticks]
                     /\ sinceSent' = [sinceSent EXCEPT ![class] =
                                         IF ticks = TickNever THEN TelemetryInterval ELSE 0]
                ELSE sent' = "none" /\ UNCHANGED <<lastSent, sinceSent>>
    /\ UNCHANGED <<view, session, ticks>>

\* EV_NET_TX_CMD: the port's answer is the handler's.
Transmit(fits) ==
    /\ \/ view # "MQTT_CONNECTED" /\ answer' = "OK" /\ sent' = "none"
       \/ /\ view = "MQTT_CONNECTED" /\ answer' \in PortAnswers(fits)
          /\ sent' = IF answer' = "OK" THEN "command" ELSE "none"
    /\ UNCHANGED <<network, sinceSent>>

TelemetryNext ==
    \/ \E connected \in BOOLEAN : Session(connected)
    \/ \E event \in {"WIFI_UP", "WIFI_DOWN", "MQTT_UP", "MQTT_DOWN"} : Connection(event)
    \/ TelemetryTick
    \/ \E class \in Classes : Reading(class)
    \/ \E fits \in BOOLEAN : Transmit(fits)

TelemetrySpec == TelemetryInit /\ [][TelemetryNext]_telemetryVars

-----------------------------------------------------------------------------
(***************************************************************************)
(* Two readings of a class are sent at least the interval apart            *)
(* (docs/specs/mqtt-telemetry-policy.md: "A source class is not published  *)
(* more frequently"), also where the counter wraps - except after one sent *)
(* at the tick whose number means never.                                   *)
(***************************************************************************)
ReadingsPaced == [][sent' \in Classes => sinceSent[sent'] >= TelemetryInterval]_telemetryVars
=============================================================================
