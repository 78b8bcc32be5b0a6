------------------------------- MODULE Network -------------------------------
(***************************************************************************)
(* How the board follows its two network interfaces (apps/full/main/main.c *)
(* with the station monitor of wifi-bootstrap and the status LED's level). *)
(*                                                                         *)
(* Three tasks: the event loop handles what the IP stack posts, in order;  *)
(* the monitor, a timer, looks whether the station has an address and says *)
(* so once, and again after it has seen the link lost; the MQTT client     *)
(* reports its connection.  "Ready" starts what is not running yet, under  *)
(* a mutex; the loss of the last address stops the web server, without it. *)
(*                                                                         *)
(* The station's lost-address timer (120 s) outlasts the monitor's period  *)
(* (10 s, 30 s) and what waits in the event loop.  Starts succeed.         *)
(* Not here: the setup AP and credentials, the Matter build, what the LED  *)
(* shows at a level.                                                       *)
(*                                                                         *)
(* <Name>_bug is a wrong variant of <Name>: with it in place a property    *)
(* below fails.                                                            *)
(***************************************************************************)
EXTENDS Naturals, Sequences

CONSTANT MaxChanges     \* bound: changes of the links and the broker

ASSUME NetworkAssumption == MaxChanges \in Nat

Tasks == {"event", "monitor"}
Events == {"ethGot", "ethLost", "staGot", "staDisc", "staLost"}

VARIABLES
    link,     \* environment: which interfaces have an address, the station's
              \* lost-address timer, the broker's connection, changes so far
    evq,      \* the event loop's queue
    at,       \* per task: where it is
    gotIp,    \* sta_got_ip
    first,    \* context->first_time
    lost,     \* s_link_lost
    eth,      \* s_eth_connected
    wifi,     \* s_wifi_connected
    mux,      \* who holds s_net_ready_mux
    web,      \* s_server: none, up, or being stopped
    modbus,   \* how often the Modbus TCP tasks have been created
    mqtt,     \* s_client exists
    led       \* s_net_up and s_net_level

vars == <<link, evq, at, gotIp, first, lost, eth, wifi, mux, web, modbus, mqtt, led>>
env == <<link, evq>>
station == <<gotIp, first, lost>>
flags == <<eth, wifi>>
services == <<web, modbus, mqtt>>

Init ==
    /\ link = [eth |-> FALSE, sta |-> FALSE, timer |-> FALSE, broker |-> FALSE, changes |-> 0]
    /\ evq = <<>> /\ at = [t \in Tasks |-> "idle"]
    /\ gotIp = FALSE /\ first = TRUE /\ lost = FALSE
    /\ eth = FALSE /\ wifi = FALSE
    /\ mux = "nobody"
    /\ web = "none" /\ modbus = 0 /\ mqtt = FALSE
    /\ led = [up |-> FALSE, level |-> 0]

-----------------------------------------------------------------------------
(* The links.                                                              *)

Change == link.changes < MaxChanges

EthJoins ==
    /\ Change /\ ~link.eth
    /\ link' = [link EXCEPT !.eth = TRUE, !.changes = @ + 1]
    /\ evq' = Append(evq, "ethGot")
    /\ UNCHANGED <<at, station, flags, mux, services, led>>

EthLeaves ==
    /\ Change /\ link.eth
    /\ link' = [link EXCEPT !.eth = FALSE, !.changes = @ + 1]
    /\ evq' = Append(evq, "ethLost")
    /\ UNCHANGED <<at, station, flags, mux, services, led>>

\* Joining stops the lost-address timer, leaving starts it.
StaJoins ==
    /\ Change /\ ~link.sta
    /\ link' = [link EXCEPT !.sta = TRUE, !.timer = FALSE, !.changes = @ + 1]
    /\ evq' = Append(evq, "staGot")
    /\ UNCHANGED <<at, station, flags, mux, services, led>>

StaLeaves ==
    /\ Change /\ link.sta
    /\ link' = [link EXCEPT !.sta = FALSE, !.timer = TRUE, !.changes = @ + 1]
    /\ evq' = Append(evq, "staDisc")
    /\ UNCHANGED <<at, station, flags, mux, services, led>>

\* After 120 s without an address, what was posted before having been handled
\* and the monitor having looked.
StaAddressLost ==
    /\ link.timer /\ ~gotIp /\ \A k \in 1 .. Len(evq) : evq[k] \in {"ethGot", "ethLost"}
    /\ at["monitor"] = "idle" /\ (lost \/ first)
    /\ link' = [link EXCEPT !.timer = FALSE]
    /\ evq' = Append(evq, "staLost")
    /\ UNCHANGED <<at, station, flags, mux, services, led>>

-----------------------------------------------------------------------------
(* on_network_ready()                                                      *)

Goes(t, from, to) == at[t] = from /\ at' = [at EXCEPT ![t] = to]

MayLock_bug == TRUE                 \* both callers at once
MayLock == mux = "nobody"

Lock(t) ==
    /\ Goes(t, "ready", "ledUp") /\ MayLock
    /\ mux' = t
    /\ UNCHANGED <<env, station, flags, services, led>>

Raised == IF led.level < 1 THEN 1 ELSE led.level

\* led_status_set_network(true)
LedUp(t) ==
    /\ Goes(t, "ledUp", "web")
    /\ led' = [up |-> TRUE, level |-> Raised]
    /\ UNCHANGED <<env, station, flags, mux, services>>

\* web_server_start(): nothing to do while there is a server, even one that is
\* being stopped.
WebLook(t) ==
    /\ Goes(t, "web", IF web = "none" THEN "webStart" ELSE "modbus")
    /\ UNCHANGED <<env, station, flags, mux, services, led>>

WebStart(t) ==
    /\ Goes(t, "webStart", "modbus")
    /\ web' = "up"
    /\ UNCHANGED <<env, station, flags, mux, modbus, mqtt, led>>

\* mb_tcp_server_start(): s_started is set last.
ModbusLook(t) ==
    /\ Goes(t, "modbus", IF modbus = 0 THEN "modbusStart" ELSE "mqtt")
    /\ UNCHANGED <<env, station, flags, mux, services, led>>

ModbusStart(t) ==
    /\ Goes(t, "modbusStart", "mqtt")
    /\ modbus' = modbus + 1
    /\ UNCHANGED <<env, station, flags, mux, web, mqtt, led>>

\* app_mqtt_start(), and the mutex is given back.
MqttStart(t) ==
    /\ Goes(t, "mqtt", IF t = "event" THEN "idle" ELSE "told")
    /\ mqtt' = TRUE /\ mux' = "nobody"
    /\ UNCHANGED <<env, station, flags, web, modbus, led>>

Ready(t) ==
    \/ Lock(t) \/ LedUp(t) \/ WebLook(t) \/ WebStart(t)
    \/ ModbusLook(t) \/ ModbusStart(t) \/ MqttStart(t)

-----------------------------------------------------------------------------
(* The event loop.                                                         *)

Handles(e) == at["event"] = "idle" /\ evq # <<>> /\ Head(evq) = e /\ evq' = Tail(evq)

\* on_eth_ready()
EthReady ==
    /\ Handles("ethGot")
    /\ eth' = TRUE
    /\ at' = [at EXCEPT !["event"] = "ready"]
    /\ UNCHANGED <<link, station, wifi, mux, services, led>>

\* wifi_event_handler()
StaEvent ==
    /\ Handles("staGot") \/ Handles("staDisc")
    /\ gotIp' = (Head(evq) = "staGot")
    /\ UNCHANGED <<link, at, first, lost, flags, mux, services, led>>

\* on_ip_lost(): the flag of the interface, then a look at both.
IpLost ==
    /\ Handles("ethLost") \/ Handles("staLost")
    /\ eth' = IF Head(evq) = "ethLost" THEN FALSE ELSE eth
    /\ wifi' = IF Head(evq) = "staLost" THEN FALSE ELSE wifi
    /\ at' = [at EXCEPT !["event"] = "look"]
    /\ UNCHANGED <<link, station, mux, services, led>>

LookForOther ==
    /\ Goes("event", "look", IF eth \/ wifi THEN "idle" ELSE "ledDown")
    /\ UNCHANGED <<env, station, flags, mux, services, led>>

\* led_status_set_network(false)
LedDown ==
    /\ Goes("event", "ledDown", "stop")
    /\ led' = [up |-> FALSE, level |-> 0]
    /\ UNCHANGED <<env, station, flags, mux, services>>

\* web_server_stop(): httpd_stop() takes its time, then the pointer is cleared.
WebStop ==
    /\ Goes("event", "stop", IF web = "none" THEN "idle" ELSE "stopping")
    /\ web' = IF web = "none" THEN "none" ELSE "stopping"
    /\ UNCHANGED <<env, station, flags, mux, modbus, mqtt, led>>

WebStopped ==
    /\ Goes("event", "stopping", "idle")
    /\ web' = "none"
    /\ UNCHANGED <<env, station, flags, mux, modbus, mqtt, led>>

EventTask ==
    \/ EthReady \/ StaEvent \/ IpLost
    \/ LookForOther \/ LedDown \/ WebStop \/ WebStopped
    \/ Ready("event")

-----------------------------------------------------------------------------
(* The monitor, wifi_config_monitor_callback().                            *)

Tells_bug == first                  \* says it once only
Tells == first \/ lost

\* The address is there and the application does not know: on_wifi_ready().
MonitorTells ==
    /\ at["monitor"] = "idle" /\ gotIp /\ Tells
    /\ at' = [at EXCEPT !["monitor"] = "ready"]
    /\ lost' = FALSE
    /\ wifi' = TRUE
    /\ UNCHANGED <<env, gotIp, first, eth, mux, services, led>>

MonitorTold ==
    /\ Goes("monitor", "told", "idle")
    /\ first' = FALSE
    /\ UNCHANGED <<env, gotIp, lost, flags, mux, services, led>>

\* The address is gone; only noted once it has been there.
MonitorSeesLoss ==
    /\ at["monitor"] = "idle" /\ ~gotIp /\ ~first /\ ~lost
    /\ lost' = TRUE
    /\ UNCHANGED <<env, at, gotIp, first, flags, mux, services, led>>

Monitor == MonitorTells \/ MonitorTold \/ MonitorSeesLoss \/ Ready("monitor")

-----------------------------------------------------------------------------
(* The MQTT client.                                                        *)

\* on_mqtt_connected(), led_status_set_mqtt(true)
MqttConnects ==
    /\ mqtt /\ ~link.broker /\ (link.eth \/ link.sta) /\ Change
    /\ link' = [link EXCEPT !.broker = TRUE, !.changes = @ + 1]
    /\ led' = [led EXCEPT !.level = 2]
    /\ UNCHANGED <<evq, at, station, flags, mux, services>>

WithoutMqtt_bug == 1                \* back to "network", whether or not there is one
WithoutMqtt == IF led.up THEN 1 ELSE 0

\* on_mqtt_disconnected(), led_status_set_mqtt(false): at the latest when the
\* keepalive is not answered.
MqttDisconnects ==
    /\ link.broker
    /\ link' = [link EXCEPT !.broker = FALSE]
    /\ led' = [led EXCEPT !.level = WithoutMqtt]
    /\ UNCHANGED <<evq, at, station, flags, mux, services>>

-----------------------------------------------------------------------------
Next ==
    \/ EthJoins \/ EthLeaves \/ StaJoins \/ StaLeaves \/ StaAddressLost
    \/ EventTask \/ Monitor
    \/ MqttConnects \/ MqttDisconnects

Spec == Init /\ [][Next]_vars

\* The tasks run and timers fire; a connection without a network ends.  Nothing
\* is asked of the links or the broker.
FairSpec ==
    /\ Spec
    /\ WF_vars(EventTask) /\ WF_vars(Monitor)
    /\ WF_vars(StaAddressLost)
    /\ WF_vars(~(link.eth \/ link.sta) /\ MqttDisconnects)

-----------------------------------------------------------------------------
Places == {"idle", "ready", "ledUp", "web", "webStart", "modbus", "modbusStart", "mqtt",
           "told", "look", "ledDown", "stop", "stopping"}

\* Type invariant.
TypeOK ==
    /\ link \in [eth : BOOLEAN, sta : BOOLEAN, timer : BOOLEAN, broker : BOOLEAN, changes : 0 .. MaxChanges]
    /\ evq \in Seq(Events) /\ at \in [Tasks -> Places]
    /\ gotIp \in BOOLEAN /\ first \in BOOLEAN /\ lost \in BOOLEAN
    /\ eth \in BOOLEAN /\ wifi \in BOOLEAN
    /\ mux \in Tasks \union {"nobody"}
    /\ web \in {"none", "up", "stopping"} /\ modbus \in Nat /\ mqtt \in BOOLEAN
    /\ led \in [up : BOOLEAN, level : 0 .. 2]

\* The two callers of on_network_ready() never both find a service not running:
\* the Modbus TCP tasks are created at most once ("two Modbus TCP pollers ran on
\* one set of slots").
OneStart ==
    /\ modbus <= 1
    /\ \A t \in Tasks : at[t] = "modbusStart" => modbus = 0

\* A station that has its address for good is known to the application for good,
\* however often it lost it before (s_link_lost: "the application must be told
\* again").
StationIsKnown == <>[](link.sta) => <>[]wifi

\* With no address left for good the web server is stopped, for the setup AP, and
\* the LED does not go on saying "network" or "broker" ("the LED stayed green with
\* no network at all").
LossIsSeen == <>[](~link.eth /\ ~link.sta) => <>[](web = "none" /\ led.level = 0)

\* Every event handled and both tasks idle, with an address known: the web server
\* runs and the LED says so (on_ip_lost(): "Only stop once no usable interface is
\* left").
Settled == evq = <<>> /\ \A t \in Tasks : at[t] = "idle"
ServedWhileUp == Settled /\ (eth \/ wifi) => web = "up" /\ led.up

\* What the links do is seen in the end, both ways.
LinksAreSeen == StationIsKnown /\ LossIsSeen
=============================================================================
