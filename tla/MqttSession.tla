----------------------------- MODULE MqttSession -----------------------------
(***************************************************************************)
(* The MQTT client: esp-mqtt's task, its API lock and its outbox           *)
(* (mqtt_client.c), and app_mqtt.c on top of it: who holds which filter,   *)
(* and the health message the broker keeps.  A session is a TCP connection *)
(* with a clean session: what is on its way when it ends no longer matters *)
(* at the broker, so the broker reads at once, and what differs is whether *)
(* the client sees the acknowledgement in time.  A write that fails is one *)
(* into a connection that has gone, whether it is refused or times out.    *)
(* Left out: published values, which are QoS 0, keep-alive, and QoS 2.     *)
(***************************************************************************)
EXTENDS Integers, SequencesExt, FiniteSets

CONSTANTS
    FwTopics,        \* the filters the firmware's modules subscribe to
    ReadTopics,      \* topics the rules may read, perhaps one of FwTopics
    Rules,           \* "rules/#"
    SessionScenarios \* bound: [subs, drops, refusals, reloads, late, reads]

Topics == FwTopics \union ReadTopics \union {Rules}
Nobody == "nobody"

ASSUME SessionAssumption ==
    /\ IsFiniteSet(Topics) /\ Rules \notin FwTopics \union ReadTopics
    /\ \A s \in SessionScenarios : s.subs \in Nat

VARIABLES
    link,        \* external: the TCP connection, "up" or "down"
    broker,      \* external: [subs, health] at the broker
    client,      \* client->state: "init", "connected" or "wait"
    lock,        \* client->api_lock: "mqtt" while a handler runs, or Nobody
    outbox,      \* client->outbox: what was sent and is not acknowledged
    mqtt,        \* [at, todo]: where the application's handler is, whichever task runs
                 \*   it, and what it has still to subscribe
    connected,   \* s_connected
    beat,        \* health_task() has found s_connected set and is about to publish
    owners,      \* s_subs: per filter who holds it
    full,        \* s_subs_full
    used,        \* environment: the scenario and what it has used
    refused      \* history: filters of the firmware refused in this session

sessionVars == <<link, broker, client, lock, outbox, mqtt,
                 connected, beat, owners, full, used, refused>>

SessionInit ==
    /\ link = "down"
    /\ broker = [subs |-> {}, health |-> "offline"]
    /\ client = "init" /\ lock = Nobody /\ outbox = <<>>
    /\ mqtt = [at |-> "loop", todo |-> {}] /\ connected = FALSE /\ beat = FALSE
    /\ owners = [t \in Topics |-> {}] /\ full = FALSE /\ refused = {}
    /\ \E s \in SessionScenarios :
         used = [scenario |-> s, drops |-> 0, refusals |-> 0, reloads |-> 0, late |-> 0]

\* Topics are taken in the order of their list, whatever it is.
First(topics) == IF topics = {} THEN Nobody ELSE CHOOSE t \in topics : TRUE

Spend(k) == used[k] < used.scenario[k] /\ used' = [used EXCEPT ![k] = @ + 1]

-----------------------------------------------------------------------------
\* The table of who holds which filter (app_mqtt.c)

Full == Cardinality({t \in Topics : owners[t] # {}}) >= used.scenario.subs

subs_add(owner, t) ==
    IF owners[t] = {} /\ Full THEN full' = TRUE /\ UNCHANGED owners
    ELSE owners' = [owners EXCEPT ![t] = @ \union {owner}] /\ UNCHANGED full

\* Who still holds t once owner is off: with an incomplete table somebody may.
Left_bug(owner, t) == owners[t] \ {owner}
Left(owner, t) ==
    IF owners[t] = {} /\ full THEN {"unknown"} ELSE owners[t] \ {owner}
subs_remove(owner, t) == owners' = [owners EXCEPT ![t] = @ \ {owner}]

-----------------------------------------------------------------------------
\* The library's calls, made with the API lock held

After(b, m) ==
    CASE m.type = "sub"   -> [b EXCEPT !.subs = @ \union {m.topic}]
      [] m.type = "unsub" -> [b EXCEPT !.subs = @ \ {m.topic}]
      [] OTHER            -> [b EXCEPT !.health = "online"]

\* Into the outbox and onto the connection; the broker reads it and acknowledges it, so
\* that it leaves the outbox, or too late.  A connection that is gone takes it or not.
Write(type, t, took) ==
    LET m == [type |-> type, topic |-> t]
    IN  IF link = "up"
        THEN /\ took /\ broker' = After(broker, m)
             /\ \/ UNCHANGED <<outbox, used>>
                \/ Spend("late") /\ outbox' = Append(outbox, m)
        ELSE outbox' = Append(outbox, m) /\ UNCHANGED <<broker, used>>
\* No memory for it
Refuse == Spend("refusals") /\ UNCHANGED <<outbox, broker>>

-----------------------------------------------------------------------------
\* The client's task: a connection is made and the application told of it ...

\* app_mqtt_start(): without an address of a broker there is no client.
Configured == used.scenario.subs > 0

\* CONNACK: a clean session at the broker
Connect_bug ==
    /\ Configured /\ client = "init" /\ lock = Nobody /\ mqtt.at = "loop"
    /\ client' = "connected" /\ lock' = "mqtt" /\ link' = "up"
    /\ broker' = [broker EXCEPT !.subs = {}]
    /\ mqtt' = [mqtt EXCEPT !.at = "clear"]         \* s_connected not set yet
    /\ UNCHANGED <<beat, outbox, connected, owners, full, used, refused>>
Connect ==
    /\ Configured /\ client = "init" /\ lock = Nobody /\ mqtt.at = "loop"
    /\ client' = "connected" /\ lock' = "mqtt" /\ link' = "up"
    /\ broker' = [broker EXCEPT !.subs = {}]
    /\ mqtt' = [mqtt EXCEPT !.at = "clear"] /\ connected' = TRUE
    /\ UNCHANGED <<beat, outbox, owners, full, used, refused>>

\* A new session holds no filters.
Clear ==
    /\ mqtt.at = "clear" /\ mqtt' = [mqtt EXCEPT !.at = "health"]
    /\ owners' = [t \in Topics |-> {}] /\ full' = FALSE /\ refused' = {}
    /\ UNCHANGED <<beat, link, broker, client, lock, outbox, connected, used>>

\* publish_health(): the message the broker keeps.  Without a connection it waits in
\* the outbox, without memory there is none.
HealthMessage == [type |-> "health", topic |-> Rules]
Publishes ==
    \/ client = "connected" /\ Write("health", Rules, TRUE)
    \/ client # "connected" /\ outbox' = Append(outbox, HealthMessage) /\ UNCHANGED <<broker, used>>
    \/ Refuse

Health ==
    /\ mqtt.at = "health"
    /\ mqtt' = [at |-> "firmware", todo |-> FwTopics]
    /\ IF connected THEN Publishes ELSE UNCHANGED <<outbox, broker, used>>
    /\ UNCHANGED <<beat, link, client, lock, connected, owners, full, refused>>

\* A write of the handler's that fails, of the health message or of a state: the
\* connection is given up and the handler of that runs inside this one, which then
\* goes on where it was.
Breaks ==
    /\ mqtt.at \in {"health", "firmware"} /\ client = "connected" /\ link = "down"
    /\ client' = "wait" /\ connected' = FALSE
    /\ IF mqtt.at = "health"
       THEN /\ connected /\ outbox' = Append(outbox, HealthMessage)
            /\ mqtt' = [at |-> "broken", todo |-> FwTopics]
       ELSE mqtt' = [mqtt EXCEPT !.at = "broken"] /\ UNCHANGED outbox
    /\ UNCHANGED <<beat, link, broker, lock, owners, full, used, refused>>

\* di, dout, aux, led and buzzer subscribe; none looks at the result.  Without a
\* connection there is only the entry in the table.
FwSubscribes(t) ==
    /\ mqtt.at = "firmware" /\ t = First(mqtt.todo)
    /\ mqtt' = [at |-> IF mqtt.todo = {t} THEN "rules" ELSE "firmware", todo |-> mqtt.todo \ {t}]
    /\ subs_add("fw", t)
    /\ \/ /\ client = "connected" /\ \E took \in BOOLEAN : Write("sub", t, took)
          /\ UNCHANGED refused
       \/ client = "connected" /\ Refuse /\ refused' = refused \union {t}
       \/ client # "connected" /\ UNCHANGED <<outbox, broker, used, refused>>
    /\ UNCHANGED <<beat, link, client, lock, connected>>

HealthLooks_bug == FALSE                 \* the timer is never started
\* health_task(), rung every 60 s (by then the message before has left the outbox): it
\* looks at s_connected, ...  Bound: not while the broker has "online" already.
HealthLooks ==
    /\ ~beat /\ connected /\ broker.health = "offline"
    /\ \A i \in DOMAIN outbox : outbox[i].type # "health"
    /\ beat' = TRUE
    /\ UNCHANGED <<link, broker, client, lock, outbox, mqtt, connected, owners, full, used, refused>>
\* ... and publishes, whatever has become of the connection.
Free == lock = Nobody /\ mqtt.at = "loop"
HealthBeats ==
    /\ beat /\ Free /\ beat' = FALSE
    /\ Publishes
    /\ UNCHANGED <<link, client, lock, mqtt, connected, owners, full, refused>>

\* ... it sends again what has waited a second for its acknowledgement, ...
Resend ==
    /\ client = "connected" /\ lock = Nobody /\ mqtt.at = "loop" /\ link = "up" /\ outbox # <<>>
    /\ broker' = After(broker, Head(outbox)) /\ outbox' = Tail(outbox)
    /\ UNCHANGED <<beat, link, client, lock, mqtt, connected, owners, full, used, refused>>

\* ... drops what has waited for half a minute, ...
Expire ==
    /\ Free /\ outbox # <<>>
    /\ outbox' = <<>>
    /\ UNCHANGED <<beat, link, broker, client, lock, mqtt, connected, owners, full, used, refused>>

\* ... and waits before the next connection.
Reconnect ==
    /\ client = "wait" /\ lock = Nobody /\ mqtt.at = "loop" /\ client' = "init"
    /\ UNCHANGED <<beat, link, broker, lock, outbox, mqtt, connected, owners, full, used, refused>>

-----------------------------------------------------------------------------
\* The network (external)

\* The connection goes: the broker publishes the will.
Drop ==
    /\ link = "up" /\ Spend("drops") /\ link' = "down"
    /\ broker' = [subs |-> {}, health |-> "offline"]
    /\ UNCHANGED <<beat, client, lock, outbox, mqtt, connected, owners, full, refused>>
=============================================================================
