----------------------------- MODULE RuleTopics ------------------------------
(***************************************************************************)
(* The broker subscriptions of the rules (scripting.c): the list of topics *)
(* the loaded rules read, kept by the engine's task after each load and by *)
(* the client's task at each connection, and tried again where refused.    *)
(* Left out: the period of the tries, the limit of 32 topics.              *)
(***************************************************************************)
EXTENDS MqttSession

VARIABLES
    list,        \* s_subs: per topic of the list "ok" or "open"
    retry,       \* s_subs_retry
    topicsRetry, \* s_topics_retry: the list of the loaded rules was not built
    up,          \* s_mqtt_up
    loaded,      \* the topics the loaded rules read
    copy,        \* the client's task: what its copy of the list has still to try
    engine,      \* the engine's task: where it is, the topics to drop and to try, whether
                 \*   it looks at s_mqtt_up, the topic it is at, whether that was taken
    raced,       \* history: the rules gave a topic up while a connection was made
    excused      \* history: topics on the list an UNSUBSCRIBE sent again took away in
                 \*   this session, or marked late

topicVars == <<sessionVars, list, retry, topicsRetry, up, loaded, copy, engine, raced, excused>>
listVars == <<list, retry>>

Idle == [at |-> "idle", drop |-> {}, try |-> {}, looks |-> TRUE, topic |-> Rules, took |-> FALSE]
None == [t \in {} |-> "open"]

TopicsInit ==
    /\ SessionInit /\ list = None /\ retry = FALSE /\ topicsRetry = FALSE /\ up = FALSE
    /\ loaded = {} /\ copy = {} /\ engine = Idle /\ raced = FALSE /\ excused = {}

-----------------------------------------------------------------------------
\* Records the result of subscribing t, if t is still wanted.
sub_mark_bug(t, ok) ==
    /\ list' = IF t \in DOMAIN list THEN [list EXCEPT ![t] = IF ok THEN "ok" ELSE "open"] ELSE list
    /\ UNCHANGED retry
sub_mark(t, ok) ==
    /\ list' = IF t \in DOMAIN list THEN [list EXCEPT ![t] = IF ok THEN "ok" ELSE "open"] ELSE list
    /\ retry' = (retry \/ ~ok)

\* The client's task, still in the handler of a new connection: the whole list,
\* which before anything is loaded is "rules/#", is copied ...
OnConnected ==
    /\ mqtt.at = "rules" /\ mqtt' = [mqtt EXCEPT !.at = "trying"]
    /\ list' = IF list = None THEN [t \in {Rules} |-> "open"] ELSE list
    /\ copy' = DOMAIN list' /\ retry' = FALSE /\ excused' = {}
    /\ UNCHANGED <<beat, link, broker, client, lock, outbox, connected, owners,
                   full, used, refused, topicsRetry, up, loaded, engine, raced>>

\* ... and subscribed, topic by topic.
OnConnectedTries(t) ==
    /\ mqtt.at = "trying" /\ t = First(copy) /\ copy' = copy \ {t}
    /\ subs_add("rules", t)
    /\ \/ client = "connected" /\ \E took \in BOOLEAN : Write("sub", t, took) /\ sub_mark(t, took)
       \/ client = "connected" /\ Refuse /\ sub_mark(t, FALSE)
       \/ client # "connected" /\ sub_mark(t, FALSE) /\ UNCHANGED <<outbox, broker, used>>
    /\ UNCHANGED <<beat, link, client, lock, mqtt, connected, refused, topicsRetry,
                   up, loaded, engine, raced, excused>>

\* scripting_on_mqtt_state(true), the last of the handler, also when the connection
\* broke meanwhile
Up ==
    /\ mqtt.at = "trying" /\ copy = {} /\ mqtt' = [mqtt EXCEPT !.at = "loop"]
    /\ up' = TRUE /\ lock' = Nobody
    /\ UNCHANGED <<beat, link, broker, client, outbox, connected, owners, full,
                   used, refused, listVars, topicsRetry, loaded, copy, engine, raced, excused>>

\* The connection is given up, with its handler: nothing is subscribed until the next.
AllOpen == list' = [t \in DOMAIN list |-> "open"]
GivenUp ==
    /\ Free /\ client' = "wait" /\ connected' = FALSE /\ lock' = "mqtt"
    /\ mqtt' = [mqtt EXCEPT !.at = "lost"] /\ AllOpen
    /\ UNCHANGED <<link, broker, owners, full, refused,
                   retry, topicsRetry, up, loaded, copy, engine, raced, excused>>
\* The client's task notices that it is lost, ...
Lost ==
    /\ client = "connected" /\ link = "down" /\ GivenUp
    /\ UNCHANGED <<beat, outbox, used>>
\* ... the health task does, by a write that fails, ...
BeatFails ==
    /\ beat /\ client = "connected" /\ link = "down" /\ GivenUp
    /\ beat' = FALSE /\ outbox' = Append(outbox, HealthMessage) /\ UNCHANGED used
\* ... or a new one cannot be made.
ConnectFails ==
    /\ Configured /\ client = "init" /\ GivenUp
    /\ Spend("drops") /\ UNCHANGED <<beat, outbox>>
\* Its handler's second half; inside that of a new connection the latter goes on.
Down ==
    /\ mqtt.at \in {"lost", "broken"} /\ up' = FALSE
    /\ \/ mqtt.at = "lost" /\ mqtt' = [mqtt EXCEPT !.at = "loop"] /\ lock' = Nobody
       \/ mqtt.at = "broken" /\ mqtt' = [mqtt EXCEPT !.at = "firmware"] /\ UNCHANGED lock
    /\ UNCHANGED <<beat, link, broker, client, outbox, connected, owners, full,
                   used, refused, listVars, topicsRetry, loaded, copy, engine, raced, excused>>

-----------------------------------------------------------------------------
\* The engine's task: rules are loaded ...
Load(topics) ==
    /\ engine.at = "idle" /\ Spend("reloads")
    /\ loaded' = topics /\ topicsRetry' = TRUE
    /\ UNCHANGED <<beat, link, broker, client, lock, outbox, mqtt, connected,
                   owners, full, refused, listVars, up, copy, engine, raced, excused>>

\* ... and their topics listed: what stays keeps its state, also when the list is
\* built again because it could not be the first time.
Listed ==
    LET want == {Rules} \union loaded
    IN  /\ list' = [t \in want |-> IF t \in DOMAIN list THEN list[t] ELSE "open"]
        /\ engine' = [engine EXCEPT !.at = "drop", !.drop = DOMAIN list \ want,
                                    !.try = {t \in want : list'[t] = "open"}]
List ==
    /\ engine.at = "idle" /\ topicsRetry
    /\ Listed /\ topicsRetry' = FALSE
    /\ excused' = excused \intersect DOMAIN list'
    /\ UNCHANGED <<sessionVars, retry, up, loaded, copy, raced>>

\* What is no longer read is unsubscribed, unless another owner still reads it.
Drops(t) ==
    /\ engine.at = "drop" /\ t = First(engine.drop)
    /\ subs_remove("rules", t)
    /\ engine' = [engine EXCEPT !.drop = @ \ {t}, !.topic = t,
                     !.at = IF Left("rules", t) = {} /\ client = "connected" THEN "unsub" ELSE "drop"]
    /\ raced' = (raced \/ (t \in FwTopics /\ mqtt.at \notin {"loop", "lost"}))
    /\ UNCHANGED <<beat, link, broker, client, lock, outbox, mqtt, connected, full,
                   used, refused, listVars, topicsRetry, up, loaded, copy, excused>>
\* The client was connected when it was asked; its lock is free now.
Unsubscribe ==
    /\ engine.at = "unsub" /\ lock = Nobody
    /\ engine' = [engine EXCEPT !.at = "drop"]
    /\ (\E took \in BOOLEAN : Write("unsub", engine.topic, took)) \/ Refuse
    /\ UNCHANGED <<beat, link, client, lock, mqtt, connected, owners, full, refused,
                   listVars, topicsRetry, up, loaded, copy, raced, excused>>

Dropped ==
    /\ engine.at = "drop" /\ engine.drop = {} /\ engine' = [engine EXCEPT !.at = "try"]
    /\ UNCHANGED <<sessionVars, listVars, topicsRetry, up, loaded, copy, raced, excused>>

\* What is not in place is left to the retry without a connection ...
Offline(t) ==
    /\ engine.at = "try" /\ t = First(engine.try) /\ engine.looks /\ ~up
    /\ engine' = [engine EXCEPT !.try = @ \ {t}] /\ retry' = TRUE
    /\ UNCHANGED <<sessionVars, list, topicsRetry, up, loaded, copy, raced, excused>>
\* ... and subscribed with one.
Tries(t) ==
    /\ engine.at = "try" /\ t = First(engine.try) /\ (engine.looks => up)
    /\ subs_add("rules", t)
    /\ engine' = [engine EXCEPT !.try = @ \ {t}, !.topic = t, !.took = FALSE,
                     !.at = IF client = "connected" THEN "sub" ELSE "mark"]
    /\ UNCHANGED <<beat, link, broker, client, lock, outbox, mqtt, connected,
                   used, refused, listVars, topicsRetry, up, loaded, copy, raced, excused>>
Subscribe ==
    /\ engine.at = "sub" /\ lock = Nobody
    /\ \/ \E took \in BOOLEAN : /\ Write("sub", engine.topic, took)
                                /\ engine' = [engine EXCEPT !.at = "mark", !.took = took]
       \/ Refuse /\ engine' = [engine EXCEPT !.at = "mark"]
    /\ UNCHANGED <<beat, link, client, lock, mqtt, connected, owners, full, refused,
                   listVars, topicsRetry, up, loaded, copy, raced, excused>>
\* Late: meanwhile another session has begun, and its own try was refused.
MarkedLate ==
    /\ engine.took /\ link = "up" /\ engine.topic \notin broker.subs \union copy
    /\ mqtt.at \in {"trying", "loop"}
Marks ==
    /\ engine.at = "mark" /\ sub_mark(engine.topic, engine.took)
    /\ engine' = [engine EXCEPT !.at = "try"]
    /\ excused' = IF MarkedLate THEN excused \union {engine.topic} ELSE excused
    /\ UNCHANGED <<sessionVars, topicsRetry, up, loaded, copy, raced>>
Done ==
    /\ engine.at = "try" /\ engine.try = {} /\ engine' = Idle
    /\ UNCHANGED <<sessionVars, listVars, topicsRetry, up, loaded, copy, raced, excused>>

\* subs_retry_due(): while connected, every so often.  Bound: not again and again into a
\* connection that is gone, before the client notices.
RetryDue ==
    /\ engine.at = "idle" /\ retry /\ ~topicsRetry /\ up /\ (link = "up" \/ client # "connected")
    /\ retry' = FALSE
    /\ engine' = [Idle EXCEPT !.at = "try", !.looks = FALSE,
                              !.try = {t \in DOMAIN list : list[t] = "open"}]
    /\ UNCHANGED <<sessionVars, list, topicsRetry, up, loaded, copy, raced, excused>>

-----------------------------------------------------------------------------
Alone == UNCHANGED <<listVars, topicsRetry, up, loaded, copy, engine, raced, excused>>

Mqtt ==
    \/ (Connect \/ Clear \/ Health \/ Reconnect) /\ Alone
    \/ \E t \in FwTopics : FwSubscribes(t) /\ Alone
    \/ Breaks /\ AllOpen /\ UNCHANGED <<retry, topicsRetry, up, loaded, copy, engine, raced, excused>>
    \/ OnConnected \/ Up \/ Lost \/ Down
    \/ \E t \in Topics : OnConnectedTries(t)
Beat == ((HealthLooks \/ HealthBeats) /\ Alone) \/ BeatFails
\* An UNSUBSCRIBE sent again finds its topic wanted once more.
Again ==
    LET m == Head(outbox)
    IN  /\ Resend /\ UNCHANGED <<listVars, topicsRetry, up, loaded, copy, engine, raced>>
        /\ excused' = IF m.type = "unsub" /\ m.topic \in DOMAIN list
                      THEN excused \union {m.topic} ELSE excused
Engine ==
    \/ List \/ Unsubscribe \/ Dropped \/ Subscribe \/ Marks \/ Done \/ RetryDue
    \/ \E t \in Topics : Drops(t) \/ Offline(t) \/ Tries(t)

TopicsNext ==
    \/ Mqtt \/ Beat \/ Again \/ Engine \/ ConnectFails
    \/ \E topics \in SUBSET used.scenario.reads : Load(topics)
    \/ (Drop \/ Expire) /\ Alone

TopicTasks ==
    WF_topicVars(Mqtt) /\ WF_topicVars(Beat) /\ WF_topicVars(Again) /\ WF_topicVars(Engine)
TopicsSpec == TopicsInit /\ [][TopicsNext]_topicVars /\ TopicTasks

-----------------------------------------------------------------------------
(* Properties *)

\* A filter the firmware's modules hold stays when the rules stop reading it
\* (the comment above rules_mqtt_subscribe() in main.c), unless they stop while a
\* connection is made, when the table is empty and the modules have not subscribed.
FwHeld ==
    client = "connected" /\ link = "up" /\ mqtt.at \in {"rules", "trying", "loop"}
      => FwTopics \ refused \subseteq broker.subs
FwHeldUnlessRaced == FwHeld \/ raced

\* The list follows the rules, and every topic on it is subscribed in the end, through
\* refusals, connections lost at any point of their making and reloads at any time; but
\* for those an UNSUBSCRIBE sent again took away while they were wanted, or a result
\* recorded for another session hides, as long as they stay on the list.
TopicsSettle ==
    Configured => <>[](/\ DOMAIN list = {Rules} \union loaded
         /\ \A t \in DOMAIN list : t \in broker.subs \union excused)

\* The broker's health message ends up as "online" (app_mqtt.c, publish_health()), also
\* when the one of the new connection was refused, lost or sent again late.
HealthSettles == Configured => <>[](broker.health = "online")

\* The rules end up with "up" (scripting_on_mqtt_state()), though a connection that
\* breaks while it is made tells them so after "down".
UpSettles == Configured => <>[]up

\* A session ends up with the rules' topics and the board's health at the broker, and
\* the rules knowing of it.
SessionSettles == TopicsSettle /\ HealthSettles /\ UpSettles

\* What the first and the last of them leave open: every topic of the rules is
\* subscribed in the end, and the rules are told "up" of a connection only.
EveryTopicSettles == Configured => <>[](DOMAIN list \subseteq broker.subs)
UpMeansConnected == (up /\ mqtt.at = "loop") => client = "connected"
=============================================================================
