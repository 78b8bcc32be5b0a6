-------------------------------- MODULE Inputs --------------------------------
(***************************************************************************)
(* The digital inputs (components/board/di.c): levels are read under       *)
(* s_mux and given to the rule engine in the same step; MQTT hears of them *)
(* after it, from the input task and, on a new session or on input/read,   *)
(* from the MQTT client's task.  A header pad joins and leaves the inputs. *)
(* RuleEvents takes over where the engine is told.  Left out: the invert   *)
(* flag, names, the Matter attribute that is written beside MQTT.          *)
(***************************************************************************)
EXTENDS Integers

CONSTANTS
    Isolated, Header,      \* channels with an optocoupler; channels on pads
    InputScenarios         \* bound: [kinds, max], which events may happen in one
                           \* behaviour and how many of them together

Inputs == Isolated \union Header
InputEvents == {"pin", "session", "read", "pad"}
Tries == 4                 \* notify_ext()
Senders == {"task", "mqtt"}

ASSUME InputsAssumption ==
    /\ Isolated \subseteq Nat /\ Header \subseteq Nat /\ Isolated \intersect Header = {}
    /\ InputScenarios \subseteq [kinds : SUBSET InputEvents, max : Nat]

VARIABLES
    pin,               \* environment: what the pin reads
    armed,             \* s_isr_ready
    aux,               \* s_aux, the pads that are inputs
    state,             \* s_state
    report, gone,      \* s_report, s_gone
    rung,              \* s_task's notification
    engine,            \* the level the rule engine was given last
    online,            \* app_mqtt_is_connected()
    wanted,            \* the client's task is to publish all
    told,              \* what the subscribers got last in this session
    sender,            \* per sender what it still has to tell, tries made, where it is
    gaveUp,            \* history: a sender stopped looking with its message out of date
    missed,            \* history: an edge came before the interrupt was on
    inUsed             \* environment: the scenario and the events so far

inputVars == <<pin, armed, aux, state, report, gone, rung, engine, online, wanted,
               told, sender, gaveUp, missed, inUsed>>

Active == Isolated \union aux
Unknown == {}      \* told[n] is {} or {the level last sent}
Resting == [todo |-> {}, tries |-> 0, at |-> "send"]

InputsInit ==
    /\ \E s \in InputScenarios :
        /\ inUsed = [events |-> 0, scenario |-> s]
        /\ armed = (s.max = 0)     \* where nothing happens, di_init() is over
    /\ pin = [n \in Inputs |-> FALSE] /\ state = pin /\ engine = pin
    /\ aux = {} /\ report = {} /\ gone = {} /\ rung = FALSE
    /\ online = FALSE /\ wanted = FALSE /\ told = [n \in Inputs |-> Unknown]
    /\ sender = [x \in Senders |-> Resting] /\ gaveUp = {} /\ missed = {}

InputEvent(k) ==
    /\ k \in inUsed.scenario.kinds /\ inUsed.events < inUsed.scenario.max
    /\ inUsed' = [inUsed EXCEPT !.events = @ + 1]

HasTold(x) == sender[x].todo = {}
\* The loops of the senders go through the channels in their order.
Current(x) == CHOOSE m \in sender[x].todo : \A o \in sender[x].todo : m.chan <= o.chan

-----------------------------------------------------------------------------
PinMoves_bug(n) ==      \* interrupts off while the task reports
    /\ InputEvent("pin") /\ pin' = [pin EXCEPT ![n] = ~@]
    /\ rung' = (rung \/ (armed /\ n \in Active /\ HasTold("task")))
    /\ missed' = IF armed THEN missed ELSE missed \union {n}
    /\ UNCHANGED <<armed, aux, state, report, gone, engine, online, wanted, told, sender, gaveUp>>
PinMoves(n) ==
    /\ InputEvent("pin") /\ pin' = [pin EXCEPT ![n] = ~@]
    /\ rung' = (rung \/ (armed /\ n \in Active))      \* gpio_isr()
    /\ missed' = IF armed THEN missed ELSE missed \union {n}
    /\ UNCHANGED <<armed, aux, state, report, gone, engine, online, wanted, told, sender, gaveUp>>

\* di_init() turns the interrupts on, some time after it has read the levels.
EnableIsr ==
    /\ ~armed /\ armed' = TRUE
    /\ UNCHANGED <<pin, aux, state, report, gone, rung, engine, online, wanted, told, sender,
                   gaveUp, missed, inUsed>>

Level(n) == IF n \in Active THEN pin[n] ELSE state[n]
Tells(x, S, levels) ==
    sender' = [sender EXCEPT ![x].todo = {[chan |-> n, val |-> levels[n]] : n \in S}]

DiScan_bug ==      \* what a pad held when it left the inputs stays with the rules
    /\ rung /\ HasTold("task")
    /\ LET cur == [n \in Inputs |-> Level(n)]
           send == {n \in Active : cur[n] # state[n] \/ n \in report}
       IN  /\ state' = cur /\ Tells("task", send, cur)
           /\ engine' = [n \in Inputs |-> IF n \in send THEN cur[n] ELSE engine[n]]
    /\ rung' = FALSE /\ report' = {} /\ gone' = {} /\ missed' = {}
    /\ UNCHANGED <<pin, armed, aux, online, wanted, told, gaveUp, inUsed>>
\* The notification is taken, the debounce time passes, all pins are looked at.
DiScan ==
    /\ rung /\ HasTold("task")
    /\ LET cur == [n \in Inputs |-> Level(n)]
           send == {n \in Active : cur[n] # state[n] \/ n \in report}
       IN  /\ state' = cur /\ Tells("task", send, cur)
           /\ engine' = [n \in Inputs |-> IF n \in send THEN cur[n]
                                          ELSE IF n \in gone THEN FALSE ELSE engine[n]]
    /\ rung' = FALSE /\ report' = {} /\ gone' = {} /\ missed' = {}
    /\ UNCHANGED <<pin, armed, aux, online, wanted, told, gaveUp, inUsed>>

\* di_publish_all(): its reading of a pin takes a change away from di_scan().
PublishAll ==
    /\ wanted /\ HasTold("mqtt") /\ wanted' = FALSE
    /\ LET cur == [n \in Inputs |-> Level(n)]
       IN  /\ state' = cur /\ Tells("mqtt", Active, cur)
           /\ engine' = [n \in Inputs |-> IF n \in Active THEN cur[n] ELSE engine[n]]
    /\ missed' = missed \ Active
    /\ UNCHANGED <<pin, armed, aux, report, gone, rung, online, told, gaveUp, inUsed>>

\* notify_ext(): the message goes out ...
SendOut(x) ==
    /\ ~HasTold(x) /\ sender[x].at = "send"
    /\ LET m == Current(x)
       IN  /\ told' = IF online THEN [told EXCEPT ![m.chan] = {m.val}] ELSE told
           /\ gaveUp' = IF m.val = state[m.chan] THEN gaveUp \ {m.chan} ELSE gaveUp
    /\ sender' = [sender EXCEPT ![x].at = "look", ![x].tries = @ + 1]
    /\ UNCHANGED <<pin, armed, aux, state, report, gone, rung, engine, online, wanted, missed, inUsed>>

Told(x) == [todo |-> sender[x].todo \ {Current(x)}, tries |-> 0, at |-> "send"]
LookAgain_bug(x) ==      \* no second look
    /\ ~HasTold(x) /\ sender[x].at = "look"
    /\ sender' = [sender EXCEPT ![x] = Told(x)] /\ gaveUp' = gaveUp
    /\ UNCHANGED <<pin, armed, aux, state, report, gone, rung, engine, online, wanted, told, missed, inUsed>>
\* ... and the level is looked at again: one that has moved on is sent too.
LookAgain(x) ==
    /\ ~HasTold(x) /\ sender[x].at = "look"
    /\ LET m == Current(x)
           n == m.chan
           moved == n \in Active /\ state[n] # m.val
       IN  IF moved /\ sender[x].tries < Tries
           THEN /\ sender' = [sender EXCEPT ![x].todo = (@ \ {m}) \union {[m EXCEPT !.val = state[n]]},
                                            ![x].at = "send"]
                /\ gaveUp' = gaveUp
           ELSE /\ sender' = [sender EXCEPT ![x] = Told(x)]
                /\ gaveUp' = IF moved THEN gaveUp \union {n} ELSE gaveUp
    /\ UNCHANGED <<pin, armed, aux, state, report, gone, rung, engine, online, wanted, told, missed, inUsed>>

-----------------------------------------------------------------------------
\* di_aux_input(), from aux_io_apply()
AuxInput(n) ==
    /\ armed /\ InputEvent("pad") /\ rung' = TRUE
    /\ IF n \in aux
       THEN /\ aux' = aux \ {n} /\ state' = [state EXCEPT ![n] = FALSE]
            /\ gone' = gone \union {n} /\ report' = report \ {n}
       ELSE /\ aux' = aux \union {n} /\ state' = [state EXCEPT ![n] = pin[n]]
            /\ report' = report \union {n} /\ gone' = gone \ {n}
    /\ UNCHANGED <<pin, armed, engine, online, wanted, told, sender, gaveUp, missed>>

Connect ==
    /\ ~online /\ armed /\ HasTold("mqtt") /\ InputEvent("session")
    /\ online' = TRUE /\ wanted' = TRUE /\ told' = [n \in Inputs |-> Unknown]
    /\ UNCHANGED <<pin, armed, aux, state, report, gone, rung, engine, sender, gaveUp, missed>>

Disconnect ==
    /\ online /\ HasTold("mqtt") /\ ~wanted /\ InputEvent("session") /\ online' = FALSE
    /\ UNCHANGED <<pin, armed, aux, state, report, gone, rung, engine, wanted, told, sender, gaveUp, missed>>

Read ==      \* input/read
    /\ online /\ HasTold("mqtt") /\ ~wanted /\ InputEvent("read") /\ wanted' = TRUE
    /\ UNCHANGED <<pin, armed, aux, state, report, gone, rung, engine, online, told, sender, gaveUp, missed>>

InputsNext ==
    \/ \E n \in Inputs : PinMoves(n)
    \/ \E n \in Header : AuxInput(n)
    \/ EnableIsr \/ DiScan \/ PublishAll \/ Connect \/ Disconnect \/ Read
    \/ \E x \in Senders : SendOut(x) \/ LookAgain(x)

InputTasks ==
    /\ WF_inputVars(EnableIsr) /\ WF_inputVars(DiScan) /\ WF_inputVars(PublishAll)
    /\ \A x \in Senders : WF_inputVars(SendOut(x) \/ LookAgain(x))
InputsSpec == InputsInit /\ [][InputsNext]_inputVars /\ InputTasks

-----------------------------------------------------------------------------
(* Properties *)

\* The rule engine has the level di_get() answers, or the task is about to tell it:
\* a pad that left the inputs is false for it, one that joined is reported.
EngineHasState ==
    \A n \in Inputs : engine[n] = state[n] \/ (n \in report \union gone /\ rung)

\* When every sender is done, the last message about an input has its level, unless
\* a sender has looked four times and found a newer level each time (notify_ext()).
Quiet == online /\ ~wanted /\ \A x \in Senders : HasTold(x)
LastMessage ==
    Quiet => \A n \in Active \ (gaveUp \union report) : told[n] = {state[n]}

\* "The last message out is then always followed by a look that found it current"
\* (the comment above deliver_rules()): the same without the exception.
LastMessageAlways == Quiet => \A n \in Active \ report : told[n] = {state[n]}

\* Every input settles on what its pin reads, except for an edge between di_init()'s
\* reading and its turning the interrupt on, which waits for another look.
InputsSettle == <>[](\A n \in Active \ missed : state[n] = pin[n])

\* Everybody who is told of an input is told its level, the rule engine and the
\* subscribers (notify_ext() and deliver_rules()).
ToldTheLevel == EngineHasState /\ LastMessage
=============================================================================
