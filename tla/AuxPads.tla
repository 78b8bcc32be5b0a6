------------------------------- MODULE AuxPads -------------------------------
(***************************************************************************)
(* The header pads (components/board/aux_io.c): each pad is in one mode,   *)
(* standard, input, PWM, analog or output, and is changed by a saved       *)
(* configuration (aux_io_apply()), by the PWM and output calls of Modbus,  *)
(* MQTT, Matter and the rules, and read and reported by the pad task.      *)
(*                                                                         *)
(* What is under s_mux and only calls the GPIO driver is one step.  The    *)
(* PWM write over several pads and the apply go pad by pad with s_mux      *)
(* held, since a driver call may fail between two pads.  A PWM setting is  *)
(* a frequency and a duty cycle; the channel holds a setting or is Low.    *)
(* Left out: resolution and tick arithmetic, payload parsing, the UART the *)
(* standard function belongs to.                                           *)
(***************************************************************************)
EXTENDS Integers, FiniteSets, SequencesExt

CONSTANTS
    N,            \* AUX_PAD_COUNT; pad 1 is IO1, the only one with an ADC
    Freqs, Duties,
    Bits,         \* [Freqs -> resolution], ledc_find_suitable_duty_resolution()
    Configs,      \* per pad, the configurations that are saved
    PwmWrites,    \* per pad a frequency and a duty cycle, each may be Keep
    Writers,      \* the tasks that call aux_io_pwm_write()
    Http,         \* the web server's task, which applies a configuration
    Volts, Step,  \* analog readings and AUX_ANALOG_STEP_MV
    Keep, Low, None, Nobody,
    Scenarios,    \* bound: [start, kinds, max], the configuration at boot, which events
                  \* may happen in one behaviour and how many of them together
    MaxFails      \* bound: failing driver calls

Pads == 1 .. N
Events == {"save", "call", "request", "session", "volt", "refuse"}
Modes == {"standard", "input", "pwm", "analog", "output"}
Settings == [freq : Freqs, duty : Duties]
PadConfig == [mode : Modes, set : Settings, inv : BOOLEAN]

ASSUME AuxPadsAssumption ==
    /\ N \in Nat \ {0} /\ Volts \subseteq Nat /\ Volts # {} /\ Step \in Nat \ {0}
    /\ Configs \subseteq [Pads -> PadConfig] /\ Configs # {}
    /\ PwmWrites \subseteq [Pads -> [freq : Freqs \union {Keep}, duty : Duties \union {Keep}]]
    /\ Keep \notin Freqs \union Duties /\ Low \notin Settings /\ None \notin Settings
    /\ None \notin Volts /\ Http \notin Writers /\ Nobody \notin Writers \union {Http}
    /\ Scenarios \subseteq [start : Configs, kinds : SUBSET Events, max : Nat] /\ MaxFails \in Nat

VARIABLES
    config,     \* the live configuration
    mode, set,  \* s_mode; s_freq and s_duty
    out, inv,   \* s_out, s_out_inv
    applied,    \* s_cfg_freq and s_cfg_duty
    chan,       \* hardware: what a pad's LEDC channel puts out
    level,      \* hardware: the level of an output pin
    mux,        \* who holds s_mux over several steps
    op,         \* what the holder is doing
    dirty, notified,   \* s_dirty, the pad task's notification
    volt,       \* environment: the voltage at IO1
    mv,         \* s_an_mv, None when not s_an_valid
    padTask,    \* the pad task: where it is, pads to publish, snapshot, reading
    sampleDue,  \* the next sample's time has come
    rulesMv, mqttMv,   \* s_an_rules_mv and s_an_mqtt_mv, None when not ..._has
    engineMv,   \* environment: the reading the rule engine has
    connected, told, toldMv,  \* environment: session, what subscribers last got
    used,       \* environment: counts for the bounds
    broken      \* history: pads for which a second driver call failed as well

padVars == <<config, mode, set, out, inv, applied, chan, level, broken>>
muxVars == <<mux, op>>
taskVars == <<padTask, sampleDue, rulesMv, mqttMv>>
outside == <<volt, engineMv, connected, told, toldMv>>
auxVars == <<padVars, muxVars, dirty, notified, mv, taskVars, outside, used>>

-----------------------------------------------------------------------------
First(S) == CHOOSE a \in S : \A b \in S : a <= b
NoOp == [kind |-> "none"]
NoSnap == [mode |-> "standard", pwm |-> None, out |-> "none"]

AuxInit ==
    /\ \E s \in Scenarios :
        /\ used = [events |-> 0, fails |-> 0, scenario |-> s]
        /\ config = s.start
    /\ mode = [a \in Pads |-> "standard"] /\ set = [a \in Pads |-> None]
    /\ out = [a \in Pads |-> FALSE] /\ inv = [a \in Pads |-> FALSE]
    /\ applied = [a \in Pads |-> None]
    /\ chan = [a \in Pads |-> Low] /\ level = [a \in Pads |-> FALSE]
    /\ mux = Http /\ op = [kind |-> "apply", next |-> 1]    \* aux_io_init()
    /\ dirty = {} /\ notified = FALSE
    /\ volt = First(Volts) /\ mv = None
    /\ padTask = [at |-> "wait", todo |-> {}, snap |-> NoSnap, mv |-> None]
    /\ sampleDue = FALSE /\ rulesMv = None /\ mqttMv = None /\ engineMv = None
    /\ connected = FALSE /\ told = [a \in Pads |-> NoSnap] /\ toldMv = None
    /\ broken = {}

\* One of the bounded number of things that happen.
MayHappen(k) == k \in used.scenario.kinds /\ used.events < used.scenario.max
Event(k) == MayHappen(k) /\ used' = [used EXCEPT !.events = @ + 1]

\* mark_dirty()
Marked(D) == dirty' = dirty \union D /\ notified' = (notified \/ D # {})

-----------------------------------------------------------------------------
(* pwm_set(): the outcomes of one call, by which driver call fails.        *)

NewTimer(a, s, fresh) == fresh \/ s.freq # set[a].freq
Held(a, s) == Bits[s.freq] # Bits[set[a].freq]     \* channel stopped meanwhile

Restored_bug(a, s) == IF Held(a, s) THEN Low ELSE chan[a]
\* After a timer that could not be set: back to what was running.
Restored(a, s) == set[a]

PwmSet(a, s, fresh) ==
    {[ok |-> TRUE, set |-> s, chan |-> s, fails |-> 0]}
    \union (IF ~NewTimer(a, s, fresh) THEN {}
            ELSE IF fresh
            THEN {[ok |-> FALSE, set |-> set[a], chan |-> Low, fails |-> 1]}
            ELSE {[ok |-> FALSE, set |-> set[a], chan |-> Restored(a, s), fails |-> 1],
                  [ok |-> FALSE, set |-> set[a], fails |-> 2,
                   chan |-> IF Held(a, s) THEN Low ELSE chan[a]]})

MayFail(k) == used.fails + k <= MaxFails

\* The part of a call that pwm_set() does for pad a.
TakePwm(a, r) ==
    /\ MayFail(r.fails)
    /\ set' = [set EXCEPT ![a] = r.set] /\ chan' = [chan EXCEPT ![a] = r.chan]

-----------------------------------------------------------------------------
(* The single calls: one step, as they hold s_mux from end to end.         *)

Calling == mux = Nobody /\ MayHappen("call")

\* aux_io_out_set_many() over the pads of A: all of them outputs, or nothing is
\* switched.
OutSet(A, on) ==
    /\ mux = Nobody /\ A # {} /\ \A a \in A : mode[a] = "output"
    /\ LET moved == {a \in A : out[a] # (a \in on)}
       IN /\ out' = [a \in Pads |-> IF a \in moved THEN a \in on ELSE out[a]]
          /\ level' = [a \in Pads |-> IF a \in moved THEN (a \in on) # inv[a] ELSE level[a]]
          /\ Marked(moved)
    /\ UNCHANGED <<config, mode, set, inv, applied, chan, broken, muxVars, mv, taskVars,
                   outside>>

Wanted(w, a) == [freq |-> IF w[a].freq = Keep THEN set[a].freq ELSE w[a].freq,
                 duty |-> IF w[a].duty = Keep THEN set[a].duty ELSE w[a].duty]
Touched(w) == {a \in Pads : w[a].freq # Keep \/ w[a].duty # Keep}

\* aux_io_pwm_set() on one pad.
PwmSetOne(a, w) ==
    /\ Calling /\ mode[a] = "pwm" /\ Touched(w) = {a} /\ Wanted(w, a) # set[a]
    /\ \E r \in PwmSet(a, Wanted(w, a), FALSE) :
        /\ TakePwm(a, r)
        /\ Marked(IF r.ok THEN {a} ELSE {})
        /\ used' = [used EXCEPT !.events = @ + 1, !.fails = @ + r.fails]
        /\ broken' = IF r.fails = 2 THEN broken \union {a} ELSE broken
    /\ UNCHANGED <<config, mode, out, inv, applied, level, muxVars, mv, taskVars, outside>>

-----------------------------------------------------------------------------
(* aux_io_pwm_write(): checked, set pad by pad, undone if one fails.       *)

WriteBegin(c, w) ==
    /\ mux = Nobody /\ Touched(w) # {} /\ \A a \in Touched(w) : mode[a] = "pwm"
    /\ mux' = c
    /\ op' = [kind |-> "write", old |-> set, done |-> {}, failed |-> FALSE,
              plan |-> [a \in Pads |-> IF a \in Touched(w) THEN Wanted(w, a) ELSE set[a]]]
    /\ UNCHANGED <<padVars, dirty, notified, mv, taskVars, outside>>   \* used: the caller

Todo == {a \in Pads : op.plan[a] # set[a]}
Writing == mux # Nobody /\ op.kind = "write"

PwmStep(a, s, next(_)) ==
    \E r \in PwmSet(a, s, FALSE) :
        /\ TakePwm(a, r)
        /\ op' = next(r.ok)
        /\ used' = [used EXCEPT !.fails = @ + r.fails]
        /\ broken' = IF r.fails = 2 \/ (op.failed /\ ~r.ok) THEN broken \union {a}
                     ELSE broken
        /\ UNCHANGED <<config, mode, out, inv, applied, level, mux, dirty, notified, mv,
                       taskVars, outside>>

WriteNext ==
    /\ Writing /\ ~op.failed /\ Todo # {}
    /\ LET a == First(Todo)
       IN PwmStep(a, op.plan[a],
                  LAMBDA ok : IF ok THEN [op EXCEPT !.done = @ \union {a}]
                              ELSE [op EXCEPT !.failed = TRUE])

Before_bug(a) == set[a]     \* remembered after it was changed
Before(a) == op.old[a]

WriteUndo ==
    /\ Writing /\ op.failed /\ op.done # {}
    /\ LET a == First(op.done)
       IN PwmStep(a, Before(a), LAMBDA ok : [op EXCEPT !.done = @ \ {a}])

WriteEnd ==
    /\ Writing /\ IF op.failed THEN op.done = {} ELSE Todo = {}
    /\ mux' = Nobody /\ op' = NoOp
    /\ Marked(op.done)
    /\ UNCHANGED <<padVars, mv, taskVars, outside, used>>

-----------------------------------------------------------------------------
(* A saved configuration, and aux_io_apply() by the web server's task.     *)

SaveConfig(c) ==
    /\ mux = Nobody /\ c # config /\ Event("save")
    /\ config' = c
    /\ mux' = Http /\ op' = [kind |-> "apply", next |-> 1]
    /\ UNCHANGED <<mode, set, out, inv, applied, chan, level, broken, dirty, notified, mv,
                   taskVars, outside>>

Allowed(a, m) == IF m = "analog" /\ a # 1 THEN "standard" ELSE m

\* enter(): on failure the pad is left in its standard function.
Enter(a, m, c) ==
    LET ok(r) == [mode |-> m, set |-> r.set, chan |-> r.chan, fails |-> r.fails, ok |-> TRUE]
        asIs == [set |-> set[a], chan |-> Low, fails |-> 0]
        failed == [mode |-> "standard", set |-> set[a], chan |-> Low, fails |-> 1, ok |-> FALSE]
    IN CASE m = "pwm" -> {ok(r) : r \in {q \in PwmSet(a, c.set, TRUE) : q.ok}} \union {failed}
         [] m \in {"analog", "output"} -> {ok(asIs), failed}
         [] OTHER -> {ok(asIs)}

ApplyChange(a, m, c) ==
    \E r \in Enter(a, m, c) :
        /\ MayFail(r.fails) /\ used' = [used EXCEPT !.fails = @ + r.fails]
        /\ mode' = [mode EXCEPT ![a] = r.mode]
        /\ set' = [set EXCEPT ![a] = r.set] /\ chan' = [chan EXCEPT ![a] = r.chan]
        /\ out' = [out EXCEPT ![a] = FALSE]
        /\ inv' = IF m = "output" THEN [inv EXCEPT ![a] = c.inv] ELSE inv
        /\ level' = [level EXCEPT ![a] = m = "output" /\ c.inv]
        /\ UNCHANGED broken
        /\ applied' = IF r.ok THEN [applied EXCEPT ![a] = c.set] ELSE applied
        /\ mv' = IF a = 1 THEN None ELSE mv
        /\ Marked({a})

Redriven(a, c) == IF mode[a] = "output" /\ c.inv # inv[a]
                  THEN [level EXCEPT ![a] = out[a] # c.inv] ELSE level

\* Same mode: only configured PWM values that changed, or a changed invert.
ApplySame(a, c) ==
    \E r \in IF mode[a] = "pwm" /\ c.set # applied[a] THEN PwmSet(a, c.set, FALSE)
             ELSE {[ok |-> TRUE, set |-> set[a], chan |-> chan[a], fails |-> 0]} :
        /\ TakePwm(a, r)
        /\ used' = [used EXCEPT !.fails = @ + r.fails]
        /\ applied' = IF r.ok THEN [applied EXCEPT ![a] = c.set] ELSE applied
        /\ inv' = IF mode[a] = "output" THEN [inv EXCEPT ![a] = c.inv] ELSE inv
        /\ level' = Redriven(a, c)
        /\ broken' = IF r.fails = 2 THEN broken \union {a} ELSE broken
        /\ Marked(IF mode[a] = "pwm" /\ c.set # applied[a] THEN {a} ELSE {})
        /\ UNCHANGED <<mode, out, mv>>

ApplyPad ==
    /\ mux # Nobody /\ op.kind = "apply" /\ op.next <= N
    /\ LET a == op.next  c == config[a]  m == Allowed(a, c.mode)
       IN IF m = mode[a] THEN ApplySame(a, c) ELSE ApplyChange(a, m, c)
    /\ op' = [op EXCEPT !.next = @ + 1]
    /\ UNCHANGED <<config, mux, taskVars, outside>>

ApplyEnd ==
    /\ mux # Nobody /\ op.kind = "apply" /\ op.next > N
    /\ mux' = Nobody /\ op' = NoOp
    /\ UNCHANGED <<padVars, dirty, notified, mv, taskVars, outside, used>>

-----------------------------------------------------------------------------
(* The pad task.                                                           *)

TaskAt(l) == padTask.at = l
Analog == mode[1] = "analog"
quiet == <<padVars, muxVars, volt, connected, used>>

Taken_bug == dirty \intersect {First(dirty)}     \* the others wait for a wake-up
Taken == dirty

\* Notified, or the time of a sample while there is something to sample.
TaskWake ==
    /\ TaskAt("wait") /\ (notified \/ ((Analog \/ rulesMv # None) /\ sampleDue))
    /\ dirty' = {} /\ notified' = FALSE
    /\ padTask' = [padTask EXCEPT !.at = "look", !.todo = IF dirty = {} THEN {} ELSE Taken]
    /\ UNCHANGED <<quiet, mv, sampleDue, rulesMv, mqttMv, engineMv, told, toldMv>>

TaskLook ==
    /\ TaskAt("look") /\ mux = Nobody
    /\ mqttMv' = IF 1 \in padTask.todo /\ ~Analog THEN None ELSE mqttMv
    /\ padTask' = [padTask EXCEPT !.at = "publish"]
    /\ UNCHANGED <<quiet, dirty, notified, mv, sampleDue, rulesMv, engineMv, told, toldMv>>

\* publish_pad(): one snapshot, published unlocked.
PubSnap ==
    /\ TaskAt("publish") /\ padTask.todo # {} /\ mux = Nobody
    /\ LET a == First(padTask.todo)
       IN padTask' = IF ~connected THEN [padTask EXCEPT !.todo = @ \ {a}]
                     ELSE [padTask EXCEPT !.at = "send",
                               !.snap = [mode |-> mode[a],
                                         pwm |-> IF mode[a] = "pwm" THEN set[a] ELSE None,
                                         out |-> IF mode[a] # "output" THEN "none"
                                                 ELSE IF out[a] THEN "on" ELSE "off"],
                               !.mv = IF a = 1 /\ Analog THEN mv ELSE None]
    /\ UNCHANGED <<quiet, dirty, notified, mv, sampleDue, rulesMv, mqttMv, engineMv, told, toldMv>>

PubSend ==
    /\ TaskAt("send")
    /\ LET a == First(padTask.todo)
       IN /\ told' = IF connected THEN [told EXCEPT ![a] = padTask.snap] ELSE told
          /\ mqttMv' = IF padTask.mv # None THEN padTask.mv ELSE mqttMv
          /\ toldMv' = IF padTask.mv # None /\ connected THEN padTask.mv ELSE toldMv
          /\ padTask' = [padTask EXCEPT !.at = "publish", !.todo = @ \ {a}, !.snap = NoSnap,
                                     !.mv = None]
    /\ UNCHANGED <<quiet, dirty, notified, mv, sampleDue, rulesMv, engineMv>>

TaskClock ==
    /\ TaskAt("publish") /\ padTask.todo = {}
    /\ padTask' = [padTask EXCEPT !.at = IF sampleDue THEN "sample" ELSE "wait"]
    /\ sampleDue' = FALSE
    /\ UNCHANGED <<quiet, dirty, notified, mv, rulesMv, mqttMv, engineMv, told, toldMv>>

\* Under s_mux: the ADC reads, or all of its conversions fail.
TaskSample ==
    /\ TaskAt("sample") /\ mux = Nobody
    /\ \E ok \in {TRUE} \union (IF MayFail(1) /\ Analog THEN {FALSE} ELSE {}) :
        /\ mv' = IF ~Analog THEN mv ELSE IF ok THEN volt ELSE None
        /\ padTask' = [padTask EXCEPT !.at = "rules",
                                    !.mv = IF Analog /\ ok THEN volt ELSE None]
        /\ used' = IF ok THEN used ELSE [used EXCEPT !.fails = @ + 1]
    /\ UNCHANGED <<padVars, muxVars, volt, connected, dirty, notified, sampleDue, rulesMv, mqttMv,
                   engineMv, told, toldMv>>

Far(x, y) == x - y >= Step \/ y - x >= Step
News(x, last) == IF last = None THEN TRUE ELSE Far(x, last)

Have == padTask.mv # None

\* The engine is offered the reading, or None when the pad has left analog.
Offered == IF Have THEN News(padTask.mv, rulesMv)
           ELSE rulesMv # None /\ ~Analog

Remembered_bug(taken) == IF Offered THEN padTask.mv ELSE rulesMv
\* Only what scripting_on_analog() has taken counts as told.
Remembered(taken) == IF taken THEN padTask.mv ELSE rulesMv

TaskRules ==
    /\ TaskAt("rules") /\ (~Have => mux = Nobody)
    /\ \E taken \in BOOLEAN :
        /\ taken => Offered
        /\ (~taken /\ Offered) => MayHappen("refuse")
        /\ engineMv' = IF taken THEN padTask.mv ELSE engineMv
        /\ rulesMv' = Remembered(taken)
        /\ used' = IF ~taken /\ Offered THEN [used EXCEPT !.events = @ + 1] ELSE used
    /\ padTask' = [padTask EXCEPT !.at = "mqtt"]
    /\ UNCHANGED <<padVars, muxVars, volt, connected, dirty, notified, mv, sampleDue, mqttMv,
                   told, toldMv>>

TaskMqtt ==
    /\ TaskAt("mqtt")
    /\ LET send == Have /\ connected /\ News(padTask.mv, mqttMv)
       IN /\ toldMv' = IF send THEN padTask.mv ELSE toldMv
          /\ mqttMv' = IF send THEN padTask.mv ELSE IF Have THEN mqttMv ELSE None
    /\ padTask' = [padTask EXCEPT !.at = "wait", !.mv = None]
    /\ UNCHANGED <<quiet, dirty, notified, mv, sampleDue, rulesMv, engineMv, told>>

-----------------------------------------------------------------------------
(* The surroundings.                                                       *)

SamplePeriod ==
    /\ ~sampleDue /\ TaskAt("wait")
    /\ sampleDue' = TRUE
    /\ UNCHANGED <<padVars, muxVars, dirty, notified, mv, padTask, rulesMv, mqttMv, outside, used>>

VoltMoves(v) ==
    /\ v # volt /\ Event("volt")
    /\ volt' = v
    /\ UNCHANGED <<padVars, muxVars, dirty, notified, mv, taskVars, engineMv, connected, told,
                   toldMv>>

\* A session begins: aux_io_on_mqtt_connected() asks for every pad.
Connect ==
    /\ ~connected /\ Event("session")
    /\ connected' = TRUE /\ toldMv' = None
    /\ told' = [a \in Pads |-> [told[a] EXCEPT !.out = "none"]]   \* not retained
    /\ Marked(Pads)
    /\ UNCHANGED <<padVars, muxVars, mv, taskVars, volt, engineMv>>

Disconnect ==
    /\ connected /\ connected' = FALSE
    /\ UNCHANGED <<padVars, muxVars, dirty, notified, mv, taskVars, volt, engineMv, told, toldMv,
                   used>>

TaskStep == \/ TaskWake \/ TaskLook \/ PubSnap \/ PubSend \/ TaskClock
            \/ TaskSample \/ TaskRules \/ TaskMqtt
MuxStep == WriteNext \/ WriteUndo \/ WriteEnd \/ ApplyPad \/ ApplyEnd

\* aux_io_out_set() and aux_io_out_toggle(), from MQTT, the rules and Matter.
OutSetOne(a) == Event("call") /\ \E on \in SUBSET {a} : OutSet({a}, on)

AuxCalls ==
    \/ \E a \in Pads : OutSetOne(a)
    \/ \E a \in Pads, w \in PwmWrites : PwmSetOne(a, w)
    \/ \E c \in Configs : SaveConfig(c)

AuxNext ==
    \/ AuxCalls
    \/ \E c \in Writers, w \in PwmWrites : Event("request") /\ WriteBegin(c, w)
    \/ \E A \in SUBSET Pads, on \in SUBSET Pads : Event("request") /\ on \subseteq A /\ OutSet(A, on)
    \/ MuxStep
    \/ TaskStep
    \/ SamplePeriod \/ (\E v \in Volts : VoltMoves(v)) \/ Connect \/ Disconnect

AuxSpec == AuxInit /\ [][AuxNext]_auxVars

\* Every task runs in the end, and time passes.
AuxFairSpec ==
    AuxSpec /\ WF_auxVars(MuxStep) /\ WF_auxVars(TaskStep) /\ WF_auxVars(SamplePeriod)

-----------------------------------------------------------------------------
(* Properties.                                                             *)

Snaps == [mode : Modes, pwm : Settings \union {None}, out : {"none", "on", "off"}]
Readings == Volts \union {None}

AuxTypeOK ==
    /\ config \in [Pads -> PadConfig] /\ mode \in [Pads -> Modes]
    /\ set \in [Pads -> Settings \union {None}] /\ applied \in [Pads -> Settings \union {None}]
    /\ out \in [Pads -> BOOLEAN] /\ inv \in [Pads -> BOOLEAN] /\ level \in [Pads -> BOOLEAN]
    /\ chan \in [Pads -> Settings \union {Low}]
    /\ mux \in Writers \union {Http, Nobody}
    /\ op.kind = (IF mux = Nobody THEN "none" ELSE IF mux = Http THEN "apply" ELSE "write")
    /\ dirty \subseteq Pads /\ notified \in BOOLEAN /\ sampleDue \in BOOLEAN /\ connected \in BOOLEAN
    /\ {volt, mv, rulesMv, mqttMv, engineMv, toldMv} \subseteq Readings
    /\ padTask.at \in {"wait", "look", "publish", "send", "sample", "rules", "mqtt"}
    /\ padTask.todo \subseteq Pads /\ padTask.snap \in Snaps /\ padTask.mv \in Readings
    /\ told \in [Pads -> Snaps] /\ broken \subseteq Pads

\* What status, Modbus and MQTT report of a pad is what its pin does, once
\* s_mux is free: the channel runs the reported setting, also after a driver
\* call has failed in the middle of a change of resolution; an output drives
\* its state under its invert setting; any other pad's channel is low.
RunsAsReported ==
    mux = Nobody =>
        \A a \in Pads \ broken :
            /\ chan[a] = IF mode[a] = "pwm" THEN set[a] ELSE Low
            /\ mode[a] = "output" => level[a] = (out[a] # inv[a])

\* aux_io_pwm_write() is all or nothing: when it gives s_mux back, every pad
\* has its new setting, or after a failure every pad has its old one.
PwmWhole ==
    [][(Writing /\ mux' = Nobody /\ broken = {}) =>
        set' = IF op.failed THEN op.old ELSE op.plan]_auxVars

\* The mode, the PWM setting and the output state the subscribers have been
\* told end up as they are, with changes, sessions and publishing in any order.
PadsSettle ==
    <>[](connected /\ broken = {} => \A a \in Pads :
            /\ told[a].mode = mode[a]
            /\ told[a].pwm = IF mode[a] = "pwm" THEN set[a] ELSE None
            /\ mode[a] = "output" => told[a].out = IF out[a] THEN "on" ELSE "off")

\* The rule engine ends up with a reading no further than a step from the last
\* sample while IO1 is analog, and with none once it is not, also when the
\* engine refused a reading or the end of the readings.
RulesSettle ==
    <>[](IF Analog THEN mv # None => ~News(mv, engineMv)
         ELSE engineMv = None)

\* While IO1 is analog, the subscribers of the session end up with a reading no
\* further than a step from the last sample (comment in aux_task()).
AnalogTold ==
    <>[](connected /\ Analog /\ mv # None => ~News(mv, toldMv))
=============================================================================
