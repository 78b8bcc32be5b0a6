--------------------------------- MODULE Led ---------------------------------
(***************************************************************************)
(* The status LED (components/board/led.c).  The mode is fixed at boot:    *)
(* in IO mode instant colours and sequences share one LED, in status mode  *)
(* the level of the connection, the portal's blink and short flashes do.   *)
(* The press request of the web server forces a colour in either mode.     *)
(*                                                                         *)
(* What is under s_io_lock is one step, except that a queued sequence is   *)
(* seen before its wake: the task receives without the lock.  In status    *)
(* mode a call is the list of its steps, for s_mux covers one of them      *)
(* only.  Left out: parsing, brightness, the "led" topic.                  *)
(***************************************************************************)
EXTENDS Integers, SequencesExt

CONSTANTS
    LedColours,        \* colours a user sets
    LedPrograms,       \* the sequences sent to led/set
    LedScenarios       \* bound: [mode, kinds, max], the mode at boot, which events may
                       \* happen in one behaviour and how many of them together

LedEvents == {"instant", "sequence", "force", "network", "portal", "broker", "flash"}

ASSUME LedAssumption ==
    /\ LedScenarios \subseteq [mode : {"io", "status"}, kinds : SUBSET LedEvents, max : Nat]
    /\ LedPrograms \subseteq Seq(LedColours) /\ <<>> \notin LedPrograms

VARIABLES
    ledMode,     \* s_status_mode
    rgb, hw,     \* s_r, s_g, s_b; the strip
    force,       \* led_force_set() .. led_force_release(), what release has read
    overtaken,   \* history: hw was last written with a colour read before a change
    ledUsed,     \* environment: the scenario and the events so far
    gen,         \* s_gen
    queue,       \* s_queue, of one element
    ioLock,      \* who holds s_io_lock over several steps
    woken,       \* led_task's notification
    run,         \* led_task: where it is, its sequence, the next step
    newest,      \* history: the newest command
    level, netUp, apMode, bg,   \* s_net_level, s_net_up, s_ap_mode, s_bg_r, g, b
    blink,       \* s_ap_blink_t, s_ap_blink_on and its callback
    flash,       \* s_flash_q and flash_task
    call,        \* per caller the steps to come and the colour it has looked up
    session      \* environment: the broker's session, none, live, or dead with the address

ioVars == <<gen, queue, ioLock, woken, run, newest>>
statusVars == <<level, netUp, apMode, bg, blink, flash, call, session>>
ledVars == <<ledMode, rgb, hw, force, overtaken, ledUsed, ioVars, statusVars>>

-----------------------------------------------------------------------------
StatusColour == <<"yellow", "green", "purple">>
OfLevel(l) == StatusColour[l + 1]
Mqtt == "mqtt"
Net == "network"     \* its reports do not overlap here; Network is about those that do
Callers == {Net, Mqtt}
NoSeq == [steps |-> <<>>, gen |-> 0]

LedInit ==
    /\ \E s \in LedScenarios : ledMode = s.mode /\ ledUsed = [events |-> 0, scenario |-> s]
    /\ rgb = IF ledMode = "io" THEN "off" ELSE OfLevel(0)
    /\ hw = rgb /\ bg = rgb
    /\ force = [at |-> "none", colour |-> "off"] /\ overtaken = FALSE
    /\ gen = 0 /\ queue = <<>> /\ ioLock = "free" /\ woken = FALSE
    /\ run = [at |-> "idle", seq |-> NoSeq, i |-> 1]
    /\ newest = [kind |-> "none", last |-> "off", gen |-> 0]
    /\ level = 0 /\ netUp = FALSE /\ apMode = FALSE /\ session = "none"
    /\ blink = [timer |-> FALSE, on |-> FALSE, at |-> "idle"]
    /\ flash = [queue |-> <<>>, at |-> "idle", colour |-> "off"]
    /\ call = [t \in Callers |-> [todo |-> <<>>, colour |-> "off"]]

\* The colour the LED should be showing.
Due == IF ledMode = "io" THEN rgb ELSE OfLevel(level)

\* hw_write() of a colour that was right once.
Write(c, due) == hw' = c /\ overtaken' = (c # due)

LedEvent(k) ==
    /\ k \in ledUsed.scenario.kinds /\ ledUsed.events < ledUsed.scenario.max
    /\ ledUsed' = [ledUsed EXCEPT !.events = @ + 1]

-----------------------------------------------------------------------------
(* IO mode *)

\* led_set_rgb(), "#RRGGBB" on led/set
Instant(c) ==
    /\ ledMode = "io" /\ ioLock = "free" /\ LedEvent("instant")
    /\ gen' = gen + 1 /\ rgb' = c /\ Write(c, c) /\ woken' = TRUE
    /\ newest' = [kind |-> "instant", last |-> c, gen |-> gen + 1]
    /\ UNCHANGED <<ledMode, force, queue, ioLock, run, statusVars>>

\* A sequence on led/set: numbered and queued in the place of one not begun ...
Overwrite(s) == queue' = <<s>>
QueueSeq(p) ==
    /\ ledMode = "io" /\ ioLock = "free" /\ LedEvent("sequence")
    /\ ioLock' = "producer" /\ gen' = gen + 1
    /\ Overwrite([steps |-> p, gen |-> gen + 1])
    /\ newest' = [kind |-> "sequence", last |-> Last(p), gen |-> gen + 1]
    /\ UNCHANGED <<ledMode, rgb, hw, force, overtaken, woken, run, statusVars>>

\* ... and the task woken, before the lock is given back.
QueueNotify ==
    /\ ioLock = "producer" /\ ioLock' = "free" /\ woken' = TRUE
    /\ UNCHANGED <<ledMode, rgb, hw, force, overtaken, ledUsed, gen, queue, run, newest, statusVars>>

Receive ==
    /\ run.at = "idle" /\ queue # <<>>
    /\ run' = [at |-> "drain", seq |-> Head(queue), i |-> 1] /\ queue' = <<>>
    /\ UNCHANGED <<ledMode, rgb, hw, force, overtaken, ledUsed, gen, ioLock, woken, newest, statusVars>>

\* The wake of the command before this run is taken off.
Drain ==
    /\ run.at = "drain" /\ ioLock = "free"
    /\ woken' = FALSE /\ run' = [run EXCEPT !.at = "step"]
    /\ UNCHANGED <<ledMode, rgb, hw, force, overtaken, ledUsed, gen, queue, ioLock, newest, statusVars>>

Ends == run' = [at |-> "idle", seq |-> NoSeq, i |-> 1]

Step_bug ==       \* "still current?" is asked for the first step only
    /\ run.at = "step" /\ ioLock = "free"
    /\ IF run.i > Len(run.seq.steps) \/ (run.seq.gen # gen /\ run.i = 1)
       THEN Ends /\ UNCHANGED <<rgb, hw, overtaken>>
       ELSE LET c == run.seq.steps[run.i]
            IN  rgb' = c /\ Write(c, c) /\ run' = [run EXCEPT !.at = "wait", !.i = @ + 1]
    /\ UNCHANGED <<ledMode, force, ledUsed, gen, queue, ioLock, woken, newest, statusVars>>
\* "Still current?" and the write of the step are one step.
Step ==
    /\ run.at = "step" /\ ioLock = "free"
    /\ IF run.i > Len(run.seq.steps) \/ run.seq.gen # gen
       THEN Ends /\ UNCHANGED <<rgb, hw, overtaken>>
       ELSE LET c == run.seq.steps[run.i]
            IN  rgb' = c /\ Write(c, c) /\ run' = [run EXCEPT !.at = "wait", !.i = @ + 1]
    /\ UNCHANGED <<ledMode, force, ledUsed, gen, queue, ioLock, woken, newest, statusVars>>

\* The step's time is over, or a notification ends it early.
Waited ==
    /\ run.at = "wait"
    /\ run' = [run EXCEPT !.at = "look"] /\ woken' = FALSE
    /\ UNCHANGED <<ledMode, rgb, hw, force, overtaken, ledUsed, gen, queue, ioLock, newest, statusVars>>

Look ==
    /\ run.at = "look"
    /\ IF queue # <<>> \/ run.seq.gen # gen THEN Ends ELSE run' = [run EXCEPT !.at = "step"]
    /\ UNCHANGED <<ledMode, rgb, hw, force, overtaken, ledUsed, gen, queue, ioLock, woken, newest, statusVars>>

IoNext ==
    \/ \E c \in LedColours : Instant(c)
    \/ \E p \in LedPrograms : QueueSeq(p)
    \/ QueueNotify \/ Receive \/ Drain \/ Step \/ Waited \/ Look

-----------------------------------------------------------------------------
(* Status mode: the steps of a call, one at a time *)

RefreshStatus == <<"look", "background", "show">>
Todo(t) == call[t].todo
Begins(t, steps) == Todo(t) = <<>> /\ call' = [call EXCEPT ![t].todo = steps]

NetworkUp == <<"apOff", "timerStop">> \o RefreshStatus \o <<"netUp">>

\* led_status_set_ap_mode(true); led_status_set_network() for an address, and when
\* the last one is lost, which is the end of the session too.
Report(steps, k) ==
    /\ ledMode = "status" /\ LedEvent(k) /\ Begins(Net, steps)
    /\ session' = IF steps = <<"netDown">> /\ session = "live" THEN "dead" ELSE session
    /\ UNCHANGED <<ledMode, rgb, hw, force, overtaken, ioVars, level, netUp, apMode, bg, blink, flash>>

\* led_status_set_mqtt(), from the client's task
SetMqtt(to, step) ==
    /\ Begins(Mqtt, <<step>>) /\ session' = to
    /\ UNCHANGED <<ledMode, rgb, hw, force, overtaken, ioVars, level, netUp, apMode, bg, blink, flash>>
BrokerComes == session = "none" /\ netUp /\ Todo(Net) = <<>> /\ LedEvent("broker") /\ SetMqtt("live", "mqttUp")
BrokerGoes == session = "live" /\ LedEvent("broker") /\ SetMqtt("none", "mqttDown")
SessionDies == session = "dead" /\ SetMqtt("none", "mqttDown") /\ UNCHANGED ledUsed

Does(t, s) == Todo(t) # <<>> /\ Head(Todo(t)) = s
Goes(t, more) == call' = [call EXCEPT ![t].todo = Tail(@) \o more]

Flags(t) ==
    /\ \/ Does(t, "apOn") /\ apMode' = TRUE /\ blink' = blink
       \/ Does(t, "apOff") /\ apMode' = FALSE /\ blink' = blink
       \/ Does(t, "timerStart") /\ blink' = [blink EXCEPT !.timer = TRUE] /\ apMode' = apMode
       \/ Does(t, "timerStop") /\ blink' = [blink EXCEPT !.timer = FALSE] /\ apMode' = apMode
    /\ Goes(t, <<>>)
    /\ UNCHANGED <<ledMode, rgb, hw, force, overtaken, ledUsed, ioVars, level, netUp, bg, flash, session>>

\* The critical sections of led_status_set_network() and led_status_set_mqtt()
Levels(up, l, t) ==
    /\ netUp' = up /\ level' = l
    /\ Goes(t, IF l # level \/ t = Mqtt THEN RefreshStatus ELSE <<>>)
    /\ UNCHANGED <<ledMode, rgb, hw, force, overtaken, ledUsed, ioVars, apMode, bg, blink, flash, session>>

SetLevel_bug(t) ==      \* green after the broker is lost, whatever the network
    \/ Does(t, "netUp") /\ Levels(TRUE, IF level < 1 THEN 1 ELSE level, t)
    \/ Does(t, "netDown") /\ Levels(FALSE, 0, t)
    \/ Does(t, "mqttUp") /\ Levels(netUp, 2, t)
    \/ Does(t, "mqttDown") /\ Levels(netUp, 1, t)
SetLevel(t) ==
    \/ Does(t, "netUp") /\ Levels(TRUE, IF level < 1 THEN 1 ELSE level, t)
    \/ Does(t, "netDown") /\ Levels(FALSE, 0, t)
    \/ Does(t, "mqttUp") /\ Levels(netUp, 2, t)
    \/ Does(t, "mqttDown") /\ Levels(netUp, IF netUp THEN 1 ELSE 0, t)

\* refresh_status(), outside s_mux
Refresh(t) ==
    /\ \/ /\ Does(t, "look")
          /\ call' = [call EXCEPT ![t] = [todo |-> Tail(@.todo), colour |-> OfLevel(level)]]
          /\ UNCHANGED <<bg, rgb, hw, overtaken>>
       \/ /\ Does(t, "background") /\ Goes(t, <<>>)
          /\ bg' = call[t].colour /\ rgb' = call[t].colour /\ UNCHANGED <<hw, overtaken>>
       \/ /\ Does(t, "show") /\ Goes(t, <<>>)
          /\ Write(call[t].colour, Due) /\ UNCHANGED <<bg, rgb>>
    /\ UNCHANGED <<ledMode, force, ledUsed, ioVars, level, netUp, apMode, blink, flash, session>>

\* A message received or published
DoFlash(c) ==
    /\ ledMode = "status" /\ LedEvent("flash")
    /\ flash' = [flash EXCEPT !.queue = <<c>>]
    /\ UNCHANGED <<ledMode, rgb, hw, force, overtaken, ioVars, level, netUp, apMode, bg, blink, call, session>>

FlashTask ==
    /\ \/ /\ flash.at = "idle" /\ flash.queue # <<>>
          /\ flash' = [flash EXCEPT !.at = "shown", !.queue = <<>>]
          /\ hw' = Head(flash.queue) /\ rgb' = hw' /\ UNCHANGED overtaken
       \/ /\ flash.at = "shown"
          /\ flash' = [flash EXCEPT !.at = "back", !.colour = bg] /\ UNCHANGED <<rgb, hw, overtaken>>
       \/ /\ flash.at = "back"
          /\ flash' = [flash EXCEPT !.at = "idle"]
          /\ rgb' = flash.colour /\ Write(flash.colour, Due)
    /\ UNCHANGED <<ledMode, force, ledUsed, ioVars, level, netUp, apMode, bg, blink, call, session>>

\* ap_blink_cb(); esp_timer_stop() does not wait for one that has begun.
Blink ==
    /\ \/ /\ blink.at = "idle" /\ blink.timer
          /\ blink' = [blink EXCEPT !.at = "show", !.on = ~@] /\ UNCHANGED <<rgb, hw, overtaken>>
       \/ /\ blink.at = "show"
          /\ blink' = [blink EXCEPT !.at = "idle"]
          /\ rgb' = (IF blink.on THEN "blue" ELSE "off") /\ Write(rgb', Due)
    /\ UNCHANGED <<ledMode, force, ledUsed, ioVars, level, netUp, apMode, bg, flash, call, session>>

StatusNext ==
    \/ Report(<<"apOn", "timerStart">>, "portal")
    \/ Report(NetworkUp, "network") \/ Report(<<"netDown">>, "network")
    \/ BrokerComes \/ BrokerGoes \/ SessionDies
    \/ \E t \in Callers : Flags(t) \/ SetLevel(t) \/ Refresh(t)
    \/ \E c \in {"rx", "tx"} : DoFlash(c)
    \/ FlashTask \/ Blink

-----------------------------------------------------------------------------
(* The press request of a new password, in either mode *)

ForceSet ==
    /\ force.at = "none" /\ LedEvent("force")
    /\ force' = [at |-> "forced", colour |-> "off"] /\ hw' = "press"
    /\ UNCHANGED <<ledMode, rgb, overtaken, ioVars, statusVars>>

\* led_force_release() reads the colour to go back to ...
ForceRelease ==
    /\ force.at = "forced"
    /\ force' = [at |-> IF ledMode = "status" /\ apMode THEN "none" ELSE "release",
                 colour |-> IF ledMode = "status" THEN bg ELSE rgb]
    /\ UNCHANGED <<ledMode, rgb, hw, overtaken, ledUsed, ioVars, statusVars>>

\* ... and writes it, without a lock in between.
ForceOver ==
    /\ force.at = "release" /\ force' = [force EXCEPT !.at = "none"]
    /\ Write(force.colour, Due)
    /\ UNCHANGED <<ledMode, rgb, ledUsed, ioVars, statusVars>>

LedNext == IoNext \/ StatusNext \/ ForceSet \/ ForceRelease \/ ForceOver

LedTasks ==
    /\ WF_ledVars(QueueNotify) /\ WF_ledVars(Receive \/ Drain \/ Step \/ Waited \/ Look)
    /\ \A t \in Callers : WF_ledVars(Flags(t) \/ SetLevel(t) \/ Refresh(t))
    /\ WF_ledVars(SessionDies) /\ WF_ledVars(FlashTask) /\ WF_ledVars(Blink) /\ WF_ledVars(ForceRelease \/ ForceOver)

LedSpec == LedInit /\ [][LedNext]_ledVars /\ LedTasks

-----------------------------------------------------------------------------
(* Properties *)

\* An instant colour stays: no step of a sequence queued before it lands on top
\* of it (the comment above s_io_lock).
InstantStays == newest.kind = "instant" => rgb = newest.last

\* A step that waits is woken early by a newer command, always, and by nothing
\* else: neither is a newer command's wake swallowed by the drain, nor does the
\* sequence's own wake cut its first step short (run_sequence()).
WokenByNewer ==
    run.at = "wait" /\ ioLock = "free" => (woken <=> run.seq.gen # gen)

\* After the last command and report, the newest command's last colour stays, or
\* in status mode the level says what was last reported, and the strip shows it
\* unless a write that was overtaken came last.
LevelTold == IF session = "live" THEN 2 ELSE IF netUp THEN 1 ELSE 0
AsTold ==
    /\ ledMode = "io" => rgb = newest.last
    /\ ledMode = "status" => level = LevelTold
    /\ hw = Due \/ overtaken \/ apMode
LedSettles == <>[]AsTold
=============================================================================
