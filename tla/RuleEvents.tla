------------------------------ MODULE RuleEvents ------------------------------
(***************************************************************************)
(* How input changes and elapsed rule timers reach the rule engine of the  *)
(* board (components/scripting/scripting.c, with the input side of         *)
(* components/board/di.c).                                                 *)
(*                                                                         *)
(* Two tasks report inputs under the mutex s_mux: di_task after an edge    *)
(* and the MQTT task after a connect (di_publish_all).  The esp_timer task *)
(* posts elapsed rule timers.  All of them go through evt_send(), which    *)
(* numbers an event and queues it in one critical section.  What a full    *)
(* queue refuses takes another way: an input leaves a bit in s_input_lost  *)
(* and the engine re-reads the level; a timer waits in the overflow ring   *)
(* under its number.  The engine holds, per channel, one heldFor() rule    *)
(* "when input(ch) is on, heldFor(t), then ...": the rule the code's       *)
(* comments are about.  Other rules of the script may wait for a place in   *)
(* the timer table: their conditions run inside _on_input().               *)
(*                                                                         *)
(* A definition whose name ends in _bug is a deliberately wrong variant of  *)
(* the one after it: the runs must notice it.  No specification uses one.  *)
(*                                                                         *)
(* Variables view, repNo, unsynced, ran and cut are history variables: the *)
(* program has no such state and no action reads them.                     *)
(***************************************************************************)
EXTENDS Naturals, Sequences

CONSTANTS
    NumDI,          \* channels 0 .. NumDI-1
    QueueDepth,     \* QUEUE_DEPTH
    OverflowSlots,  \* TIMER_OVERFLOW_SLOTS, one of them the empty marker
    MaxEdges,       \* bound: edges of all pins together
    MaxConnects,    \* bound: broker connects, each one reports every input
    MaxOther,       \* bound: events of other kinds, they only fill the queue
    MaxAborts       \* bound: calls the time budget cuts short

ASSUME RuleEventsAssumption ==
    /\ NumDI \in Nat \ {0} /\ QueueDepth \in Nat \ {0}
    /\ OverflowSlots \in Nat \ {0, 1}
    /\ MaxEdges \in Nat /\ MaxConnects \in Nat
    /\ MaxOther \in Nat /\ MaxAborts \in Nat

Channels == 0 .. NumDI - 1
Levels   == {"low", "high"}
Tasks    == {"di_task", "mqtt_task"}
NoTimer  == 0

VARIABLES
    pin,        \* the level at the pin
    level,      \* s_state: what di_get() answers
    notified,   \* di_task has a notification from gpio_isr()
    rep,        \* per reporting task: where it is, and at which channel
    evtSeq,     \* s_evt_seq
    queue,      \* s_queue
    inputLost,  \* s_input_lost, as a set of channels
    table,      \* s_timers: the used slots, as records [id, ch]
    running,    \* ids whose esp_timer has not elapsed
    nextId,     \* s_next_timer_id
    cb,         \* the esp_timer task inside timer_fired_cb()
    ring,       \* s_overflow / s_overflow_seq from tail to head
    pc,         \* the engine: where in its loop
    todo,       \* the engine: channels this pass resyncs
    mark,       \* s_input_mark
    seen,       \* _di_seen of dsl.js
    timer,      \* _timer of the channel's heldFor rule
    fired,      \* _fired of that rule
    used,       \* environment: edges, connects, other events, aborts so far
    view,       \* history: number of the report the engine's level is from
    repNo,      \* history: number of the last report of the channel
    unsynced,      \* history: lost changes this pass of the loop could not resync
    ran,        \* history: the last timer run: number, channel, last report before it
    cut         \* history: channels whose last event taken was cut short

inputVars  == <<pin, level, notified, rep>>
queueVars  == <<evtSeq, queue, inputLost>>
timerVars  == <<table, running, nextId>>
ruleVars   == <<seen, timer, fired>>
histVars   == <<view, repNo, unsynced, ran, cut>>
vars == <<inputVars, queueVars, timerVars, cb, ring, pc, todo, mark, ruleVars,
          used, histVars>>

-----------------------------------------------------------------------------
InputEvt(n, c, l)    == [kind |-> "input", seq |-> n, ch |-> c, state |-> l]
TimerEvt(n, i, c, u) == [kind |-> "timer", seq |-> n, id |-> i, ch |-> c, upto |-> u]
OtherEvt(n)          == [kind |-> "other", seq |-> n]

IsFull == Len(queue) >= QueueDepth

\* evt_send(): the number is taken whether or not the queue has room.
EvtSend(e) ==
    /\ evtSeq' = e.seq
    /\ queue' = IF IsFull THEN queue ELSE Append(queue, e)

EvtSeqAfter_bug(a, b) == TRUE       \* deferred timers run as soon as they can
EvtSeqAfter(a, b) == a > b

InputEventStale_bug(c, n) == FALSE  \* a resync leaves no mark
InputEventStale(c, n) == n <= mark[c]

\* What timer_fired_cb() does after evt_send(), by whether the queue took it.
AfterPost(e) == IF IsFull THEN [at |-> "defer", evt |-> e] ELSE [at |-> "idle"]

Idle == [at |-> "idle", ch |-> 0]
MuxFree == \A t \in Tasks : rep[t].at = "idle"

Init ==
    /\ pin \in [Channels -> Levels] /\ level = pin
    /\ notified = FALSE /\ rep = [t \in Tasks |-> Idle]
    /\ evtSeq = 0 /\ queue = <<>> /\ inputLost = {}
    /\ table = {} /\ running = {} /\ nextId = 1
    /\ cb = [at |-> "idle"] /\ ring = <<>>
    /\ pc = "pass" /\ todo = {} /\ mark = [c \in Channels |-> 0]
    /\ seen = [c \in Channels |-> "unset"]
    /\ timer = [c \in Channels |-> NoTimer] /\ fired = [c \in Channels |-> FALSE]
    /\ used = [edges |-> 0, connects |-> 0, other |-> 0, aborts |-> 0]
    /\ view = [c \in Channels |-> 0] /\ repNo = [c \in Channels |-> 0]
    /\ unsynced = {} /\ ran = [no |-> 0, ch |-> 0, upto |-> 0] /\ cut = {}

-----------------------------------------------------------------------------
(* The inputs.                                                             *)

\* A pin changes and gpio_isr() notifies di_task.
Edge(c) ==
    /\ used.edges < MaxEdges
    /\ used' = [used EXCEPT !.edges = @ + 1]
    /\ pin' = [pin EXCEPT ![c] = IF @ = "low" THEN "high" ELSE "low"]
    /\ notified' = TRUE
    /\ UNCHANGED <<level, rep, queueVars, timerVars, cb, ring, pc, todo, mark,
                   ruleVars, histVars>>

\* di_task takes its notification, waits out the bounce and takes s_mux.
ScanBegin ==
    /\ notified /\ MuxFree
    /\ notified' = FALSE
    /\ rep' = [rep EXCEPT !["di_task"] = [at |-> "read", ch |-> 0]]
    /\ UNCHANGED <<pin, level, queueVars, timerVars, cb, ring, pc, todo, mark,
                   ruleVars, used, histVars>>

\* The MQTT task enters di_publish_all() after a connect.
PublishAllBegin ==
    /\ used.connects < MaxConnects /\ MuxFree
    /\ used' = [used EXCEPT !.connects = @ + 1]
    /\ rep' = [rep EXCEPT !["mqtt_task"] = [at |-> "read", ch |-> 0]]
    /\ UNCHANGED <<pin, level, notified, queueVars, timerVars, cb, ring, pc,
                   todo, mark, ruleVars, histVars>>

\* The next channel of the loop; past the last one s_mux is given back.
NextChannel(t) ==
    rep' = [rep EXCEPT ![t] = IF rep[t].ch + 1 < NumDI
                              THEN [at |-> "read", ch |-> rep[t].ch + 1]
                              ELSE Idle]

\* read_pin() into s_state; di_scan() tells the rules of a change only,
\* di_publish_all() of every level.
ReadPin(t) ==
    LET c == rep[t].ch IN
    /\ rep[t].at = "read"
    /\ level' = [level EXCEPT ![c] = pin[c]]
    /\ IF t = "mqtt_task" \/ pin[c] # level[c]
       THEN rep' = [rep EXCEPT ![t].at = "send"]
       ELSE NextChannel(t)
    /\ UNCHANGED <<pin, notified, queueVars, timerVars, cb, ring, pc, todo,
                   mark, ruleVars, used, histVars>>

\* scripting_on_input_change(), first half: number and queue the change.
SendInput(t) ==
    LET c == rep[t].ch IN
    /\ rep[t].at = "send"
    /\ EvtSend(InputEvt(evtSeq + 1, c, level[c]))
    /\ repNo' = [repNo EXCEPT ![c] = evtSeq + 1]
    /\ IF IsFull THEN rep' = [rep EXCEPT ![t].at = "drop"] ELSE NextChannel(t)
    /\ UNCHANGED <<pin, level, notified, inputLost, timerVars, cb, ring, pc,
                   todo, mark, ruleVars, used, view, unsynced, ran, cut>>

\* Second half, after a full queue: the channel's bit in s_input_lost.
MarkLost(t) ==
    /\ rep[t].at = "drop"
    /\ inputLost' = inputLost \cup {rep[t].ch}
    /\ NextChannel(t)
    /\ UNCHANGED <<pin, level, notified, evtSeq, queue, timerVars, cb, ring, pc,
                   todo, mark, ruleVars, used, histVars>>

\* A message, an activity, an analog reading: lost when the queue is full.
SendOther ==
    /\ used.other < MaxOther
    /\ used' = [used EXCEPT !.other = @ + 1]
    /\ EvtSend(OtherEvt(evtSeq + 1))
    /\ UNCHANGED <<inputVars, inputLost, timerVars, cb, ring, pc, todo, mark,
                   ruleVars, histVars>>

-----------------------------------------------------------------------------
(* The esp_timer task.                                                     *)

\* A rule timer elapses; its callback starts.
TimerElapses(s) ==
    /\ cb.at = "idle" /\ s.id \in running
    /\ running' = running \ {s.id}
    /\ cb' = [at |-> "post", id |-> s.id, ch |-> s.ch]
    /\ UNCHANGED <<inputVars, queueVars, table, nextId, ring, pc, todo, mark,
                   ruleVars, used, histVars>>

\* timer_fired_cb(): evt_send().
TimerPost ==
    LET e == TimerEvt(evtSeq + 1, cb.id, cb.ch, repNo[cb.ch]) IN
    /\ cb.at = "post"
    /\ EvtSend(e)
    /\ cb' = AfterPost(e)
    /\ UNCHANGED <<inputVars, inputLost, timerVars, ring, pc, todo, mark,
                   ruleVars, used, histVars>>

RingHasRoom_bug == Len(ring) + 2 < OverflowSlots  \* a marker slot too many
RingHasRoom == Len(ring) + 1 < OverflowSlots

\* timer_fired_cb(), the queue full: into the ring, or lost when that is full.
TimerDefer ==
    /\ cb.at = "defer"
    /\ ring' = IF RingHasRoom THEN Append(ring, cb.evt) ELSE ring
    /\ cb' = [at |-> "idle"]
    /\ UNCHANGED <<inputVars, queueVars, timerVars, pc, todo, mark, ruleVars,
                   used, histVars>>

-----------------------------------------------------------------------------
(* The engine's rules: dsl.js for one heldFor() rule per channel.          *)

\* _on_input(): a match arms the rule's timer once, no match cancels it.
OnInput(c, l) ==
    /\ seen' = [seen EXCEPT ![c] = l]
    /\ IF l = "high"
       THEN /\ IF timer[c] = NoTimer /\ ~fired[c]
               THEN /\ timer' = [timer EXCEPT ![c] = nextId]
                    /\ table' = table \cup {[id |-> nextId, ch |-> c]}
                    /\ running' = running \cup {nextId}
                    /\ nextId' = nextId + 1
               ELSE UNCHANGED <<timer, timerVars>>
            /\ UNCHANGED fired
       ELSE /\ table' = {s \in table : s.id # timer[c]}
            /\ running' = running \ {timer[c]}
            /\ timer' = [timer EXCEPT ![c] = NoTimer]
            /\ fired' = [fired EXCEPT ![c] = FALSE]
            /\ UNCHANGED nextId

\* InputCondition._check(): the level last delivered, the live one before that.
CheckInput(c) == IF seen[c] = "unset" THEN level[c] = "high" ELSE seen[c] = "high"

\* run_timer() and _held_elapsed(): an id without a slot was cleared.
RunTimer(e) ==
    IF \E s \in table : s.id = e.id
    THEN /\ table' = {s \in table : s.id # e.id}
         /\ timer' = [timer EXCEPT ![e.ch] = NoTimer]
         /\ fired' = [fired EXCEPT ![e.ch] = @ \/ CheckInput(e.ch)]
         /\ ran' = [no |-> e.seq, ch |-> e.ch, upto |-> e.upto]
         /\ UNCHANGED <<running, nextId, seen>>
    ELSE UNCHANGED <<timerVars, ruleVars, ran>>

-----------------------------------------------------------------------------
(* The engine's loop, scripting_task().                                    *)

TakeLost_bug ==                 \* resynced only when no event waits
    /\ pc = "pass"
    /\ todo' = IF queue = <<>> THEN inputLost ELSE {}
    /\ inputLost' = inputLost \ todo'
    /\ pc' = IF todo' = {} THEN "drain" ELSE "mark"
    /\ unsynced' = {rep[t].ch : t \in {u \in Tasks : rep[u].at = "drop"}}
    /\ UNCHANGED <<inputVars, evtSeq, queue, timerVars, cb, ring, mark, ruleVars,
                   used, view, repNo, ran, cut>>

\* resync_lost_inputs(): takes the lost channels.
TakeLost ==
    /\ pc = "pass"
    /\ todo' = inputLost /\ inputLost' = {}
    /\ pc' = IF inputLost = {} THEN "drain" ELSE "mark"
    /\ unsynced' = {rep[t].ch : t \in {u \in Tasks : rep[u].at = "drop"}}
    /\ UNCHANGED <<inputVars, evtSeq, queue, timerVars, cb, ring, mark, ruleVars,
                   used, view, repNo, ran, cut>>

FirstTodo == CHOOSE c \in todo : \A d \in todo : c <= d

\* input_mark_resync(): the last number handed out, before the level is read.
ResyncMark ==
    /\ pc = "mark"
    /\ mark' = [mark EXCEPT ![FirstTodo] = evtSeq]
    /\ pc' = "resync"
    /\ UNCHANGED <<inputVars, queueVars, timerVars, cb, ring, todo, ruleVars,
                   used, histVars>>

ResyncNext ==
    /\ todo' = todo \ {FirstTodo}
    /\ pc' = IF todo' = {} THEN "drain" ELSE "mark"

\* di_get() and _resync_input(): delivered only when it differs.
ResyncRead ==
    LET c == FirstTodo IN
    /\ pc = "resync"
    /\ ResyncNext
    /\ IF seen[c] = level[c] THEN UNCHANGED <<timerVars, ruleVars>>
                             ELSE OnInput(c, level[c])
    /\ view' = [view EXCEPT ![c] = repNo[c]] /\ cut' = cut \ {c}
    /\ UNCHANGED <<inputVars, queueVars, cb, ring, mark, used, repNo, unsynced, ran>>

\* The time budget cuts the call short: the channel is offered again.
ResyncAbort ==
    /\ pc = "resync" /\ used.aborts < MaxAborts
    /\ used' = [used EXCEPT !.aborts = @ + 1]
    /\ ResyncNext
    /\ inputLost' = inputLost \cup {FirstTodo}
    /\ unsynced' = unsynced \cup {FirstTodo}
    /\ UNCHANGED <<inputVars, evtSeq, queue, timerVars, cb, ring, mark, ruleVars,
                   view, repNo, ran, cut>>

Due_bug ==                      \* a timer waits for an event to run behind
    /\ ring # <<>> /\ queue # <<>>
    /\ EvtSeqAfter(Head(queue).seq, Head(ring).seq)

\* drain_overflow(): whether the ring's first timer may run.
Due == /\ ring # <<>>
       /\ queue # <<>> => EvtSeqAfter(Head(queue).seq, Head(ring).seq)

DrainOne ==
    /\ pc = "drain" /\ Due
    /\ ring' = Tail(ring)
    /\ RunTimer(Head(ring))
    /\ UNCHANGED <<inputVars, queueVars, cb, pc, todo, mark, used, view, repNo,
                   unsynced, cut>>

DrainEnd ==
    /\ pc = "drain" /\ ~Due
    /\ pc' = "receive"
    /\ UNCHANGED <<inputVars, queueVars, timerVars, cb, ring, todo, mark,
                   ruleVars, used, histVars>>

\* xQueueReceive() and the dispatch of what it took.
Receive ==
    LET e == Head(queue) IN
    /\ pc = "receive" /\ queue # <<>>
    /\ queue' = Tail(queue)
    /\ pc' = "pass"
    /\ \/ /\ e.kind = "input" /\ ~InputEventStale(e.ch, e.seq)
          /\ OnInput(e.ch, e.state)
          /\ view' = [view EXCEPT ![e.ch] = e.seq] /\ cut' = cut \ {e.ch}
          /\ UNCHANGED ran
       \/ /\ e.kind = "timer"
          /\ RunTimer(e)
          /\ UNCHANGED <<view, cut>>
       \/ /\ e.kind = "other" \/ (e.kind = "input" /\ InputEventStale(e.ch, e.seq))
          /\ UNCHANGED <<timerVars, ruleVars, view, ran, cut>>
    /\ UNCHANGED <<inputVars, evtSeq, inputLost, cb, ring, todo, mark, used,
                   repNo, unsynced>>

\* An input event cut short before _on_input() records the level: it first
\* tries the rules that wait for a timer (_retry_arms()), and the condition of
\* one of them overruns the time budget.  The event is not offered again.
InputCutShort ==
    LET e == Head(queue) IN
    /\ pc = "receive" /\ queue # <<>> /\ used.aborts < MaxAborts
    /\ e.kind = "input" /\ ~InputEventStale(e.ch, e.seq)
    /\ used' = [used EXCEPT !.aborts = @ + 1]
    /\ queue' = Tail(queue)
    /\ pc' = "pass"
    /\ cut' = cut \cup {e.ch}
    /\ UNCHANGED <<inputVars, evtSeq, inputLost, timerVars, cb, ring, todo, mark,
                   ruleVars, view, repNo, unsynced, ran>>

\* Nothing within 200 ms.
ReceiveTimeout ==
    /\ pc = "receive" /\ queue = <<>>
    /\ pc' = "pass"
    /\ UNCHANGED <<inputVars, queueVars, timerVars, cb, ring, todo, mark,
                   ruleVars, used, histVars>>

-----------------------------------------------------------------------------
Engine    == TakeLost \/ ResyncMark \/ ResyncRead \/ ResyncAbort
             \/ DrainOne \/ DrainEnd \/ Receive \/ InputCutShort \/ ReceiveTimeout
Report(t) == ReadPin(t) \/ SendInput(t) \/ MarkLost(t)
TimerTask == (\E s \in table : TimerElapses(s)) \/ TimerPost \/ TimerDefer

Next == \/ \E c \in Channels : Edge(c)
        \/ ScanBegin \/ PublishAllBegin \/ SendOther
        \/ \E t \in Tasks : Report(t)
        \/ TimerTask \/ Engine

Spec == Init /\ [][Next]_vars

\* Every task is scheduled in the end, and a rule timer elapses.
FairSpec == /\ Spec
            /\ WF_vars(Engine) /\ WF_vars(TimerTask) /\ WF_vars(ScanBegin)
            /\ \A t \in Tasks : WF_vars(Report(t))

-----------------------------------------------------------------------------
PosNat     == Nat \ {0}
InputEvent == [kind : {"input"}, seq : PosNat, ch : Channels, state : Levels]
TimerEvent == [kind : {"timer"}, seq : PosNat, id : PosNat, ch : Channels, upto : Nat]
OtherEvent == [kind : {"other"}, seq : PosNat]
Event      == InputEvent \cup TimerEvent \cup OtherEvent

InputType ==
    /\ pin \in [Channels -> Levels] /\ level \in [Channels -> Levels]
    /\ notified \in BOOLEAN
    /\ rep \in [Tasks -> [at : {"idle", "read", "send", "drop"}, ch : Channels]]
QueueType ==
    /\ evtSeq \in Nat /\ queue \in Seq(Event) /\ inputLost \subseteq Channels
TimerType ==
    /\ table \subseteq [id : PosNat, ch : Channels]
    /\ running \subseteq PosNat /\ nextId \in PosNat
    /\ cb \in [at : {"idle"}] \cup [at : {"post"}, id : PosNat, ch : Channels]
              \cup [at : {"defer"}, evt : TimerEvent]
    /\ ring \in Seq(TimerEvent)
EngineType ==
    /\ pc \in {"pass", "mark", "resync", "drain", "receive"}
    /\ todo \subseteq Channels /\ (pc \in {"mark", "resync"} => todo # {})
    /\ mark \in [Channels -> Nat]
    /\ seen \in [Channels -> Levels \cup {"unset"}]
    /\ timer \in [Channels -> Nat] /\ fired \in [Channels -> BOOLEAN]
HistType ==
    /\ used \in [edges : Nat, connects : Nat, other : Nat, aborts : Nat]
    /\ view \in [Channels -> Nat] /\ repNo \in [Channels -> Nat]
    /\ unsynced \subseteq Channels
    /\ ran \in [no : Nat, ch : Channels, upto : Nat]
    /\ cut \subseteq Channels

\* Type invariant of the module.
TypeOK == InputType /\ QueueType /\ TimerType /\ EngineType /\ HistType

\* "The queue holds the numbers in order", all of them handed out
\* (scripting.c:74-80).
QueueInOrder ==
    /\ \A i \in DOMAIN queue : queue[i].seq <= evtSeq
    /\ \A i, j \in DOMAIN queue : i < j => queue[i].seq < queue[j].seq

\* A deferred timer never runs ahead of an event posted before it that is still
\* in the queue: a timer that runs, from the queue or from the ring, leaves only
\* later numbers behind (scripting.c:82-93 and 678-698).
TimersInOrder ==
    [][ran' # ran => \A i \in DOMAIN queue' : queue'[i].seq > ran'.no]_vars

\* What will still correct the engine's level of channel c.
Reporting(c) == \E t \in Tasks : rep[t].ch = c /\ rep[t].at \in {"send", "drop"}
Fresh(c)     == {i \in DOMAIN queue : /\ queue[i].kind = "input" /\ queue[i].ch = c
                                      /\ ~InputEventStale(c, queue[i].seq)}
Resyncing(c) == c \in inputLost \/ c \in todo

\* The level the engine ends on, once what is queued is handled, is the live one.
EndsLive(c) ==
    IF Fresh(c) = {} THEN seen[c] \in {"unset", level[c]}
    ELSE \A i \in Fresh(c) : (\A j \in Fresh(c) : j <= i) => queue[i].state = level[c]

\* No condition is left believing a level the input no longer has
\* (scripting.c:636-639): with no report and no resync on its way, the engine
\* ends on the live level.
NoLevelLost == \A c \in Channels : Reporting(c) \/ Resyncing(c) \/ EndsLive(c)

\* The same, but for a channel whose last event was cut short before the engine
\* recorded its level: only a refused change is made good (scripting.c:649-672).
NoLevelLostUnlessCut ==
    \A c \in Channels :
        Reporting(c) \/ Resyncing(c) \/ EndsLive(c) \/ (Fresh(c) = {} /\ c \in cut)

\* A heldFor() rule never fires on a level older than the last change reported
\* before its timer elapsed (scripting.c:67-80): no report lies between the one
\* the engine's level is from and the timer.
HeldOnFreshLevel ==
    [][\A c \in Channels : fired'[c] /\ ~fired[c] => view[c] >= ran'.upto]_vars

\* The same, but for a channel of which the engine missed a change.  This pass
\* could not resync it: its reporter was between the refused evt_send() and the
\* bit in s_input_lost when the engine took the bits, or the resync call was cut
\* short.  Or its last event was cut short.
HeldUnlessMissed ==
    [][\A c \in Channels :
          fired'[c] /\ ~fired[c] =>
              view[c] >= ran'.upto \/ c \in unsynced \/ c \in cut]_vars

\* A timer on its way: its esp_timer runs, its callback does, or its id is in
\* the queue or in the ring.
Underway(i) ==
    \/ i \in running
    \/ cb.at = "post" /\ cb.id = i
    \/ cb.at = "defer" /\ cb.evt.id = i
    \/ \E k \in DOMAIN queue : queue[k].kind = "timer" /\ queue[k].id = i
    \/ \E k \in DOMAIN ring : ring[k].id = i

\* A timer a rule waits for is on its way, never lost (scripting.c:207-213).
TimerNotLost == \A c \in Channels : timer[c] # NoTimer => Underway(timer[c])

\* Every id in the ring is still waited for.
NoneCleared == \A k \in DOMAIN ring : \E c \in Channels : timer[c] = ring[k].id

\* The ring has a slot for every timer and one for the marker (scripting.c:214).
\* It loses a timer a rule waits for only while it holds the id of a timer that
\* was cleared: no other step of any task does.
LostOnlyToCleared ==
    [][NumDI < OverflowSlots /\ NoneCleared /\ TimerNotLost => TimerNotLost']_vars

\* Once the pins rest, the drivers agree with them and the engine with the
\* drivers, but for a channel whose last event was cut short.
InputsSettle ==
    <>[](\A c \in Channels : /\ level[c] = pin[c]
                             /\ seen[c] \in {"unset", level[c]} \/ c \in cut)

\* Every armed heldFor() timer that is not lost runs or is cancelled: a deferred
\* one also on a device where nothing is queued any more (scripting.c:681-698).
TimersConclude ==
    \A c \in Channels :
        timer[c] # NoTimer ~> timer[c] = NoTimer \/ ~Underway(timer[c])

\* The engine ends on the inputs' levels, and with no timer left waiting.
Settles == InputsSettle /\ TimersConclude
=============================================================================
