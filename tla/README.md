# A TLA+ model of the ESP32-S3 I/O board firmware

The firmware drives eight inputs, eight relay outputs, three header pads, an
LED, a buzzer, a CAN bus and an RS-485 segment, and offers them over MQTT,
Modbus, CAN, Matter, a web page and a rule engine that runs the user's
JavaScript. It is C on FreeRTOS with two cores: about a dozen tasks, timers and
interrupts share the same few bytes. These modules describe how those tasks
meet; TLC checks small instances of them, TLAPS proves some of their properties
for every instance.

Paths below are relative to the repository. `PROJECT.json` gives, for each
definition, the lines of code it stands for.

## 1. The system

| Component | State | Operations | Meets |
|---|---|---|---|
| Digital inputs, `board/di.c` | `s_state`, `s_mux` | edge, scan, report all after a connect | rules, MQTT, Matter |
| Outputs, `board/dout.c` | `s_state`, `s_port`, `s_lock`, `s_pub_dirty`, the expander | `dout_modify()`, `dout_publish_all()`, publish task | everyone who switches; MQTT |
| Header pads, `board/aux_io.c` | modes, PWM settings, levels, `s_mux` | change of mode, PWM write, sampling, publishing | Modbus, rules, web |
| LED, buzzer, `board/led.c`, `buzzer.c` | level, colour, running sequence, `s_gen` | instant colour, sequence, status | Modbus, CAN, rules, MQTT |
| Password and button, `board/auth.c`, `button.c` | flow, token, deadline, credential in memory and flash | begin, press, timeout, set, login | web, LED, esp_timer |
| Configuration, `board/app_config.c` | live copy, flash keys | load and normalise, update | every reader, without a lock |
| Rule engine, `scripting/scripting.c`, `dsl.js`, `bindings.c` | event queue, lost inputs, timer slots, overflow ring, contexts, pending states, tickets | event from any task, timer, message, reload | inputs, MQTT, web, outputs |
| MQTT, `apps/full/main/app_mqtt.c` | client, connected, subscription owners | session, publish, subscribe | broker; outputs, inputs, rules |
| Modbus server, `modbus/mb_server.c` | command queue, coil and register shadows, pending counts | read, write, command task | outputs, pads, LED; RTU and TCP |
| Modbus TCP, `modbus/mb_tcp_server.c` | connection slots, job queue, wake-up | poll, serve, forward, take over, sweep | clients, workers |
| Gateway, `modbus/mb_gateway.c` | the segment's mutex, the master object | one transaction | TCP workers, Modbus master |
| Modbus master, `modbus/mb_tcp_master.c` | staged and active table, connection and name caches, entry states | poll, stage, apply, status | devices, gateway, rules, MQTT |
| CAN, `can/can_server.c` | frame slots, node state, claimed address, last reports | command, report on change, recovery, claim | outputs, LED, other nodes |
| Network, `apps/full/main/main.c`, `board/eth.c`, `wifi_config.c` | interface flags, link lost, services running | ready, lost, monitor | web server, Modbus TCP, MQTT, LED |
| Web API, `apps/full/main/web_server.c`, `board/web_common.c` | none of its own but the server | one handler at a time | all of the above |
| Setup portal, clock, Matter, frames | see `PROJECT.json` | | |

**What is hard here.** Tasks of different priority on two cores meet in short
critical sections, and much goes wrong *between* two of them: the refused
queue entry and the note that it was refused, the read of a callback and its
clearing, the look at two flags and what is done about them. Queues are small
and what they refuse takes another way that must keep its place in the order.
Timers' callbacks are on their way when they are stopped. Hardware transfers
fail half-way, and so do writes to flash and drivers called pad by pad. Requests
are acknowledged before they are carried out. Clients fall silent. What was told
to the broker, the rules or the bus is told by a task of its own, later, from
what it finds then. A subscription is asked for in one session and answered in
the next. A CAN frame belongs to the driver until an interrupt gives it back,
and the bus may fail in between.

**What makes each part correct.** The driver's byte is changed by whole
requests and the relays hold what is reported. No input level is lost for
good, and no rule acts on a level that a reported change has replaced. A Modbus
master reads back what it wrote. An answer goes to the connection and the
request it answers, and no client's silence costs another its place. A press
and a timeout belong to one flow, and memory, flash and verifier agree on one
password. Services run once, as long as there is a network and no longer. A pad
runs what is reported of it; a request that is refused has moved nothing. The
newest command is what the LED shows and the buzzer sounds. What was last told
of an input, a pad or an output is how it is. Everyone who waits for the RS-485
segment gets it and his own answer. Every board on the bus ends up with an address
of its own, and the broker with the subscriptions the firmware and the rules want.
What was saved is what the next start finds, and no two outputs share a topic.

## 2. Modules

`<Name>_bug` next to a definition `<Name>` is a deliberately wrong variant; no
specification uses it. It documents which mistake the property named in
`PROJECT.json` would notice. Variables and constants called *history* or
*bound* in their declarations have no counterpart in the program.

**RuleEvents** — the way of inputs and timers into the rule engine. The two
tasks that report inputs (`di_task`, and the MQTT task after a connect) are
`rep[t]`; `evt_send()` with its number and queue is one critical section in the
code and one step here; what follows a refusal is a step of its own
(`MarkLost`, `TimerDefer`). The engine's loop is `pc`: take the lost channels,
re-read each (mark first, then level), run deferred timers, receive one event.
A `heldFor()` rule per channel stands for the script, because the order
between inputs and timers is what it depends on. The debounce is inside
`ScanBegin`. The rules' time budget may cut a call short before the level is
recorded: a resync is then offered again (`ResyncAbort`), an event is not
(`InputCutShort`), and the history variable `cut` has the channels whose last
event went that way. The limit of the timer table is left out.

**AtomicOutputs** is what the output driver promises: a request happens whole
or not at all. **Outputs** is the driver: `call[c]` is a task inside
`dout_modify()` or `dout_publish_all()`, waiting for the lock, transferring, or
marking what to publish after the lock is free. Request and payload parsing is
left out; sets stand for masks. The lock is held across the transfer, which
ends well or not (both tries failed). The publish task takes all dirty
outputs, then reads and sends them one by one. `SaveConfig` is the web
handler's change of an invert setting, followed by the re-apply.
**ModbusCoils** extends it with `local_write_coils()` (one locked section, one
step), `local_read_coils()` (the live read, then the counts, with the lock held:
two steps) and the command task, which is one of the driver's callers.

**Auth** — each function under `s_tok_lock` is one step. Callbacks that
`esp_timer` has taken but not yet run (`due`) survive a stop. Time is one value:
the current arming's deadline lies ahead or has passed. The history variable
`time` has the flow and the state the timeout was armed for, and for which it ran out
last. The button task's read,
clear and call of the callback are three steps, as there is no lock. A stored
password is flash, memory and fast verifier, in this order.

**TcpServer** — a slot (`s_conn[i]`), the worker that owns it, and the poller's
pass: sets, `select()`, sweep, accept, flush, pump. An item in a client's
socket is the first bytes of a frame, its rest, or a whole one. Where the code
serves all ready slots in a loop, each slot is a step, in the code's order.

**Network** — the event loop's queue, the station monitor, `on_network_ready()`
under its mutex with the look and the start of each service as two steps, and
`on_ip_lost()` without it. The AP, and what the LED shows at a level, are left
out.

**PollTable** — the Modbus master's table from the saved configuration through
the staged copy to the rows, and the polling task's round: the kept connection
or a new one within `ConnCache`, the address from the cache or from DNS, one
request, the wait for its answer, the one retry that a stale connection is
allowed. `Save`, `NetStarts` and the reload are other tasks and meet the
polling task in `s_start_mux` and `s_mux`. Intervals, backoffs and the ages in
the caches are not numbers: a row, a name or a connection whose time has come
is raised by an action of its own. A value is known by the row and the request
it answers, so that an answer to something else can be told. A device may hang
up, hang, restart elsewhere, answer twice or answer with a foreign frame. A
table read while the web server writes it may mix rows of two saves; a row is
taken whole.

**RuleReload** — from `POST /api/rules` to the next boot. `http` is the web
server's task, `engine` is where the rule engine's task stands in a reload.
Scripts are numbers; what matters of them is which timers and promise jobs they
leave in what all scripts share. Reading the verdict and giving up the wait are
one action, as the handler may stop at any time. `Store` has three outcomes:
written, not written, and written but reported as failed, because an error in
erasing the old format's key comes after the write. Script code arms and clears
timers of its own only.

**AuxPads** — the header pads. A change under `s_mux` that only calls the GPIO
driver is one step; a PWM write and the apply of a saved configuration go pad by
pad, with the driver failing in between and the undo that follows (`op` is the
task inside). The pad task (`padTask`) exchanges the dirty mask, publishes from
snapshots, and samples the analog pad for MQTT and the rules, who may refuse.
**ModbusPads** extends it with the requests that reach pads: plan and check, room
in the queue, the driver, the queue and the registers' shadow, all with
`s_cmd_mux` held.

**Peripherals** puts five parts that share no state side by side, so that one run
checks them; in a behaviour the surroundings act on one of them.
- **Inputs** — `di_task` and the MQTT task as senders: the level is read and given to
  the rules under `s_mux`, told to MQTT after it and looked at again up to four
  times. Pads join and leave, sessions come and go.
- **Led** — IO mode: instant colours, the queued sequence with its wake, and
  `run_sequence()` step by step. Status mode: a call is the list of its steps
  (flags, level, refresh), as `s_mux` covers one of them only; portal blink,
  flash and press request write the strip besides.
- **Buzzer** — the queue of one and the task that plays from it.
- **CanServer** — the worker's pass as a list of steps, the frame slots and the
  driver's interrupt, bus-off and recovery. **AddressClaim** — the claim of an
  NMEA 2000 address between several boards, each claim on its way for a while.
- **Gateway** — the segment's mutex, which goes to the waiter of the highest
  priority. Time is counted in transactions: `behind[t]` is how many the waiter has
  seen pass, and `GW_QUEUE_AHEAD` how many it waits for.

**MqttSession** — the client's task, the API lock and the outbox of the MQTT
library as far as QoS 1 needs them, the owners' table, the connect handler and the
health task of `app_mqtt.c`, and the broker as one record that reads at once: what
differs is whether an acknowledgement is seen in time. A publish has the library's four
ways: written, kept in the outbox without a connection, refused for want of memory, or
failed in the write, which gives the connection up. Inside the connect handler that runs
the disconnect handler first and then goes on (`Breaks`, `mqtt.at` = "broken").
**RuleTopics** extends it with the topics the rules read: the engine's reloads and
retries against the client's task, which works on a copy of the list, and with what the
rules are told of the connection; a connection is given up there (`GivenUp`) by the
client's task, by the health task's write, or because it cannot be made. **ConfigStore** — flash as a record of
keys written one after the other, each of which may fail, with power cuts in
between; loading with its defaults and migrations; the request's checks.
**Services** puts the last two side by side.

`MC*` modules name the instance for TLC. In the newer ones a *scenario* is chosen at
the start: which kinds of events meet in this behaviour, and how many. A hazard is a
meeting of two or three kinds; all kinds at once multiply states and show
nothing else. The scenarios are constants, and what is proved holds for all of them.

## 3. What is checked

| Run | Instance | Checks |
|---|---|---|
| `rule_events` | 1 channel, queue 2, ring 2 (one usable: full with one timer), 2 edges, a connect, 2 other events, 2 calls cut short | `NoLevelLostUnlessCut`, `LostOnlyToCleared`, `HeldUnlessMissed`, `TimersInOrder`, `Settles` |
| `outputs` | 2 tasks, 2 outputs, 2 requests, 2 failing transfers, a session, a save | `OneAtATime` (implements AtomicOutputs), `RelaysAsReported`, `PublishedSettles` |
| `modbus_coils` | 2 clients, command queue 2, 3 writes, another switching task, a failing transfer | `CoilInv`, `AcceptedIsRun` |
| `modbus_pads` | 2 pads, 2 frequencies of different resolution, 2 clients, queue 2, 3 configurations, a failing driver call; 3 requests, or 2 events of each pair of kinds | `PadInv`, `RefusedMovesNothing`, `PwmWhole`, `TellsAll` |
| `auth` | 3 flows, 2 presses, 2 passwords, a failure, a power cut, an old blob | `LedGivenBack`, `ListensUnlessRaced`, `OnePassword`, `KeepsItsTime`, `EveryFlowEnds` |
| `tcp_server` | 2 slots, 3 clients (one may stop reading), 1 worker and a queue of 1, 2 items | `Inv`, `SlotsAreKept`, `ClientsAreServed` |
| `network` | 8 changes of the links and the broker | `OneStart`, `LinksAreSeen` |
| `poll_table` | 3 tables of two rows for 2 devices, a cache of 1 connection, 1 start, 1 fault besides any number of hang-ups of idle connections | `OwnAnswer`, `Inv`, `RowsAreRead`, `TableSettles` |
| `rule_reload` | 3 uploads, 2 timer slots, queue 1, 1 promise job, 2 acts of script code, a power cut | `KeptAsTold`, `OnlyOwnTimers` |
| `peripherals` | LED: 2 colours, 3 commands or 5 reports; buzzer: 3 commands; an isolated input and a pad; CAN: 3 slots, both protocols; 3 boards, two of equal NAME; 2 workers and the poll task | `NewestWins`, `ToldTheLevel`, `FramesIntact`, `SegmentIsShared`, `DriversSettle`, `BusSettles` |
| `services` | 2 firmware and 2 rule topics, one of both; a table with room for 0, 1 or 4; a connection lost or not made, with a reload or a refusal and a reload; 2 or 3 reloads with a refusal or a late acknowledgement. 3 outputs, 6 names, new and old boards, 2 saves, 2 faults | `TopicsDistinct`, `SavedIsKept`, `FwHeldUnlessRaced`, `SessionSettles` |
| `config_default` | a new board | the first finding below |

Several properties are conjunctions of named parts, stated and explained where they
are defined: `CoilInv` is `TypeOK`, `ReadsOwnWrite` and `CoilsSettle`; TcpServer's
`Inv` adds `AnswersInOrder` to its types, PollTable's adds `SocketBudget`;
`SlotsAreKept` is `SlotIsWorkers` and `OwedIsKept`; `ClientsAreServed` is
`EveryRequestAnswered` and `SlotsComeBack`; `LinksAreSeen` is `StationIsKnown` and
`LossIsSeen`; `RowsAreRead` is `NoTurnLost` and `ReadingsSettle`; `PadInv` is the types,
`RunsAsReported` and `ShadowIsLast`; `TellsAll` is `PadsSettle` and `RulesSettle`;
`NewestWins` is `InstantStays`, `WokenByNewer` and `ToneIsNewest`; `ToldTheLevel` is
`EngineHasState` and `LastMessage`; `SegmentIsShared` is `RepliesAreOwn` and
`WorkersGetATurn`; `DriversSettle`, `BusSettles` and `SessionSettles` are `LedSettles`
and `InputsSettle`, `ReportsSettle` and `AddressesSettle`, `TopicsSettle`,
`HealthSettles` and `UpSettles`; RuleEvents' `Settles` is its own `InputsSettle` and
`TimersConclude`. `KeepsItsTime` is about every step that changes the state of a flow
that waits or is ready: the press it waited for, its own token used, a restart, or the
time armed for this flow in this state, run out.

Deadlock is not checked where the bounds let the system come to rest;
`rule_events` never rests. Where a property names an exception (a history
variable such as `raced`, `cut`, `unsynced`, `gaveUp`, `missed`, `overtaken`, `lost`,
`unseen`, `excused`), the code has the behaviour, and section 5 or the comment
there says when.

**Why the bounds are enough.** What can go wrong takes two parties and one
shared place, so two of each is the smallest interesting number, and the
queues are as short as they can be while still holding two entries: one full, one
about to be. A third client is needed to take another's slot; a third flow to
let a callback of the first meet the second while its own is due; a third coil
write to have one running and the queue full behind it; a third upload to meet
the late verdict of the first while the second waits. Two frequencies of different
resolution make a change of one pad move what the other runs, and with one failing
call the undo is met at every point. Three boards, two of them equal, are the least
in which settling one clash makes another; three CAN slots are a queue of two and the
frame in flight. Two workers can pass the poll task between them. A table with
room for no, one or all filters is empty, full in the middle, or never full; one
topic that the firmware and the rules share is what `owners` is there for. Three
outputs are the least in which settling one name can clash with another that was
settled. One connection for two devices makes every change of device evict, and one fault at a time is what the
retry is written for. Two edges bring an input
back to where it was, which a lost change must not hide. A ring with one usable slot is
full whenever a timer is deferred, so that a second one meets it full: a re-armed one
and the id of the cleared one before it are enough for the loss that section 5 tells. Raising a bound raises
counts, not kinds of step: in each run every action happens, including the full
queue, the failing transfer and the late callback.

## 4. Fairness

Tasks are scheduled: weak fairness of each task's steps, as FreeRTOS runs every
ready task in the end and no modelled task spins. Timers fire. A transfer, a tone,
a step of a sequence and a segment transaction end (they have timeouts in the
drivers). Strong fairness is used in four places: `FinishCommand` waits for a
FreeRTOS mutex that readers take again and again, and a mutex is given to its
waiters in turn; `TimeoutDue` waits for the esp_timer task between blinks, which
leave it 150 ms; `RowDue` and `NameDue` are looked for once per round of the polling
task, and an interval that has passed stays so until the round finds it;
`ClaimHolds` is 250 ms without a claim against the address, which a bus that stays up
grants in the end.

Nothing is assumed of clients, links, the broker, buttons or failures, with these
exceptions. `ReadingsSettle` says what the poller makes of devices that work, so in
`PollTable` a device that is up answers, one that hangs is back in the end, and so
is DNS, while an idle connection may be hung up at any moment and for ever.
`BusSettles` needs a bus: in `CanServer` a frame goes out, a shorted bus is mended, and a
node that was told to recover does (the TWAI driver's part). `LossIsSeen` needs
the TCP connection to the broker to end once no interface is left. In
`MqttSession` the client's task runs, which includes its own reconnecting and sending
again what was not acknowledged, and the health task's 60 s timer rings; that it has
nothing to do while the broker already has the message is a bound. What the broker
refuses, when the link breaks and how often a connection cannot be made is bounded by
the scenario.
`RuleReload` has no liveness property and no fairness, nor does `Gateway`: that
everyone gets his turn is a safety property there, as time is counted.

## 5. Findings

One is a run of the project; the others are properties of the modules that TLC
refutes when they are checked, with the configuration named.

- **`config_default`**: "Ethernet only" on a new board, or a first save cut short,
  creates the namespace in flash without the LED's key. At the next start the mode
  is read into a variable that is 0, `io`, although "status feedback on by
  default" (`app_config.c:46`, `:280`).
- `HeldOnFreshLevel`, `MCRuleEventsGap.cfg`: `scripting_on_input_change()` notes a
  refused change only after the queue has refused it. In between the engine may
  drain the queue and run a timer numbered after the change: a `heldFor()` rule
  fires on a level that is gone (`scripting.c:1593`). There are two more ways to it,
  a resync and an event cut short (the next finding); that these three are all is
  what `HeldUnlessMissed` says, and proved.
- `NoLevelLost`, `MCRuleEventsCut.cfg`: `_on_input()` tries the rules that wait for a
  place in the timer table before it records the level (`dsl.js:957-961`, `:124-131`), and
  that evaluates conditions of the user's (`dsl.js:1106-1120`). The time budget may
  interrupt there (`dsl.js:1012` knows the case), `call2()` logs it
  (`scripting.c:430-449`), and the event is not offered again, as the resync is
  (`scripting.c:660-669`). The engine keeps the level before until the next edge or
  connect, although "no condition is left believing a level the input no longer has"
  (`scripting.c:638-639`). `NoLevelLostUnlessCut` says that nothing else does this.
- `TimerNotLost` as INVARIANT in MCRuleEvents.cfg: a cleared timer's id stays in the
  overflow ring, so `MAX_TIMERS + 1` slots are not enough; a re-armed timer can be lost
  (`scripting.c:227`). The run `rule_events` has the code's size for `MAX_TIMERS` = 1
  and meets it. That only ids of cleared timers can do this is what
  `LostOnlyToCleared` says, and proved.
- `NextPressCounts`, `MCAuthPress.cfg`: the button task reads and clears the callback
  without a lock; a flow begun in between waits for a press nobody listens to
  (`button.c:63`).
- `ServedWhileUp`, `MCNetworkServed.cfg`: `on_ip_lost()` looks at both interfaces
  without the mutex. A station announced while Ethernet's loss is being handled
  keeps its address and loses its web server (`main.c:284`).
- `AnalogTold` in MCModbusPads.cfg with `MCAnalogScenarios` for `Scenarios`: IO1 leaves analog and comes back while the broker's
  session changes, and the pad task looks only afterwards. It still believes what
  it told the session before, and the new one hears no reading until the input has
  moved by a step (`aux_io.c:691`).
- `LastMessageAlways` in MCPeripherals.cfg instead of its properties:
  `notify_ext()` gives up after four looks, with its last message out of date
  (`di.c:103-121`; the comment at `di.c:91` says otherwise). The next edge or session
  repairs it.
- `PollGetsATurn`, the same way: the poll task has the lowest priority at the segment's
  mutex, and workers that come back pass it until its wait is over
  (`mb_gateway.c:161`).
- `InputsReported`, the same way: an input that changes twice while its report is
  being taken is back where `last_di` had it, and nothing more is sent
  (`can_server.c:611-655`).
- `NodeComesBack`, the same way: the node recovers and is off the bus again
  between two looks of the worker; the latch says a recovery is under way, and no
  other is started (`can_server.c:582-596`).
- `FwHeld` in MCServices.cfg: the rules give up a topic while a connection is
  made. The owners' table is empty then, so the rules' unsubscribe finds no other
  holder and may reach the broker after a module's subscribe (`app_mqtt.c:102`).
- `EveryTopicSettles` in MCServices.cfg instead of `SessionSettles`: an UNSUBSCRIBE whose
  acknowledgement is late is sent again (`mqtt_client.c:1771`), and the topic may be
  wanted once more by then; or the engine records the result of a subscribe after
  another session began (`scripting.c:981-996`), in whose own try it was refused. The
  list says "ok" and the broker has nothing, until the next session. `SessionSettles`
  leaves these topics out (`excused`) and needs each of the two.
- `UpMeansConnected` in MCServices.cfg, as INVARIANT: a write that fails in the connect
  handler runs the disconnect handler inside it (`mqtt_client.c:2230-2232`), and the
  connect handler goes on and tells the rules "up" (`main.c:174`) after "down". They
  hear "down" again when the next connection cannot be made, or are right again when
  it can; `UpSettles` is what remains.

Met while proving `FwHeldUnlessRaced`, and the reason for its theorem's hypothesis: in
an owners' table too small for all filters a module's filter may find no room
while a retry of the rules holds an entry. When the rules give that topic up,
they are its only known owner, and it is unsubscribed under the module's feet:
`subs_remove()` looks at `s_subs_full` only for a filter it does not know at all
(`app_mqtt.c:89-105`). With `SUBS_MAX` = 64 (`app_mqtt.c:52`) the rules' 33 and the
modules' filters fit, so the firmware does not reach it.

Seen in ConfigStore and allowed for by its properties: a save cut short between
the inputs' key and the pads' makes the pads inputs at the next start, as the
eleven-entry table is taken for an older firmware's (`app_config.c:283-292`).

Seen while modelling RuleReload and part of its model, where `OnlyOwnTimers`
makes room for it (the history variable `strays`): promise jobs belong to the
runtime and not to a context. A job a refused script queued runs after the
refusal (`scripting.c:1306-1323`, then the drain at the end of the switch) and
can arm a timer that nothing releases. A job of the replaced script still
queued at the handover runs at `scripting.c:1325`, before the old timers are
cleared by the slots they had: what it arms in another slot stays, and a slot it
frees for the new script is cleared with the old ones. Also in the model: when
only the erasing of the old key fails (`web_server.c:859`), the upload is
answered "not stored" and is what the next boot loads.

## 6. What is proved

All proofs are for every value of the constants that satisfies the module's
named assumption (sizes are positive, sets are what they are declared to be);
one theorem has a hypothesis of its own, `FirmwareKeepsItsFilters` (`RoomForAll`), and
one property has the overflow ring's size in it (`LostOnlyToCleared`: more slots than
timers a rule can wait for, as in the code).

- **RuleEvents_proofs**: `TypeCorrect`, `QueueOrdered`, `TimersRunInOrder`. Numbers
  are handed out in the critical section that queues, so the queue is sorted; a
  timer leaves the ring only when the queue's head is later, so with a sorted
  queue everything left is later than what ran. `NoInputForgotten`: `LevelInv` takes
  the queue as a set in number order: the last of a channel's queued events has its
  level, or the engine has it when none is queued, unless a report is under way,
  the channel is to be resynced, or its last event was cut short. `HeldOnKnownLevel`: each
  report a timer looks back at is known to the engine, on its way in the queue, to be
  resynced, refused and not yet marked, or was cut short (`ReportInv`).
  `LosesOnlyToCleared` says what is true of the overflow ring instead of "never full"
  (see the findings): an id is in the ring once, and not also running or with the
  callback (`OnceInv`), and belongs to one channel (`TableInv`, `IdsInv`). So as long as
  every id in the ring is still waited for, the ring holds fewer ids than there are
  channels when one more is deferred, and has room for it.
- **ModbusCoils_proofs**, the driver: `TypeCorrect`, `LockHolds`, `ImplementsAtomic`,
  `RelaysHold`.
  `OneAtATime` is not inductive: that a finished transfer is the caller's
  whole request on the *current* `s_port` needs to know that nobody else moved
  `s_port` since the caller read `s_state`. `LockInv` says so: with the lock free
  `s_state = s_port`; with it taken, its holder alone is transferring and
  `s_state` is `s_port` with that holder's request. The refinement then maps each
  step to a request, an answer or a stutter. `RelayInv` adds the expander: what is
  being sent is what `s_state` means under the invert settings, except between a
  save and the re-apply that follows it.
- **ModbusCoils_proofs**, the coils: `ReadsBackWrites`, on top of the driver's. A coil's
  register agrees with its relay only when nothing is owed to it, so the invariant
  follows each acknowledged value on its way: the pending count is the writes queued
  plus the one that runs (`CoilCounts`); the register, the last queued write, else
  the one that runs, else the relay carry that value (`CoilOrder`); and between
  `dout_modify()` and the decrement the relay already has it (`CoilRan`). A coil
  somebody else switched, or whose transfer failed, promises nothing. Sums over the
  queue are cardinalities of sets of positions, shifted by `Tail` and extended by
  `Append` in lemmas of their own.
- **Auth_proofs**: `TypeCorrect`, `PasswordAgrees` (through `CredInv`, what holds
  between the two writes), `PressIsHeard` (through `ListenInv`, which also says
  what the button task has read), `LedComesBack`, and `FlowsKeepTheirTime`: while a flow
  waits or is ready the timeout is armed for it in that state, and a deadline that has
  passed is the one armed last (`ClockInv`). So a callback that finds the deadline
  passed acts for the flow it was armed for, however long it was on its way.
- **Peripherals_proofs**: `FramesStayIntact` and `EverybodyHasATurn`, each for the
  specification of its part. A slot the driver holds is marked busy from the claim
  to the interrupt, and the frame queued is the one in the slot. For the segment,
  the mutex orders its holder's exception with its answer (`GwHolds`); the line
  holds each task once (`GwLine`); and what a worker has seen pass plus the workers
  ahead of it are never more than all workers (`GwPatience`), because the poll task
  can be ahead of it only as the holder, whom the count includes.
  `EverybodyIsTold` (`InputsInv`): a pad that has
  joined or left and is not dealt with yet is one or the other (`PadsApart`), and while
  a session is on, an input's last message has its level or a sender is about to send
  another or to look again (`MessagesFollow`). `NewestCommandWins` (`LedInv`): while
  an older sequence still runs, the generation it was started with is not the
  newest, and the wake that ends its wait is on its way (`GenInv`, `WakeInv`).
  `PartsAreSafe` puts the parts side by side, as the run does.
- **Network_proofs**, the Modbus TCP server: `AnswersComeInOrder`, `SlotsStayWithTheirOwners`. `TcpInv`
  ties the slots, the job queue and the workers together: a slot that is busy is in
  the queue once and with no worker, or with one worker and not in the queue
  (`JobsOk`, `TasksOk`), and that worker's request is the last one read from the
  slot's connection; a slot's connection is nobody else's and not in the backlog
  (`SlotsOk`, `BacklogOk`); the requests read are one more than the answers given
  exactly while the slot is busy or sending (`AnswersOk`), and none of either before
  there is a slot (`FreshOk`). So an answer that is armed is the next one its
  connection expects, and a slot that may be closed or given away is one whose
  client is owed nothing or has not taken what it got. What the poller does to one
  slot is one lemma (`PollerMoves`), what closing does another (`SlotsClose`).
- **Network_proofs**, the interfaces: `TypeCorrect`, `StartsOnce`. Nobody is between
  the look and the start without the mutex (`MuxInv`), so the two are one step to
  the others.
- **Modbus_proofs**, the poll table: `OwnAnswers`, `SocketsBounded`. In the middle of a poll the
  task is at a row that names a host (`TaskOk`); it dials only for a host without a
  connection and with a place free; and the connection in use is the last one and the
  row's own (`ConnsOk`), so giving it up before a retry leaves no second one behind. The lemmas on
  `SubSeq`, `Tail` and `Append` say what taking a connection out, moving it to the
  end or adding one does to "no host twice".
- **Modbus_proofs**, the pads: `PadsDoAsReported`, `RefusalsMoveNothing`,
  `WritesAreWhole` (`PadsInv`). That a pad does what is reported of it holds in the
  middle of a write or a save too (`PadsAgree`); each pad of a write is as it was or as
  it is to be, and unless a driver call failed twice those done are the latter
  (`WriteTypes`, `WriteSoFar`), so an undo ends where the write began. A client past
  the check for room holds the mutex and has the queue to itself, and before its change
  it has moved nothing (`ClientsOk`), so the queue is never full when the command is put
  into it, and nobody is refused after a pad has moved. The
  register reads the last register command queued or, with none queued, the last
  carried out (`ShadowFollows`). What a driver call does to one pad is a lemma of its
  own for each way it can end (`EnterEnds` and its neighbours).
- **RuleReload_proofs**: `TypeCorrect`, `TimersAreOwned`, `KeepsItsWord`. That a
  verdict is one's own needs the order of tickets from the queue through the
  engine to the status (`TicketInv`), and that the published verdict agrees with
  what was ever in force (`VerdictInv`); a refused upload stays refused because it
  is nowhere under way any more (`RefusedInv`). Between loading and handover the
  slots marked in `was_used` may hold either script's timers, the others only the
  new one's (`TimerInv`).
- **Services_proofs**, flash: `OneTopicEach`, `SavesAreKept` (`ConfigInv`: what is live
  passes the request's checks and is what was saved; while a save is under way the
  keys written so far are the new configuration's, and the history variable `torn` is
  set until all are). Each round of
  `io_space_normalize()` that changes anything gives up a name, so after as many
  rounds as there are outputs nothing changes any more (`RoundsSettle`): the rounds are
  a recursive function, reasoned about by the least number that would be a
  counterexample. A settled and normalised configuration is what loading makes of
  its own keys (`SavedIsStarted`).
- **Services_proofs**, MQTT: `FirmwareKeepsItsFilters`, for a table with room for every
  filter in use, or without a broker. `SessionInv`: from its turn in the connect
  handler on, also when the connection breaks inside it, each of the firmware's filters
  has the firmware as an owner (`FwOwns`); so the rules never unsubscribe it, no such message is in the outbox
  (`NotGivenUp`), and the broker has it (`AtBroker`) until a session ends.

Only model-checked: everything under fairness (`Settles`, `PublishedSettles`,
`AcceptedIsRun`, `EveryFlowEnds`, `ClientsAreServed`, `LinksAreSeen`, `TableSettles`,
`ReadingsSettle`, `TellsAll`, `DriversSettle`, `BusSettles`, `SessionSettles`), which is
beyond the prover's backends.

Two of these proofs failed at first because the model was wrong, where TLC's
instances could not show it: the command task took every command equal to the first
out of the queue, where `xQueueReceive()` takes one (ModbusPads), and two cases of
loading a configuration overlapped (ConfigStore).

## 7. Not modelled, and the plan

| Next | Stands for | Properties |
|---|---|---|
| `Frames` | `mb_pdu.c`, `mb_ident.c` as functions | against reference definitions: what is refused, never longer than a frame |
| `Portal` | the portal's HTTP and DNS tasks of `wifi_config.c` with their stop flags | both end before the next start; credentials are whole |
| `Clock` | RTC, NTP and manual setting, the shared I2C bus | the newest source wins |
| pending states of the engine | `scripting.c`, time, broker, stored values told to a script loaded later | a new script hears each once |

Abstract specifications worth stating on the way: a connection as a sequence of
requests and answers, implemented by TcpServer; "the accepted script" as one
variable, which RuleReload would implement. Proofs to add: the same two
refinements, step by step.

Left out for good: the drivers and libraries (I2C, LEDC, TWAI, lwIP, the MQTT
client, the Modbus stack, QuickJS, Matter), which appear as what the firmware can
see of them; hashing, JSON and topic parsing, HTTP details, the web pages, the
simulator and the tools; the clock's drivers. What a user's script computes is
open, except for the rule in RuleEvents. Of MQTT, keep-alive, QoS 2 and TLS are
left out. The Matter firmware shares the board components and adds little but
calls into its SDK.
