------------------------------ MODULE CanServer ------------------------------
(***************************************************************************)
(* The CAN server (components/can/can_server.c): one worker takes received *)
(* frames, looks for bus-off and reports inputs and outputs on change; a   *)
(* frame stays in its slot until the driver says it is done.  The claim of *)
(* an NMEA 2000 address is AddressClaim's.                                 *)
(*                                                                         *)
(* The worker's pass is a list of steps, for inputs, outputs and the bus   *)
(* move between any two of them.  Inputs and outputs are one value each.   *)
(* The TWAI driver is external: a queue of slots, sent in order.  A fast   *)
(* packet, the LED and buzzer commands and the encodings are left out.     *)
(***************************************************************************)
EXTENDS Integers, SequencesExt, FiniteSets

CONSTANTS
    Slots,           \* TX_SLOTS
    Values,          \* states of the inputs, and of the outputs
    NoValue,         \* nothing reported yet
    RxDepth,         \* RX_QUEUE_DEPTH
    CanScenarios     \* bound: [mode, kinds, max], can.mode, which events may
                     \* happen in one behaviour and how many of them together

CanEvents == {"hb", "period", "input", "output", "request", "write", "fault"}
QueueDepth == Cardinality(Slots) - 1      \* TX_QUEUE_DEPTH; one more is in flight

ASSUME CanAssumption ==
    /\ Slots \subseteq Nat /\ IsFiniteSet(Slots) /\ Slots # {} /\ 0 \in Values /\ NoValue \notin Values /\ RxDepth \in Nat
    /\ CanScenarios \subseteq [mode : {"off", "basic", "n2k"}, kinds : SUBSET CanEvents, max : Nat]

VARIABLES
    din, dout,        \* environment: di_get() of all inputs, dout_get_all()
    lastDi, lastDo,   \* last_di and s_last_do, NoValue before di_sent and s_do_sent
    slot,             \* s_tx: NoFrame or the frame in it
    driver,           \* external: slots taken, in order, with the frame as it was then
    node,             \* external: "active", "off", "recovering"
    latch,            \* recovering in can_check_bus_off()
    rx,               \* s_rx_q
    worker,           \* steps to come, the inputs it has read, whether a report is due
    ready,            \* s_ac_state is AC_ACTIVE, or basic mode
    bus,              \* environment: what the bus has heard last
    fault,            \* environment: the bus is shorted
    lost,             \* history: reports that went with a bus-off
    unnoted,          \* history: the newest input report is not the one in last_di
    unseen,           \* history: the node has come back and can_check_bus_off() has not seen it
    canUsed           \* environment: the scenario and the events so far

ioState == <<din, dout>>
lasts == <<lastDi, lastDo, unnoted>>
tx == <<slot, driver>>
nodeState == <<node, latch, unseen, fault>>
canVars == <<ioState, lasts, tx, nodeState, rx, worker, ready, bus, lost, canUsed>>

Mode == canUsed.scenario.mode
NoFrame == [kind |-> "none", val |-> NoValue]
Rest == [todo |-> <<>>, di |-> NoValue, due |-> FALSE]

CanInit ==
    /\ \E s \in CanScenarios : canUsed = [events |-> 0, scenario |-> s] /\ ready = (s.mode = "basic")
    /\ din = 0 /\ dout = 0 /\ lastDi = NoValue /\ lastDo = NoValue
    /\ slot = [s \in Slots |-> NoFrame] /\ driver = <<>>
    /\ node = "active" /\ latch = FALSE /\ unseen = FALSE /\ fault = FALSE
    /\ rx = <<>> /\ worker = Rest /\ bus = [di |-> NoValue, do |-> NoValue]
    /\ lost = {} /\ unnoted = FALSE

CanEvent(k) ==
    /\ k \in canUsed.scenario.kinds /\ canUsed.events < canUsed.scenario.max
    /\ canUsed' = [canUsed EXCEPT !.events = @ + 1]

-----------------------------------------------------------------------------
(* Sending a frame *)

Free == {s \in Slots : slot[s] = NoFrame}
FirstFree == CHOOSE s \in Free : \A x \in Free : s <= x

Claim_bug ==      \* only the frame in flight is left alone
    CHOOSE s \in Slots : driver = <<>> \/ s # Head(driver).slot
\* tx_claim(): never a slot whose frame the driver still has
Claim == FirstFree

\* twai_node_transmit(): refused in bus-off and, after its wait, with the queue full.
Takes == Free # {} /\ node = "active" /\ Len(driver) <= QueueDepth

Puts(f) ==
    /\ slot' = [slot EXCEPT ![Claim] = f]
    /\ driver' = Append(driver, [slot |-> Claim, frame |-> f])

\* basic_send(), n2k_send_frame(): a frame not taken gives its slot back.
Sends(f) == IF Takes THEN Puts(f) ELSE UNCHANGED tx

\* tx_done_cb() of the frame in flight
Done ==
    LET e == Head(driver)
    IN  driver' = Tail(driver) /\ slot' = [slot EXCEPT ![e.slot] = NoFrame]

FrameDone ==
    /\ driver # <<>> /\ node = "active" /\ ~fault /\ Done
    /\ LET f == slot[Head(driver).slot]
       IN  /\ bus' = IF f.kind = "hb" THEN bus ELSE [bus EXCEPT ![f.kind] = f.val]
           /\ lost' = lost \ {f.kind}
    /\ UNCHANGED <<ioState, lasts, nodeState, rx, worker, ready, canUsed>>

-----------------------------------------------------------------------------
(* The worker *)

Is(s) == worker.todo # <<>> /\ Head(worker.todo) = s
Advance == worker' = [worker EXCEPT !.todo = Tail(@)]
Answer(m) ==
    IF m = "write" THEN <<"write", "do">>
    ELSE IF Mode = "basic" THEN <<"answerHb", "answerDi", "do">> ELSE <<"answerDi", "do">>
TickSteps == <<"check", "read", "hb", "di", "outputs">>

\* A received frame, or the time is up; basic_handle_rx(), n2k_handle_rx()
Wake ==
    /\ Mode # "off" /\ worker.todo = <<>>
    /\ IF rx # <<>>
       THEN /\ worker' = [Rest EXCEPT !.todo = (IF ready THEN Answer(Head(rx)) ELSE <<>>) \o TickSteps]
            /\ rx' = Tail(rx)
       ELSE worker' = [Rest EXCEPT !.todo = TickSteps] /\ rx' = rx
    /\ UNCHANGED <<ioState, lasts, tx, nodeState, ready, bus, lost, canUsed>>

\* A write command: dout_modify()
WriteOutputs ==
    /\ Is("write") /\ Advance /\ dout' \in Values
    /\ UNCHANGED <<din, lasts, tx, nodeState, rx, ready, bus, lost, canUsed>>

\* A heartbeat, as an answer or when its time has come
AnswerHb ==
    /\ Is("answerHb") /\ Advance /\ Sends([kind |-> "hb", val |-> NoValue])
    /\ UNCHANGED <<ioState, lasts, nodeState, rx, ready, bus, lost, canUsed>>

TickHb ==
    /\ Is("hb") /\ Advance
    /\ \/ ready /\ CanEvent("hb") /\ Sends([kind |-> "hb", val |-> NoValue])
       \/ UNCHANGED <<tx, canUsed>>
    /\ UNCHANGED <<ioState, lasts, nodeState, rx, ready, bus, lost>>

\* A report of the inputs read as v; the worker notes what it has sent as noted.
TellsDi(v, noted) ==
    /\ Sends([kind |-> "di", val |-> v])
    /\ lastDi' = (IF Takes THEN noted ELSE lastDi)
    /\ unnoted' = (IF Takes THEN v # noted ELSE unnoted)

AnswerDi ==      \* the answer to a request leaves last_di alone
    /\ Is("answerDi") /\ Advance /\ TellsDi(din, lastDi)
    /\ UNCHANGED <<ioState, lastDo, nodeState, rx, ready, bus, lost, canUsed>>

\* basic_tx_do(), n2k_tx_do_bank(): s_last_do only once the frame is taken
TxDo ==
    /\ Sends([kind |-> "do", val |-> dout])
    /\ lastDo' = IF Takes THEN dout ELSE lastDo

AnswerDo ==
    /\ Is("do") /\ Advance /\ TxDo
    /\ UNCHANGED <<ioState, lastDi, unnoted, nodeState, rx, ready, bus, lost, canUsed>>

\* can_check_bus_off()
Check ==
    /\ Is("check") /\ Advance
    /\ IF node = "active" THEN latch' = FALSE /\ UNCHANGED node
       ELSE IF latch THEN UNCHANGED <<latch, node>>
       ELSE latch' = TRUE /\ node' = "recovering"
    /\ unseen' = (unseen /\ node # "active")
    /\ UNCHANGED <<ioState, lasts, tx, fault, rx, ready, bus, lost, canUsed>>

\* can_tick() reads the inputs; a periodic report may be due.
TickReads ==
    /\ Is("read")
    /\ \/ worker' = [worker EXCEPT !.todo = Tail(@), !.di = din] /\ UNCHANGED canUsed
       \/ CanEvent("period") /\ worker' = [worker EXCEPT !.todo = Tail(@), !.di = din, !.due = TRUE]
    /\ UNCHANGED <<ioState, lasts, tx, nodeState, rx, ready, bus, lost>>

\* An address that was not contested for 250 ms is ours, and all is reported.
ClaimHolds ==
    /\ Is("hb") /\ ~ready /\ ready' = TRUE
    /\ worker' = [worker EXCEPT !.todo = <<"answerHb", "first", "do">> \o Tail(@), !.due = FALSE]
    /\ UNCHANGED <<ioState, lasts, tx, nodeState, rx, bus, lost, canUsed>>

\* NMEA 2000 reads the inputs again for the frame, basic mode sends what was read.
Sampled == IF Mode = "n2k" THEN din ELSE worker.di
TickDi_bug ==      \* noted whether or not the frame was taken
    /\ Is("di") \/ Is("first")
    /\ Advance
    /\ IF ready /\ (Is("first") \/ worker.di # lastDi \/ worker.due)
       THEN Sends([kind |-> "di", val |-> Sampled]) /\ lastDi' = worker.di /\ unnoted' = (Sampled # worker.di)
       ELSE UNCHANGED <<tx, lastDi, unnoted>>
    /\ UNCHANGED <<ioState, lastDo, nodeState, rx, ready, bus, lost, canUsed>>
TickDi ==
    /\ Is("di") \/ Is("first")
    /\ Advance
    /\ IF ready /\ (Is("first") \/ worker.di # lastDi \/ worker.due)
       THEN TellsDi(Sampled, worker.di)
       ELSE UNCHANGED <<tx, lastDi, unnoted>>
    /\ UNCHANGED <<ioState, lastDo, nodeState, rx, ready, bus, lost, canUsed>>

TickDo ==
    /\ Is("outputs") /\ Advance
    /\ IF ready /\ (dout # lastDo \/ worker.due) THEN TxDo ELSE UNCHANGED <<tx, lastDo>>
    /\ UNCHANGED <<ioState, lastDi, unnoted, nodeState, rx, ready, bus, lost, canUsed>>

Worker ==
    \/ Wake \/ WriteOutputs \/ AnswerHb \/ TickHb \/ AnswerDi \/ AnswerDo
    \/ Check \/ TickReads \/ ClaimHolds \/ TickDi \/ TickDo

-----------------------------------------------------------------------------
(* The rest of the board and the bus *)

InputMoves ==
    /\ CanEvent("input") /\ din' \in Values \ {din}
    /\ UNCHANGED <<dout, lasts, tx, nodeState, rx, worker, ready, bus, lost>>

OutputSwitched ==     \* over Modbus, MQTT, a rule or the web page
    /\ CanEvent("output") /\ dout' \in Values \ {dout}
    /\ UNCHANGED <<din, lasts, tx, nodeState, rx, worker, ready, bus, lost>>

\* rx_done_cb(): with the queue full the frame is gone.
FrameComes(m) ==
    /\ CanEvent(m) /\ node = "active" /\ ~fault
    /\ rx' = IF Len(rx) < RxDepth THEN Append(rx, m) ELSE rx
    /\ UNCHANGED <<ioState, lasts, tx, nodeState, worker, ready, bus, lost>>

Shorted ==
    /\ ~fault /\ CanEvent("fault") /\ fault' = TRUE
    /\ UNCHANGED <<ioState, lasts, tx, node, latch, unseen, rx, worker, ready, bus, lost>>

Mended ==
    /\ fault /\ fault' = FALSE
    /\ UNCHANGED <<ioState, lasts, tx, node, latch, unseen, rx, worker, ready, bus, lost, canUsed>>

\* Retransmissions drive the node into bus-off; the frame in flight is dropped or
\* kept, those behind it stay queued.
BusOff ==
    /\ fault /\ node = "active" /\ driver # <<>> /\ node' = "off"
    /\ \/ UNCHANGED <<tx, lost>>
       \/ Done /\ lost' = lost \union {slot[Head(driver).slot].kind}
    /\ UNCHANGED <<ioState, lasts, latch, unseen, fault, rx, worker, ready, bus, canUsed>>

NodeRecovers ==
    /\ node = "recovering" /\ node' = "active" /\ unseen' = TRUE
    /\ UNCHANGED <<ioState, lasts, tx, latch, fault, rx, worker, ready, bus, lost, canUsed>>

CanNext ==
    \/ Worker \/ FrameDone
    \/ InputMoves \/ OutputSwitched \/ \E m \in {"request", "write"} : FrameComes(m)
    \/ Shorted \/ Mended \/ BusOff \/ NodeRecovers

CanTasks ==
    /\ WF_canVars(Worker) /\ SF_canVars(ClaimHolds)
    /\ WF_canVars(FrameDone) /\ WF_canVars(Mended) /\ WF_canVars(NodeRecovers)
CanSpec == CanInit /\ [][CanNext]_canVars /\ CanTasks

-----------------------------------------------------------------------------
(* Properties *)

\* A frame the driver still has is as it was handed over, and its slot is taken: no
\* later frame goes into it, whatever the bus does (the comment above TX_QUEUE_DEPTH).
FramesIntact ==
    \A i \in DOMAIN driver : slot[driver[i].slot] = driver[i].frame

\* When all is quiet and the bus is mended, the bus has heard the outputs and inputs as
\* they are; not so after a recovery the worker did not see, for a report lost with
\* a bus-off, or for inputs that were back where last_di had them.
Reported ==
    /\ bus.do = dout \/ "do" \in lost
    /\ bus.di = din \/ "di" \in lost \/ unnoted
ReportsSettle == <>[](Reported \/ Mode = "off" \/ (node = "off" /\ unseen))

\* "inputs and outputs sent on change" (the comment above can_tick()): inputs without
\* the last exception.
InputsReported == <>[](bus.di = din \/ Mode = "off" \/ "di" \in lost \/ (node = "off" /\ unseen))

\* The worker polls for bus-off and starts the recovery, or "CAN would be gone until
\* the next reboot" (the comment above can_check_bus_off()).
NodeComesBack == []<>(node = "active")
=============================================================================
