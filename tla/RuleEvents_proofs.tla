--------------------------- MODULE RuleEvents_proofs ---------------------------
(***************************************************************************)
(* Proofs about RuleEvents for any number of channels, any queue depth and *)
(* any size of the overflow ring: the typing, the order of the queue, that *)
(* no deferred timer overtakes a queued event, that no input's level is    *)
(* lost on its way to the engine but with an event that is cut short, that *)
(* a heldFor() timer fires on a level that has gone only there and where a *)
(* refused report was not yet marked, and when the overflow ring loses a   *)
(* timer.                                                                  *)
(***************************************************************************)
EXTENDS RuleEvents, FiniteSetTheorems, SequenceTheorems, WellFoundedInduction, TLAPS

-----------------------------------------------------------------------------
(* Typing.  *)

\* The channel a pass resyncs next is one of those it has to.
LEMMA FirstTodoIn ==
    ASSUME todo \subseteq Channels, todo # {}
    PROVE  FirstTodo \in todo
<1>1. todo \subseteq Nat
  BY RuleEventsAssumption DEF Channels
<1>2. PICK c \in todo : \A d \in todo : ~ (<<d, c>> \in OpToRel(<, Nat))
  BY <1>1, NatLessThanWellFounded, WFMin
<1>3. \A d \in todo : ~ (d < c)
  BY <1>1, <1>2 DEF OpToRel
<1>4. \A d \in todo : c <= d
  BY <1>1, <1>3
<1>5. QED
  BY <1>4 DEF FirstTodo

\* Channels are numbers, the first is 0.
LEMMA ChannelZero == 0 \in Channels /\ Channels \subseteq Nat
<1>1. NumDI \in Nat /\ NumDI - 1 >= 0
  BY RuleEventsAssumption
<1>2. QED
  BY <1>1 DEF Channels

LEMMA TypeInit == Init => TypeOK
<1> SUFFICES ASSUME Init PROVE TypeOK
  OBVIOUS
<1> USE ChannelZero DEF Init
<1>1. InputType
  BY DEF InputType, Idle
<1>2. QueueType
  BY DEF QueueType
<1>3. TimerType
  BY DEF TimerType, PosNat
<1>4. EngineType
  BY DEF EngineType, NoTimer
<1>5. HistType
  BY DEF HistType
<1>6. QED
  BY <1>1, <1>2, <1>3, <1>4, <1>5 DEF TypeOK

\* evt_send() keeps the types of the number and of the queue.
LEMMA EvtSendType ==
    ASSUME evtSeq \in Nat, queue \in Seq(Event),
           NEW e \in Event, e.seq = evtSeq + 1, EvtSend(e)
    PROVE  evtSeq' = evtSeq + 1 /\ evtSeq' \in Nat /\ queue' \in Seq(Event)
  BY AppendProperties DEF EvtSend

\* The next channel of a reporting task is a channel.
LEMMA NextChannelType ==
    ASSUME TypeOK, NEW t \in Tasks, NextChannel(t)
    PROVE  rep' \in [Tasks -> [at : {"idle", "read", "send", "drop"}, ch : Channels]]
<1>1. rep[t].ch + 1 < NumDI => rep[t].ch + 1 \in Channels
  BY RuleEventsAssumption DEF TypeOK, InputType, Channels
<1>2. QED
  BY <1>1, ChannelZero DEF TypeOK, InputType, NextChannel, Idle

LEMMA EdgeType ==
    ASSUME TypeOK, NEW c \in Channels, Edge(c) PROVE TypeOK'
<1> USE DEF TypeOK, Edge, vars, inputVars, queueVars, timerVars, ruleVars, histVars
<1>1. InputType'
  BY DEF InputType, Levels
<1>2. QueueType'
  BY DEF QueueType
<1>3. TimerType'
  BY DEF TimerType
<1>4. EngineType'
  BY DEF EngineType
<1>5. HistType'
  BY DEF HistType
<1>6. QED
  BY <1>1, <1>2, <1>3, <1>4, <1>5

LEMMA ScanBeginType ==
    ASSUME TypeOK, ScanBegin PROVE TypeOK'
<1> USE DEF TypeOK, ScanBegin, vars, inputVars, queueVars, timerVars, ruleVars, histVars
<1>1. InputType'
  BY ChannelZero DEF InputType
<1>2. QueueType'
  BY DEF QueueType
<1>3. TimerType'
  BY DEF TimerType
<1>4. EngineType'
  BY DEF EngineType
<1>5. HistType'
  BY DEF HistType
<1>6. QED
  BY <1>1, <1>2, <1>3, <1>4, <1>5

LEMMA PublishAllBeginType ==
    ASSUME TypeOK, PublishAllBegin PROVE TypeOK'
<1> USE DEF TypeOK, PublishAllBegin, vars, inputVars, queueVars, timerVars, ruleVars, histVars
<1>1. InputType'
  BY ChannelZero DEF InputType
<1>2. QueueType'
  BY DEF QueueType
<1>3. TimerType'
  BY DEF TimerType
<1>4. EngineType'
  BY DEF EngineType
<1>5. HistType'
  BY DEF HistType
<1>6. QED
  BY <1>1, <1>2, <1>3, <1>4, <1>5

LEMMA ReadPinType ==
    ASSUME TypeOK, NEW t \in Tasks, ReadPin(t) PROVE TypeOK'
<1> USE DEF TypeOK, ReadPin, vars, inputVars, queueVars, timerVars, ruleVars, histVars
<1>1. InputType'
  BY NextChannelType DEF InputType
<1>2. QueueType'
  BY DEF QueueType
<1>3. TimerType'
  BY DEF TimerType
<1>4. EngineType'
  BY DEF EngineType
<1>5. HistType'
  BY DEF HistType
<1>6. QED
  BY <1>1, <1>2, <1>3, <1>4, <1>5

LEMMA SendInputType ==
    ASSUME TypeOK, NEW t \in Tasks, SendInput(t) PROVE TypeOK'
<1> USE DEF TypeOK, SendInput, vars, inputVars, queueVars, timerVars, ruleVars, histVars
<1>1. InputType'
  BY NextChannelType DEF InputType
<1>2. QueueType'
  <2>1. rep[t].ch \in Channels /\ level[rep[t].ch] \in Levels
    BY DEF InputType
  <2>2. InputEvt(evtSeq + 1, rep[t].ch, level[rep[t].ch]) \in Event
    BY <2>1 DEF QueueType, Event, InputEvent, InputEvt, PosNat
  <2>3. EvtSend(InputEvt(evtSeq + 1, rep[t].ch, level[rep[t].ch]))
    BY DEF SendInput
  <2>4. InputEvt(evtSeq + 1, rep[t].ch, level[rep[t].ch]).seq = evtSeq + 1
    BY DEF InputEvt
  <2>5. QED
    BY <2>2, <2>3, <2>4, EvtSendType DEF QueueType
<1>3. TimerType'
  BY DEF TimerType
<1>4. EngineType'
  BY DEF EngineType
<1>5. HistType'
  <2>1. evtSeq + 1 \in Nat
    BY DEF QueueType
  <2>2. repNo' \in [Channels -> Nat]
    BY <2>1 DEF HistType
  <2>3. QED
    BY <2>2 DEF HistType
<1>6. QED
  BY <1>1, <1>2, <1>3, <1>4, <1>5

LEMMA MarkLostType ==
    ASSUME TypeOK, NEW t \in Tasks, MarkLost(t) PROVE TypeOK'
<1> USE DEF TypeOK, MarkLost, vars, inputVars, queueVars, timerVars, ruleVars, histVars
<1>1. InputType'
  BY NextChannelType DEF InputType
<1>2. QueueType'
  BY DEF QueueType, InputType
<1>3. TimerType'
  BY DEF TimerType
<1>4. EngineType'
  BY DEF EngineType
<1>5. HistType'
  BY DEF HistType
<1>6. QED
  BY <1>1, <1>2, <1>3, <1>4, <1>5

LEMMA SendOtherType ==
    ASSUME TypeOK, SendOther PROVE TypeOK'
<1> USE DEF TypeOK, SendOther, vars, inputVars, queueVars, timerVars, ruleVars, histVars
<1>1. InputType'
  BY DEF InputType
<1>2. QueueType'
  BY EvtSendType DEF QueueType, Event, OtherEvent, OtherEvt, PosNat
<1>3. TimerType'
  BY DEF TimerType
<1>4. EngineType'
  BY DEF EngineType
<1>5. HistType'
  BY DEF HistType
<1>6. QED
  BY <1>1, <1>2, <1>3, <1>4, <1>5

LEMMA TimerElapsesType ==
    ASSUME TypeOK, NEW s \in table, TimerElapses(s) PROVE TypeOK'
<1> USE DEF TypeOK, TimerElapses, vars, inputVars, queueVars, timerVars, ruleVars, histVars
<1>1. InputType'
  BY DEF InputType
<1>2. QueueType'
  BY DEF QueueType
<1>3. TimerType'
  BY DEF TimerType
<1>4. EngineType'
  BY DEF EngineType
<1>5. HistType'
  BY DEF HistType
<1>6. QED
  BY <1>1, <1>2, <1>3, <1>4, <1>5

LEMMA TimerPostType ==
    ASSUME TypeOK, TimerPost PROVE TypeOK'
<1> DEFINE e == TimerEvt(evtSeq + 1, cb.id, cb.ch, repNo[cb.ch])
<1>1. evtSeq \in Nat /\ queue \in Seq(Event) /\ evtSeq + 1 \in PosNat
  BY DEF TypeOK, QueueType, PosNat
<1>2. cb.id \in PosNat /\ cb.ch \in Channels
  BY DEF TypeOK, TimerType, TimerPost
<1>3. repNo[cb.ch] \in Nat
  BY <1>2 DEF TypeOK, HistType
<1>4. e \in TimerEvent /\ e.seq = evtSeq + 1
  BY <1>1, <1>2, <1>3 DEF TimerEvent, TimerEvt
<1>5. evtSeq' \in Nat /\ queue' \in Seq(Event)
  BY <1>1, <1>4, EvtSendType DEF TimerPost, Event
<1>6. QueueType'
  BY <1>5 DEF QueueType, TypeOK, TimerPost
<1>7. TimerType'
  BY <1>4 DEF TypeOK, TimerType, TimerPost, timerVars, AfterPost
<1>8. InputType' /\ EngineType' /\ HistType'
  BY DEF TypeOK, InputType, EngineType, HistType, TimerPost, inputVars, ruleVars, histVars
<1>9. QED
  BY <1>6, <1>7, <1>8 DEF TypeOK

LEMMA TimerDeferType ==
    ASSUME TypeOK, TimerDefer PROVE TypeOK'
<1> USE DEF TypeOK, TimerDefer, vars, inputVars, queueVars, timerVars, ruleVars, histVars
<1>1. InputType'
  BY DEF InputType
<1>2. QueueType'
  BY DEF QueueType
<1>3. TimerType'
  BY AppendProperties DEF TimerType
<1>4. EngineType'
  BY DEF EngineType
<1>5. HistType'
  BY DEF HistType
<1>6. QED
  BY <1>1, <1>2, <1>3, <1>4, <1>5

\* _on_input() keeps the types of the timer table and of the rules.
LEMMA OnInputType ==
    ASSUME TypeOK, NEW c \in Channels, NEW l \in Levels, OnInput(c, l)
    PROVE  /\ table' \subseteq [id : PosNat, ch : Channels]
           /\ running' \subseteq PosNat /\ nextId' \in PosNat
           /\ seen' \in [Channels -> Levels \cup {"unset"}]
           /\ timer' \in [Channels -> Nat] /\ fired' \in [Channels -> BOOLEAN]
<1>1. /\ table \subseteq [id : PosNat, ch : Channels]
      /\ running \subseteq PosNat /\ nextId \in PosNat /\ nextId + 1 \in PosNat
      /\ seen \in [Channels -> Levels \cup {"unset"}]
      /\ timer \in [Channels -> Nat] /\ fired \in [Channels -> BOOLEAN]
  BY DEF TypeOK, EngineType, TimerType, PosNat
<1>2. seen' \in [Channels -> Levels \cup {"unset"}]
  BY <1>1 DEF OnInput
<1>3. CASE l = "high" /\ timer[c] = NoTimer /\ ~fired[c]
  <2>1. /\ timer' = [timer EXCEPT ![c] = nextId] /\ fired' = fired
        /\ table' = table \cup {[id |-> nextId, ch |-> c]}
        /\ running' = running \cup {nextId} /\ nextId' = nextId + 1
    BY <1>3 DEF OnInput
  <2>2. timer' \in [Channels -> Nat]
    BY <1>1, <2>1 DEF PosNat
  <2>3. QED
    BY <1>1, <1>2, <2>1, <2>2
<1>4. CASE l = "high" /\ ~(timer[c] = NoTimer /\ ~fired[c])
  BY <1>1, <1>2, <1>4 DEF OnInput, timerVars
<1>5. CASE l # "high"
  <2>1. /\ table' \subseteq table /\ running' \subseteq running /\ nextId' = nextId
        /\ timer' = [timer EXCEPT ![c] = 0] /\ fired' = [fired EXCEPT ![c] = FALSE]
    BY <1>5 DEF OnInput, NoTimer
  <2>2. timer' \in [Channels -> Nat] /\ fired' \in [Channels -> BOOLEAN]
    BY <1>1, <2>1
  <2>3. QED
    BY <1>1, <1>2, <2>1, <2>2
<1>6. QED
  BY <1>3, <1>4, <1>5

\* Running a timer keeps them too.
LEMMA RunTimerType ==
    ASSUME TypeOK, NEW e \in TimerEvent, RunTimer(e)
    PROVE  /\ table' \subseteq [id : PosNat, ch : Channels]
           /\ running' \subseteq PosNat /\ nextId' \in PosNat
           /\ seen' \in [Channels -> Levels \cup {"unset"}]
           /\ timer' \in [Channels -> Nat] /\ fired' \in [Channels -> BOOLEAN]
           /\ ran' \in [no : Nat, ch : Channels, upto : Nat]
<1>1. /\ table \subseteq [id : PosNat, ch : Channels]
      /\ running \subseteq PosNat /\ nextId \in PosNat
      /\ seen \in [Channels -> Levels \cup {"unset"}]
      /\ timer \in [Channels -> Nat] /\ fired \in [Channels -> BOOLEAN]
      /\ ran \in [no : Nat, ch : Channels, upto : Nat]
      /\ e.ch \in Channels /\ e.seq \in Nat /\ e.upto \in Nat
  BY DEF TypeOK, EngineType, TimerType, HistType, TimerEvent, PosNat
<1>2. CASE \E s \in table : s.id = e.id
  <2>1. /\ table' \subseteq table
        /\ timer' = [timer EXCEPT ![e.ch] = 0]
        /\ fired' = [fired EXCEPT ![e.ch] = fired[e.ch] \/ CheckInput(e.ch)]
        /\ ran' = [no |-> e.seq, ch |-> e.ch, upto |-> e.upto]
        /\ UNCHANGED <<running, nextId, seen>>
    BY <1>2 DEF RunTimer, NoTimer
  <2>2. timer' \in [Channels -> Nat]
    BY <1>1, <2>1
  <2>3. fired' \in [Channels -> BOOLEAN]
    BY <1>1, <2>1 DEF CheckInput
  <2>4. ran' \in [no : Nat, ch : Channels, upto : Nat]
    BY <1>1, <2>1
  <2>5. QED
    BY <1>1, <2>1, <2>2, <2>3, <2>4
<1>3. CASE ~ \E s \in table : s.id = e.id
  BY <1>1, <1>3 DEF RunTimer, timerVars, ruleVars
<1>4. QED
  BY <1>2, <1>3

LEMMA TakeLostType ==
    ASSUME TypeOK, TakeLost PROVE TypeOK'
<1> USE DEF TypeOK, TakeLost, vars, inputVars, queueVars, timerVars, ruleVars, histVars
<1>1. InputType'
  BY DEF InputType
<1>2. QueueType'
  BY DEF QueueType
<1>3. TimerType'
  BY DEF TimerType
<1>4. EngineType'
  BY DEF EngineType, QueueType
<1>5. HistType'
  BY DEF HistType, InputType
<1>6. QED
  BY <1>1, <1>2, <1>3, <1>4, <1>5

LEMMA ResyncMarkType ==
    ASSUME TypeOK, ResyncMark PROVE TypeOK'
<1> USE DEF TypeOK, ResyncMark, vars, inputVars, queueVars, timerVars, ruleVars, histVars
<1>1. InputType'
  BY DEF InputType
<1>2. QueueType'
  BY DEF QueueType
<1>3. TimerType'
  BY DEF TimerType
<1>4. EngineType'
  BY DEF EngineType, QueueType
<1>5. HistType'
  BY DEF HistType
<1>6. QED
  BY <1>1, <1>2, <1>3, <1>4, <1>5

LEMMA ResyncReadType ==
    ASSUME TypeOK, ResyncRead PROVE TypeOK'
<1> USE DEF TypeOK, ResyncRead, vars, inputVars, queueVars, timerVars, ruleVars, histVars
<1>1. InputType'
  BY DEF InputType
<1>2. QueueType'
  BY DEF QueueType
<1>3. TimerType'
  BY FirstTodoIn, OnInputType DEF TimerType, EngineType, InputType
<1>4. EngineType'
  BY FirstTodoIn, OnInputType DEF EngineType, ResyncNext, InputType
<1>5. HistType'
  BY DEF HistType
<1>6. QED
  BY <1>1, <1>2, <1>3, <1>4, <1>5

LEMMA ResyncAbortType ==
    ASSUME TypeOK, ResyncAbort PROVE TypeOK'
<1> USE DEF TypeOK, ResyncAbort, vars, inputVars, queueVars, timerVars, ruleVars, histVars
<1>1. InputType'
  BY DEF InputType
<1>2. QueueType'
  BY FirstTodoIn DEF QueueType, EngineType
<1>3. TimerType'
  BY DEF TimerType
<1>4. EngineType'
  BY DEF EngineType, ResyncNext
<1>5. HistType'
  BY FirstTodoIn DEF HistType, EngineType
<1>6. QED
  BY <1>1, <1>2, <1>3, <1>4, <1>5

LEMMA DrainOneType ==
    ASSUME TypeOK, DrainOne PROVE TypeOK'
<1> USE DEF TypeOK, DrainOne, vars, inputVars, queueVars, timerVars, ruleVars, histVars
<1>1. InputType'
  BY DEF InputType
<1>2. QueueType'
  BY DEF QueueType
<1>3. TimerType'
  BY RunTimerType, HeadTailProperties DEF TimerType, Due
<1>4. EngineType'
  BY RunTimerType, HeadTailProperties DEF EngineType, TimerType, Due
<1>5. HistType'
  BY RunTimerType, HeadTailProperties DEF HistType, TimerType, Due
<1>6. QED
  BY <1>1, <1>2, <1>3, <1>4, <1>5

LEMMA DrainEndType ==
    ASSUME TypeOK, DrainEnd PROVE TypeOK'
<1> USE DEF TypeOK, DrainEnd, vars, inputVars, queueVars, timerVars, ruleVars, histVars
<1>1. InputType'
  BY DEF InputType
<1>2. QueueType'
  BY DEF QueueType
<1>3. TimerType'
  BY DEF TimerType
<1>4. EngineType'
  BY DEF EngineType
<1>5. HistType'
  BY DEF HistType
<1>6. QED
  BY <1>1, <1>2, <1>3, <1>4, <1>5

LEMMA ReceiveType ==
    ASSUME TypeOK, Receive PROVE TypeOK'
<1> USE DEF TypeOK, vars, inputVars, queueVars, timerVars, ruleVars, histVars
<1> DEFINE e == Head(queue)
<1>1. e \in Event /\ Tail(queue) \in Seq(Event)
  BY HeadTailProperties DEF Receive, QueueType
<1>2. /\ InputType' /\ QueueType'
      /\ cb' = cb /\ ring' = ring /\ used' = used /\ repNo' = repNo
      /\ unsynced' = unsynced /\ pc' = "pass" /\ todo' = todo /\ mark' = mark
  BY <1>1 DEF Receive, InputType, QueueType
<1>3. CASE e.kind = "input" /\ ~InputEventStale(e.ch, e.seq)
  <2>1. e.ch \in Channels /\ e.state \in Levels /\ e.seq \in Nat
    BY <1>1, <1>3 DEF Event, InputEvent, TimerEvent, OtherEvent, PosNat
  <2>2. /\ OnInput(e.ch, e.state) /\ view' = [view EXCEPT ![e.ch] = e.seq] /\ ran' = ran
        /\ cut' = cut \ {e.ch}
    BY <1>3 DEF Receive
  <2>3. TimerType' /\ EngineType'
    BY <1>2, <2>1, <2>2, OnInputType DEF TimerType, EngineType
  <2>4. HistType'
    BY <1>2, <2>1, <2>2 DEF HistType
  <2>5. QED
    BY <1>2, <2>3, <2>4
<1>4. CASE e.kind = "timer"
  <2>1. e \in TimerEvent
    BY <1>1, <1>4 DEF Event, InputEvent, TimerEvent, OtherEvent
  <2>2. RunTimer(e) /\ view' = view /\ cut' = cut
    BY <1>4 DEF Receive
  <2>3. QED
    BY <1>2, <2>1, <2>2, RunTimerType DEF TimerType, EngineType, HistType
<1>5. CASE e.kind = "other" \/ (e.kind = "input" /\ InputEventStale(e.ch, e.seq))
  <2>1. UNCHANGED <<timerVars, ruleVars, view, ran, cut>>
    BY <1>5 DEF Receive
  <2>2. QED
    BY <1>2, <2>1 DEF TimerType, EngineType, HistType
<1>6. QED
  BY <1>3, <1>4, <1>5 DEF Receive

LEMMA InputCutShortType ==
    ASSUME TypeOK, InputCutShort PROVE TypeOK'
<1> USE DEF TypeOK, InputCutShort, vars, inputVars, queueVars, timerVars, ruleVars, histVars
<1> DEFINE e == Head(queue)
<1>1. e \in Event /\ Tail(queue) \in Seq(Event)
  BY HeadTailProperties DEF QueueType
<1>2. InputType'
  BY DEF InputType
<1>3. QueueType'
  BY <1>1 DEF QueueType
<1>4. TimerType'
  BY DEF TimerType
<1>5. EngineType'
  BY DEF EngineType
<1>6. HistType'
  <2>1. e.kind = "input" /\ cut' = cut \cup {e.ch} /\ UNCHANGED <<view, repNo, unsynced, ran>>
    OBVIOUS
  <2>2. used' \in [edges : Nat, connects : Nat, other : Nat, aborts : Nat]
    <3>1. HistType /\ used' = [used EXCEPT !.aborts = @ + 1]
      OBVIOUS
    <3> HIDE DEF TypeOK, InputCutShort, vars, inputVars, queueVars, timerVars, ruleVars, histVars, e
    <3>2. QED
      BY <3>1 DEF HistType
  <2> HIDE DEF e
  <2>3. e.ch \in Channels
    BY <1>1, <2>1 DEF Event, InputEvent, TimerEvent, OtherEvent
  <2>4. QED
    BY <2>1, <2>2, <2>3 DEF HistType
<1>7. QED
  BY <1>2, <1>3, <1>4, <1>5, <1>6

LEMMA ReceiveTimeoutType ==
    ASSUME TypeOK, ReceiveTimeout PROVE TypeOK'
<1> USE DEF TypeOK, ReceiveTimeout, vars, inputVars, queueVars, timerVars, ruleVars, histVars
<1>1. InputType'
  BY DEF InputType
<1>2. QueueType'
  BY DEF QueueType
<1>3. TimerType'
  BY DEF TimerType
<1>4. EngineType'
  BY DEF EngineType
<1>5. HistType'
  BY DEF HistType
<1>6. QED
  BY <1>1, <1>2, <1>3, <1>4, <1>5

LEMMA TypeNext == TypeOK /\ [Next]_vars => TypeOK'
<1> SUFFICES ASSUME TypeOK, [Next]_vars PROVE TypeOK'
  OBVIOUS
<1>1. CASE \E c \in Channels : Edge(c)
  BY <1>1, EdgeType
<1>2. CASE ScanBegin \/ PublishAllBegin \/ SendOther
  BY <1>2, ScanBeginType, PublishAllBeginType, SendOtherType
<1>3. CASE \E t \in Tasks : Report(t)
  BY <1>3, ReadPinType, SendInputType, MarkLostType DEF Report
<1>4. CASE TimerTask
  BY <1>4, TimerElapsesType, TimerPostType, TimerDeferType DEF TimerTask
<1>5. CASE Engine
  BY <1>5, TakeLostType, ResyncMarkType, ResyncReadType, ResyncAbortType,
     DrainOneType, DrainEndType, ReceiveType, InputCutShortType, ReceiveTimeoutType DEF Engine
<1>6. CASE UNCHANGED vars
  BY <1>6 DEF vars, inputVars, queueVars, timerVars, ruleVars, histVars, TypeOK,
     InputType, QueueType, TimerType, EngineType, HistType
<1>7. QED
  BY <1>1, <1>2, <1>3, <1>4, <1>5, <1>6 DEF Next

\* Every reachable state is well typed, whatever the sizes.
THEOREM TypeCorrect == Spec => []TypeOK
  BY TypeInit, TypeNext, PTL DEF Spec

-----------------------------------------------------------------------------
(* The order of the queue.  evt_send() numbers and queues in one step, so   *)
(* the queue only ever grows by its largest number and shrinks at its head. *)

LEMMA OrderInit == Init => QueueInOrder
  BY DEF Init, QueueInOrder

\* evt_send() keeps the queue in order.
LEMMA EvtSendOrder ==
    ASSUME TypeOK, QueueInOrder,
           NEW e \in Event, e.seq = evtSeq + 1, EvtSend(e)
    PROVE  QueueInOrder'
<1> USE DEF TypeOK, QueueType
<1>1. evtSeq' = evtSeq + 1
  BY DEF EvtSend
<1>2. CASE queue' = queue
  BY <1>1, <1>2, ElementOfSeq DEF QueueInOrder, Event, InputEvent, TimerEvent, OtherEvent, PosNat
<1>3. CASE queue' = Append(queue, e)
  <2>1. /\ DOMAIN queue = 1 .. Len(queue) /\ DOMAIN queue' = 1 .. Len(queue) + 1
        /\ \A i \in 1 .. Len(queue) : queue'[i] = queue[i]
        /\ queue'[Len(queue) + 1] = e /\ Len(queue) \in Nat
    BY <1>3, AppendProperties, LenProperties
  <2>2. \A i \in DOMAIN queue : queue[i].seq <= evtSeq /\ queue[i].seq \in Nat
    BY <2>1, ElementOfSeq DEF QueueInOrder, Event, InputEvent, TimerEvent, OtherEvent, PosNat
  <2>3. QED
    BY <1>1, <2>1, <2>2 DEF QueueInOrder
<1>4. QED
  BY <1>2, <1>3 DEF EvtSend

\* Taking the head leaves a queue in order, and only later numbers in it.
LEMMA TailOrder ==
    ASSUME TypeOK, QueueInOrder, queue # <<>>
    PROVE  LET q == Tail(queue) IN
           /\ \A i \in DOMAIN q : q[i].seq <= evtSeq /\ q[i].seq > Head(queue).seq
           /\ \A i, j \in DOMAIN q : i < j => q[i].seq < q[j].seq
<1> USE DEF TypeOK, QueueType
<1>1. /\ Tail(queue) \in Seq(Event) /\ Len(Tail(queue)) = Len(queue) - 1
      /\ \A i \in 1 .. Len(Tail(queue)) : Tail(queue)[i] = queue[i + 1]
      /\ Head(queue) = queue[1] /\ Len(queue) \in Nat \ {0}
  BY HeadTailProperties, EmptySeq
<1>2. DOMAIN queue = 1 .. Len(queue) /\ DOMAIN Tail(queue) = 1 .. Len(queue) - 1
  BY <1>1, LenProperties
<1>3. \A i \in DOMAIN Tail(queue) : i + 1 \in DOMAIN queue /\ 1 < i + 1 /\ 1 \in DOMAIN queue
  BY <1>1, <1>2
<1>4. QED
  BY <1>1, <1>2, <1>3 DEF QueueInOrder

LEMMA OrderNext == TypeOK /\ QueueInOrder /\ [Next]_vars => QueueInOrder'
<1> SUFFICES ASSUME TypeOK, QueueInOrder, [Next]_vars PROVE QueueInOrder'
  OBVIOUS
<1>1. ASSUME NEW t \in Tasks, SendInput(t) PROVE QueueInOrder'
  <2> DEFINE e == InputEvt(evtSeq + 1, rep[t].ch, level[rep[t].ch])
  <2>1. e \in Event /\ e.seq = evtSeq + 1
    BY DEF TypeOK, InputType, QueueType, Event, InputEvent, InputEvt, PosNat
  <2>2. QED
    BY <1>1, <2>1, EvtSendOrder DEF SendInput
<1>2. CASE SendOther
  <2>1. OtherEvt(evtSeq + 1) \in Event /\ OtherEvt(evtSeq + 1).seq = evtSeq + 1
    BY DEF TypeOK, QueueType, Event, OtherEvent, OtherEvt, PosNat
  <2>2. QED
    BY <1>2, <2>1, EvtSendOrder DEF SendOther
<1>3. CASE TimerPost
  <2> DEFINE e == TimerEvt(evtSeq + 1, cb.id, cb.ch, repNo[cb.ch])
  <2>1. e \in Event /\ e.seq = evtSeq + 1
    BY <1>3 DEF TimerPost, TypeOK, QueueType, TimerType, HistType, Event, TimerEvent, TimerEvt, PosNat
  <2>2. QED
    BY <1>3, <2>1, EvtSendOrder DEF TimerPost
<1>4. CASE Receive \/ InputCutShort
  BY <1>4, TailOrder DEF Receive, InputCutShort, QueueInOrder
<1>5. CASE UNCHANGED <<evtSeq, queue>>
  BY <1>5 DEF QueueInOrder
<1>6. QED
  BY <1>1, <1>2, <1>3, <1>4, <1>5
  DEF Next, Report, TimerTask, Engine, vars, inputVars, queueVars, Edge, ScanBegin,
      PublishAllBegin, ReadPin, MarkLost, TimerElapses, TimerDefer, TakeLost,
      ResyncMark, ResyncRead, ResyncAbort, DrainOne, DrainEnd, ReceiveTimeout

\* The queue holds the numbers in order, in every reachable state.
THEOREM QueueOrdered == Spec => []QueueInOrder
<1>1. TypeOK /\ QueueInOrder /\ [Next]_vars => QueueInOrder'
  BY OrderNext
<1>2. QED
  BY <1>1, OrderInit, TypeCorrect, PTL DEF Spec

-----------------------------------------------------------------------------
(* Deferred timers and the queue.                                          *)

\* A step that runs a timer leaves only later numbers in the queue: taken from
\* the queue, by its order; taken from the ring, by drain_overflow()'s look at
\* the head and again the order behind it.
LEMMA RunInOrder ==
    ASSUME TypeOK, QueueInOrder, [Next]_vars, ran' # ran
    PROVE  \A i \in DOMAIN queue' : queue'[i].seq > ran'.no
<1>1. DrainOne \/ Receive
  BY DEF Next, Report, TimerTask, Engine, vars, histVars, Edge, ScanBegin,
      PublishAllBegin, ReadPin, SendInput, MarkLost, SendOther, TimerElapses, TimerPost,
      TimerDefer, TakeLost, ResyncMark, ResyncRead, ResyncAbort, DrainEnd, InputCutShort, ReceiveTimeout
<1>2. CASE DrainOne
  <2>1. ran'.no = Head(ring).seq /\ queue' = queue
    BY <1>2 DEF DrainOne, RunTimer, queueVars
  <2>2. queue = <<>> => DOMAIN queue' = {}
    BY <2>1
  <2>3. CASE queue # <<>>
    <3>1. Head(queue).seq > Head(ring).seq
      BY <1>2, <2>3 DEF DrainOne, Due, EvtSeqAfter
    <3>2. queue \in Seq(Event) /\ Head(queue) = queue[1] /\ 1 \in DOMAIN queue
      BY <2>3, EmptySeq, LenProperties DEF TypeOK, QueueType
    <3>3. \A i \in DOMAIN queue : queue[i].seq \in Nat /\ i \in Nat /\ i >= 1
      BY <3>2, ElementOfSeq, LenProperties DEF Event, InputEvent, TimerEvent, OtherEvent, PosNat
    <3>4. \A i \in DOMAIN queue : queue[i].seq >= queue[1].seq
      BY <3>2, <3>3 DEF QueueInOrder
    <3>5. Head(ring).seq \in Nat
      <4>1. ring \in Seq(TimerEvent) /\ ring # <<>>
        BY <1>2 DEF DrainOne, Due, TypeOK, TimerType
      <4>2. Head(ring) \in TimerEvent
        BY <4>1, HeadTailProperties
      <4>3. QED
        BY <4>2 DEF TimerEvent, PosNat
    <3>6. QED
      BY <2>1, <3>1, <3>2, <3>3, <3>4, <3>5
  <2>4. QED
    BY <2>2, <2>3
<1>3. CASE Receive
  <2>1. queue # <<>> /\ queue' = Tail(queue) /\ ran'.no = Head(queue).seq
    BY <1>3 DEF Receive, RunTimer
  <2>2. QED
    BY <2>1, TailOrder
<1>4. QED
  BY <1>1, <1>2, <1>3

\* No rule timer ever runs ahead of a queued event posted before it.
THEOREM TimersRunInOrder == Spec => TimersInOrder
<1>1. TypeOK /\ QueueInOrder /\ [Next]_vars
      => [ran' # ran => \A i \in DOMAIN queue' : queue'[i].seq > ran'.no]_vars
  BY RunInOrder
<1>2. QED
  BY <1>1, TypeCorrect, QueueOrdered, PTL DEF Spec, TimersInOrder

-----------------------------------------------------------------------------
(* No level is lost.  The queue is seen as the set of its events, in the    *)
(* order of their numbers.                                                  *)

Queued == {queue[i] : i \in DOMAIN queue}

\* What of the queue will still tell a rule about channel c, and whether the last
\* of it says l.
News(c) == {x \in Queued : x.kind = "input" /\ x.ch = c /\ x.seq > mark[c]}
EndsOn(c, l) == \A x \in News(c) : (\A y \in News(c) : y.seq <= x.seq) => x.state = l

Bounds ==
    /\ \A c \in Channels : mark[c] <= evtSeq /\ repNo[c] <= evtSeq
    /\ pc \in {"pass", "drain", "receive"} => todo = {}

\* The engine has the level, but for an event cut short.
Knows(c) == seen[c] \in {"unset", level[c]} \/ c \in cut

\* While the engine is between the mark and the read of a channel, its news since
\* the mark end on the level, or there is more to come.
LevelInv ==
    /\ \A c \in Channels :
         \/ Reporting(c) \/ Resyncing(c)
         \/ EndsOn(c, level[c]) /\ (News(c) = {} => Knows(c))
    /\ pc = "resync" =>
         Reporting(FirstTodo) \/ FirstTodo \in inputLost \/ EndsOn(FirstTodo, level[FirstTodo])

\* The events in the queue are events, numbered up to evtSeq.
LEMMA QueuedTypes ==
    ASSUME TypeOK, QueueInOrder
    PROVE  /\ evtSeq \in Nat
           /\ \A x \in Queued : /\ x \in Event /\ x.seq \in Nat /\ x.seq <= evtSeq
                                /\ x.kind = "input" => x \in InputEvent
                                /\ x.kind = "timer" => x \in TimerEvent
<1>1. queue \in Seq(Event) /\ evtSeq \in Nat
  BY DEF TypeOK, QueueType
<1>2. \A i \in DOMAIN queue : queue[i] \in Event
  BY <1>1, ElementOfSeq, LenProperties
<1>3. QED
  BY <1>1, <1>2 DEF Queued, QueueInOrder, Event, InputEvent, TimerEvent, OtherEvent, PosNat

LEMMA QueueGrows ==
    ASSUME TypeOK, QueueInOrder, NEW e \in Event, EvtSend(e)
    PROVE  /\ Queued' = IF IsFull THEN Queued ELSE Queued \cup {e}
           /\ IsFull => \E x \in Queued : x.seq <= evtSeq
           /\ evtSeq' = e.seq
<1>1. queue \in Seq(Event) /\ Len(queue) \in Nat /\ DOMAIN queue = 1 .. Len(queue)
  BY LenProperties DEF TypeOK, QueueType
<1>2. CASE IsFull
  <2>1. Len(queue) >= 1
    BY <1>1, <1>2, RuleEventsAssumption DEF IsFull
  <2>2. 1 \in DOMAIN queue
    BY <1>1, <2>1
  <2>3. QED
    BY <1>2, <2>2 DEF EvtSend, Queued, QueueInOrder
<1>3. CASE ~IsFull
  <2>1. queue' = Append(queue, e)
    BY <1>3 DEF EvtSend
  <2>2. /\ DOMAIN queue' = 1 .. Len(queue) + 1 /\ queue'[Len(queue) + 1] = e
        /\ \A i \in 1 .. Len(queue) : queue'[i] = queue[i]
    BY <1>1, <2>1, AppendProperties, LenProperties
  <2>3. DOMAIN queue' = DOMAIN queue \cup {Len(queue) + 1}
    BY <1>1, <2>2
  <2>4. QED
    BY <1>1, <1>3, <2>2, <2>3 DEF EvtSend, Queued
<1>4. QED
  BY <1>2, <1>3

LEMMA QueueShrinks ==
    ASSUME TypeOK, QueueInOrder, queue # <<>>, queue' = Tail(queue)
    PROVE  /\ Head(queue) \in Queued /\ Queued = Queued' \cup {Head(queue)}
           /\ \A x \in Queued' : x.seq > Head(queue).seq
<1>1. /\ queue \in Seq(Event) /\ Len(queue) \in Nat /\ DOMAIN queue = 1 .. Len(queue) /\ Len(queue) >= 1
      /\ Head(queue) = queue[1]
  BY LenProperties, EmptySeq, HeadTailProperties DEF TypeOK, QueueType
<1>2. /\ DOMAIN queue' = 1 .. Len(queue) - 1
      /\ \A i \in 1 .. Len(queue) - 1 : queue'[i] = queue[i + 1]
  BY <1>1, HeadTailProperties, LenProperties
<1>3. \A i \in 2 .. Len(queue) : i - 1 \in 1 .. Len(queue) - 1 /\ queue'[i - 1] = queue[i]
  BY <1>1, <1>2
<1>4. DOMAIN queue = {1} \cup (2 .. Len(queue)) /\ \A i \in DOMAIN queue' : i + 1 \in DOMAIN queue
  BY <1>1, <1>2
<1>5. Head(queue) \in Queued /\ Queued = Queued' \cup {Head(queue)}
  <2>1. ASSUME NEW i \in DOMAIN queue PROVE queue[i] \in Queued' \/ queue[i] = Head(queue)
    <3>1. CASE i = 1
      BY <1>1, <3>1
    <3>2. CASE i \in 2 .. Len(queue)
      <4>1. i - 1 \in DOMAIN queue' /\ queue'[i - 1] = queue[i]
        BY <1>2, <1>3, <3>2
      <4>2. QED
        BY <4>1 DEF Queued
    <3>3. QED
      BY <1>4, <2>1, <3>1, <3>2
  <2>2. \A x \in Queued' : x \in Queued
    BY <1>2, <1>4 DEF Queued
  <2>3. Head(queue) \in Queued
    BY <1>1, <1>4 DEF Queued
  <2>4. QED
    BY <2>1, <2>2, <2>3 DEF Queued
<1>6. \A x \in Queued' : x.seq > Head(queue).seq
  BY TailOrder DEF Queued
<1>7. QED
  BY <1>5, <1>6

LEMMA BoundsInit == Init => Bounds /\ LevelInv
  BY DEF Init, Bounds, LevelInv, Knows, Queued, News, EndsOn, Reporting, Resyncing

LEMMA BoundsNext == TypeOK /\ Bounds /\ [Next]_vars => Bounds'
<1> SUFFICES ASSUME TypeOK, Bounds, [Next]_vars PROVE Bounds'
  OBVIOUS
<1>1. /\ evtSeq \in Nat /\ \A c \in Channels : mark[c] \in Nat /\ repNo[c] \in Nat
      /\ mark \in [Channels -> Nat] /\ repNo \in [Channels -> Nat]
  BY DEF TypeOK, QueueType, EngineType, HistType
<1>2. CASE \E t \in Tasks : SendInput(t)
  BY <1>1, <1>2 DEF SendInput, EvtSend, InputEvt, Bounds
<1>3. CASE SendOther \/ TimerPost
  BY <1>1, <1>3 DEF SendOther, TimerPost, EvtSend, OtherEvt, TimerEvt, Bounds, histVars
<1>4. CASE ResyncMark
  BY <1>1, <1>4 DEF ResyncMark, Bounds, histVars, queueVars
<1>5. CASE \/ TakeLost \/ ResyncRead \/ ResyncAbort \/ DrainEnd
           \/ Receive \/ InputCutShort \/ ReceiveTimeout
  BY <1>5 DEF TakeLost, ResyncRead, ResyncAbort, ResyncNext, DrainEnd, Receive, InputCutShort,
     ReceiveTimeout, Bounds,
     histVars, queueVars
<1>6. CASE UNCHANGED <<evtSeq, pc, todo, mark, repNo>>
  BY <1>6 DEF Bounds
<1>7. QED
  BY <1>2, <1>3, <1>4, <1>5, <1>6
  DEF Next, Report, TimerTask, Engine, vars, queueVars, histVars, Edge, ScanBegin,
      PublishAllBegin, ReadPin, MarkLost, TimerElapses, TimerDefer, DrainOne

\* A step that leaves the news of every channel and what the engine saw as they are,
\* and changes a level only with a report to come, or ends a report with the bit set.
LEMMA LevelFrame ==
    ASSUME LevelInv, UNCHANGED <<seen, todo, cut>>, inputLost \subseteq inputLost', pc' = "resync" => pc = "resync",
           \A c \in Channels : News(c)' = News(c),
           \A c \in Channels : \/ Reporting(c)' \/ c \in inputLost'
                               \/ level'[c] = level[c] /\ ~Reporting(c),
           todo \subseteq Channels, pc = "resync" => todo # {}
    PROVE  LevelInv'
<1>1. pc = "resync" => FirstTodo \in Channels
  BY FirstTodoIn
<1>2. FirstTodo' = FirstTodo
  BY DEF FirstTodo
<1>3. QED
  BY <1>1, <1>2 DEF LevelInv, Knows, EndsOn, Resyncing

LEMMA LevelSend == ASSUME TypeOK, QueueInOrder, Bounds, LevelInv, NEW t \in Tasks, SendInput(t) PROVE LevelInv'
<1>0. PICK c \in Channels : c = rep[t].ch
  BY DEF TypeOK, InputType
<1> DEFINE e == InputEvt(evtSeq + 1, c, level[c])
<1>1. /\ c \in Channels /\ e \in Event /\ e.seq = evtSeq + 1 /\ e.kind = "input" /\ e.ch = c /\ e.state = level[c]
      /\ c = rep[t].ch /\ rep \in [Tasks -> [at : {"idle", "read", "send", "drop"}, ch : Channels]]
  BY <1>0 DEF TypeOK, InputType, QueueType, Event, InputEvent, InputEvt, PosNat
<1>2. /\ Queued' = IF IsFull THEN Queued ELSE Queued \cup {e}
      /\ UNCHANGED <<level, inputLost, pc, todo, mark, seen, cut>> /\ rep[t].at = "send"
  BY <1>1, QueueGrows DEF SendInput, ruleVars
<1> HIDE DEF e
<1>3. CASE IsFull
  <2>1. Reporting(c)' /\ \A d \in Channels : Reporting(d)' <=> Reporting(d)
    BY <1>1, <1>2, <1>3 DEF SendInput, Reporting
  <2>2. \A d \in Channels : News(d)' = News(d)
    BY <1>2, <1>3 DEF News
  <2>3. FirstTodo' = FirstTodo
    BY <1>2 DEF FirstTodo
  <2>4. pc = "resync" => FirstTodo \in Channels
    BY FirstTodoIn DEF TypeOK, EngineType
  <2>5. QED
    BY <1>2, <2>1, <2>2, <2>3, <2>4 DEF LevelInv, Knows, EndsOn, Resyncing
<1>4. CASE ~IsFull
  <2>1. mark[c] < evtSeq + 1 /\ \A x \in Queued : x.seq \in Nat /\ x.seq < evtSeq + 1
    <3>1. mark[c] \in Nat /\ evtSeq \in Nat
      BY <1>1 DEF TypeOK, EngineType, QueueType
    <3>2. mark[c] <= evtSeq
      BY <1>1 DEF Bounds
    <3>3. \A x \in Queued : x.seq \in Nat /\ x.seq <= evtSeq
      BY QueuedTypes
    <3>4. \A n \in Nat : n <= evtSeq => n < evtSeq + 1
      BY <3>1
    <3>5. QED
      BY <3>1, <3>2, <3>3, <3>4
  <2>2. \A d \in Channels : d # c => News(d)' = News(d)
    BY <1>1, <1>2, <1>4 DEF News
  <2>3. e \in News(c)' /\ \A x \in News(c)' : x = e \/ x.seq < e.seq
    <3>1. Queued' = Queued \cup {e} /\ mark'[c] = mark[c] /\ e.seq > mark[c]
      BY <1>1, <1>2, <1>4, <2>1, QueuedTypes DEF TypeOK, EngineType
    <3>2. \A x \in Queued' : x = e \/ x.seq < e.seq
      BY <1>1, <2>1, <3>1
    <3>3. QED
      BY <1>1, <3>1, <3>2 DEF News
  <2>4. \A x \in News(c)' : (\A y \in News(c)' : y.seq <= x.seq) => x = e
    <3>1. ASSUME NEW x \in News(c)', x.seq < e.seq, e.seq <= x.seq PROVE FALSE
      <4>1. x.seq \in Nat /\ e.seq \in Nat
        BY <1>1, <1>2, <1>4, <2>1, <3>1 DEF News, TypeOK, QueueType
      <4>2. QED
        BY <3>1, <4>1
    <3>2. QED
      BY <2>3, <3>1
  <2>5. EndsOn(c, level[c])' /\ News(c)' # {}
    <3>1. level' = level /\ e.state = level[c]
      BY <1>1, <1>2
    <3>2. QED
      BY <2>3, <2>4, <3>1 DEF EndsOn
  <2>6. \A d \in Channels : d # c => (Reporting(d)' <=> Reporting(d))
    BY <1>1, <1>2, <1>4 DEF SendInput, Reporting, NextChannel, Idle
  <2>7. FirstTodo' = FirstTodo
    BY <1>2 DEF FirstTodo
  <2>8. pc = "resync" => FirstTodo \in Channels
    BY FirstTodoIn DEF TypeOK, EngineType
  <2>9. \A d \in Channels : d # c => (EndsOn(d, level[d])' <=> EndsOn(d, level[d]))
    BY <1>2, <2>2 DEF EndsOn
  <2>10. \A d \in Channels : Resyncing(d)' <=> Resyncing(d)
    BY <1>2 DEF Resyncing
  <2>11. \A d \in Channels :
          \/ Reporting(d)' \/ Resyncing(d)'
          \/ EndsOn(d, level[d])' /\ (News(d)' = {} => Knows(d))
    BY <2>2, <2>5, <2>6, <2>9, <2>10 DEF LevelInv
  <2>12. pc = "resync" => Reporting(FirstTodo)' \/ FirstTodo \in inputLost \/ EndsOn(FirstTodo, level[FirstTodo])'
    BY <2>5, <2>6, <2>7, <2>8, <2>9 DEF LevelInv
  <2>13. QED
    BY <1>2, <2>7, <2>11, <2>12 DEF LevelInv, Knows
<1>5. QED
  BY <1>3, <1>4

LEMMA LevelReceive ==
    ASSUME TypeOK, QueueInOrder, Bounds, LevelInv, Receive \/ InputCutShort PROVE LevelInv'
<1> DEFINE e == Head(queue)
<1>1. /\ queue # <<>> /\ queue' = Tail(queue) /\ pc' = "pass"
      /\ UNCHANGED <<level, rep, inputLost, todo, mark>>
  BY DEF Receive, InputCutShort, inputVars
<1>2. /\ e \in Queued /\ Queued = Queued' \cup {e} /\ \A x \in Queued' : x.seq > e.seq
      /\ \A x \in Queued : x.seq \in Nat
      /\ e \in Event /\ (e.kind = "input" => e \in InputEvent)
  <2>1. e \in Queued /\ Queued = Queued' \cup {e} /\ \A x \in Queued' : x.seq > e.seq
    BY <1>1, QueueShrinks
  <2> HIDE DEF e
  <2>2. QED
    BY <2>1, QueuedTypes
<1> HIDE DEF e
<1>3. \A c \in Channels : News(c)' = News(c) \ {e}
  <2>1. e \notin Queued'
    BY <1>2
  <2>2. QED
    BY <1>1, <1>2, <2>1 DEF News
<1>4. \A c \in Channels : Reporting(c)' <=> Reporting(c)
  BY <1>1 DEF Reporting
<1>5. \A c \in Channels : Resyncing(c)' <=> Resyncing(c)
  BY <1>1 DEF Resyncing
<1>6. ASSUME NEW c \in Channels, EndsOn(c, level[c]) PROVE EndsOn(c, level[c])'
  <2>1. ASSUME NEW x \in News(c)', \A y \in News(c)' : y.seq <= x.seq PROVE x.state = level[c]
    <3>1. x \in News(c) /\ x \in Queued'
      BY <1>3, <2>1 DEF News
    <3>2. x.seq > e.seq /\ x.seq \in Nat /\ e.seq \in Nat
      BY <1>2, <3>1
    <3>3. \A y \in News(c) : y.seq <= x.seq
      BY <1>3, <2>1, <3>2
    <3>4. QED
      BY <1>6, <3>1, <3>3 DEF EndsOn
  <2>2. QED
    BY <1>1, <2>1 DEF EndsOn
<1>7. ASSUME NEW c \in Channels, EndsOn(c, level[c]), News(c) = {} => Knows(c), News(c)' = {}
      PROVE  Knows(c)'
  <2>1. CASE e \in News(c)
    <3>1. News(c) = {e} /\ e.kind = "input" /\ e.ch = c /\ e.seq > mark[c]
      BY <1>3, <1>7, <2>1 DEF News
    <3>2. e.state = level[c]
      <4>1. e.seq <= e.seq
        BY <1>2
      <4>2. QED
        BY <1>7, <3>1, <4>1 DEF EndsOn
    <3>3. ~InputEventStale(c, e.seq)
      BY <1>2, <3>1 DEF InputEventStale, TypeOK, EngineType
    <3>4. CASE Receive
      <4>1. OnInput(c, level[c])
        BY <3>1, <3>2, <3>3, <3>4 DEF Receive, e
      <4>2. QED
        BY <1>1, <4>1 DEF OnInput, Knows, TypeOK, EngineType
    <3>5. CASE InputCutShort
      BY <3>1, <3>5 DEF InputCutShort, Knows, e
    <3>6. QED
      BY <3>4, <3>5
  <2>2. CASE e \notin News(c)
    <3>1. News(c) = {}
      BY <1>3, <1>7, <2>2
    <3>2. e.kind = "input" /\ ~InputEventStale(e.ch, e.seq) => e.ch # c
      BY <1>2, <2>2 DEF News, InputEventStale, TypeOK, EngineType
    <3>3. seen'[c] = seen[c] /\ (c \in cut => c \in cut')
      BY <3>2 DEF Receive, InputCutShort, OnInput, RunTimer, ruleVars, e, TypeOK, EngineType
    <3>4. QED
      BY <1>1, <1>7, <3>1, <3>3 DEF Knows
  <2>3. QED
    BY <2>1, <2>2
<1>8. QED
  BY <1>1, <1>4, <1>5, <1>6, <1>7 DEF LevelInv

LEMMA LevelResync ==
    ASSUME TypeOK, QueueInOrder, Bounds, LevelInv, ResyncMark \/ ResyncRead \/ ResyncAbort
    PROVE  LevelInv'
<1> DEFINE c == FirstTodo
<1>1. c \in todo /\ todo \subseteq Channels /\ c \in Channels
  BY FirstTodoIn DEF TypeOK, EngineType, ResyncMark, ResyncRead, ResyncAbort
<1>2. \A d \in Channels : Reporting(d)' <=> Reporting(d)
  BY DEF ResyncMark, ResyncRead, ResyncAbort, inputVars, Reporting
<1>3. level' = level /\ Queued' = Queued
  BY DEF ResyncMark, ResyncRead, ResyncAbort, inputVars, queueVars, Queued
<1>4. CASE ResyncMark
  <2>1. mark' = [mark EXCEPT ![c] = evtSeq] /\ UNCHANGED <<todo, inputLost, seen, cut>> /\ pc' = "resync"
    BY <1>4 DEF ResyncMark, ruleVars, queueVars, histVars
  <2>2. \A d \in Channels : d # c => News(d)' = News(d)
    BY <1>3, <2>1 DEF News, TypeOK, EngineType
  <2>3. FirstTodo' = FirstTodo
    BY <2>1 DEF FirstTodo
  <2>4. {x \in Queued' : x.kind = "input" /\ x.ch = c /\ x.seq > mark'[c]} = {}
    <3>1. mark'[c] = evtSeq
      BY <1>1, <2>1 DEF TypeOK, EngineType
    <3>2. \A x \in Queued : ~(x.seq > evtSeq)
      BY QueuedTypes
    <3>3. QED
      BY <1>3, <3>1, <3>2
  <2>5. EndsOn(FirstTodo, level[FirstTodo])'
    BY <2>3, <2>4 DEF EndsOn, News
  <2>6. c \in todo'
    BY <1>1, <2>1
  <2> HIDE DEF c
  <2>7. \A d \in Channels : d # c => (EndsOn(d, level[d])' <=> EndsOn(d, level[d]))
    BY <1>3, <2>2 DEF EndsOn
  <2>8. \A d \in Channels : (Resyncing(d)' <=> Resyncing(d)) /\ (d = c => Resyncing(d))
    BY <2>1, <2>6 DEF Resyncing
  <2>9. QED
    BY <1>2, <1>3, <2>1, <2>2, <2>5, <2>7, <2>8 DEF LevelInv, Knows
<1>5. CASE ResyncRead \/ ResyncAbort
  <2>1. UNCHANGED mark /\ todo' = todo \ {c} /\ inputLost \subseteq inputLost' /\ pc' # "resync"
    BY <1>5 DEF ResyncRead, ResyncAbort, ResyncNext, queueVars
  <2>2. \A d \in Channels : News(d)' = News(d)
    BY <1>3, <2>1 DEF News
  <2>3. c \in inputLost' \/ (seen'[c] = level[c] /\ pc = "resync")
    <3>1. CASE ResyncAbort
      BY <3>1 DEF ResyncAbort
    <3>2. CASE ResyncRead
      BY <1>1, <3>2 DEF ResyncRead, OnInput, ruleVars, TypeOK, EngineType
    <3>3. QED
      BY <1>5, <3>1, <3>2
  <2>4. \A d \in Channels : d # c => seen'[d] = seen[d] /\ (d \in cut => d \in cut')
    BY <1>1, <1>5 DEF ResyncRead, ResyncAbort, OnInput, ruleVars, TypeOK, EngineType
  <2>5. pc = "resync" => Reporting(c) \/ c \in inputLost \/ EndsOn(c, level[c])
    BY DEF LevelInv
  <2> HIDE DEF c
  <2>6. \A d \in Channels : EndsOn(d, level[d])' <=> EndsOn(d, level[d])
    BY <1>3, <2>2 DEF EndsOn
  <2>7. \A d \in Channels : (d # c /\ Resyncing(d) => Resyncing(d)') /\ (d \in inputLost' => Resyncing(d)')
    BY <2>1 DEF Resyncing
  <2>8. ASSUME NEW d \in Channels PROVE
          \/ Reporting(d)' \/ Resyncing(d)'
          \/ EndsOn(d, level[d])' /\ (News(d)' = {} => Knows(d)')
    <3>1. CASE d = c
      BY <1>2, <1>3, <2>1, <2>3, <2>5, <2>6, <2>7, <3>1 DEF Knows
    <3>2. CASE d # c
      BY <1>2, <1>3, <2>2, <2>4, <2>6, <2>7, <3>2 DEF LevelInv, Knows
    <3>3. QED
      BY <3>1, <3>2
  <2>9. QED
    BY <2>1, <2>8 DEF LevelInv
<1>6. QED
  BY <1>4, <1>5

LEMMA LevelNext == TypeOK /\ QueueInOrder /\ Bounds /\ LevelInv /\ [Next]_vars => LevelInv'
<1> SUFFICES ASSUME TypeOK, QueueInOrder, Bounds, LevelInv, [Next]_vars PROVE LevelInv'
  OBVIOUS
<1>1. todo \subseteq Channels /\ (pc = "resync" => todo # {})
  BY DEF TypeOK, EngineType
<1>2. CASE \E t \in Tasks : SendInput(t)
  BY <1>2, LevelSend
<1>3. CASE SendOther \/ TimerPost
  <2>1. PICK e \in Event : e.kind # "input" /\ e.seq = evtSeq + 1 /\ EvtSend(e)
    <3>1. CASE SendOther
      BY <3>1 DEF SendOther, OtherEvt, Event, OtherEvent, PosNat, TypeOK, QueueType
    <3>2. CASE TimerPost
      <4> DEFINE e == TimerEvt(evtSeq + 1, cb.id, cb.ch, repNo[cb.ch])
      <4>1. e \in Event /\ e.seq = evtSeq + 1 /\ e.kind = "timer"
        BY <3>2 DEF TimerPost, TypeOK, QueueType, TimerType, HistType, Event, TimerEvent, TimerEvt, PosNat
      <4>2. EvtSend(e)
        BY <3>2 DEF TimerPost
      <4>3. QED
        BY <4>1, <4>2
    <3>3. QED
      BY <1>3, <3>1, <3>2
  <2>2. UNCHANGED <<level, rep, inputLost, seen, todo, pc, mark, cut>>
    BY <1>3 DEF SendOther, TimerPost, inputVars, ruleVars, histVars
  <2>3. \A c \in Channels : News(c)' = News(c)
    BY <2>1, <2>2, QueueGrows DEF News
  <2>4. \A c \in Channels : EndsOn(c, level[c])' <=> EndsOn(c, level[c])
    BY <2>2, <2>3 DEF EndsOn
  <2>5. /\ FirstTodo' = FirstTodo /\ (pc = "resync" => FirstTodo \in Channels)
        /\ \A c \in Channels : (Reporting(c)' <=> Reporting(c)) /\ (Resyncing(c)' <=> Resyncing(c))
    BY <1>1, <2>2, FirstTodoIn DEF FirstTodo, Reporting, Resyncing
  <2>6. QED
    BY <2>2, <2>3, <2>4, <2>5 DEF LevelInv, Knows
<1>4. CASE Receive \/ InputCutShort
  BY <1>4, LevelReceive
<1>5. CASE ResyncMark \/ ResyncRead \/ ResyncAbort
  BY <1>5, LevelResync
<1>6. CASE TakeLost
  <2>1. UNCHANGED <<level, rep, queue, seen, mark, cut>> /\ todo' = inputLost /\ pc' # "resync" /\ todo = {}
    BY <1>6 DEF TakeLost, inputVars, ruleVars, Bounds
  <2>2. \A c \in Channels : News(c)' = News(c) /\ (Reporting(c)' <=> Reporting(c)) /\ (Resyncing(c) => Resyncing(c)')
    BY <2>1 DEF News, Queued, Reporting, Resyncing
  <2>3. \A c \in Channels : EndsOn(c, level[c])' <=> EndsOn(c, level[c])
    BY <2>1, <2>2 DEF EndsOn
  <2>4. QED
    BY <2>1, <2>2, <2>3 DEF LevelInv, Knows
<1>7. CASE \E t \in Tasks : ReadPin(t) \/ MarkLost(t)
  <2>1. PICK t \in Tasks : ReadPin(t) \/ MarkLost(t)
    BY <1>7
  <2>2. PICK c \in Channels : c = rep[t].ch
    BY DEF TypeOK, InputType
  <2>3. UNCHANGED <<queue, seen, mark, todo, pc, cut>> /\ inputLost \subseteq inputLost'
    BY <2>1 DEF ReadPin, MarkLost, queueVars, ruleVars, histVars
  <2>4. \A d \in Channels : News(d)' = News(d)
    BY <2>3 DEF News, Queued
  <2>5. CASE ReadPin(t)
    <3>1. /\ rep[t].at = "read" /\ level' = [level EXCEPT ![c] = pin[c]]
          /\ IF t = "mqtt_task" \/ pin[c] # level[c] THEN rep' = [rep EXCEPT ![t].at = "send"] ELSE NextChannel(t)
      BY <2>2, <2>5 DEF ReadPin
    <3>2. \A d \in Channels : d # c => level'[d] = level[d]
      BY <3>1 DEF TypeOK, InputType
    <3>3. Reporting(c)' \/ level'[c] = level[c]
      BY <2>2, <3>1 DEF Reporting, TypeOK, InputType
    <3>4. \A d \in Channels : Reporting(d) => Reporting(d)'
      BY <2>2, <3>1 DEF Reporting, NextChannel, TypeOK, InputType
    <3>5. \A d \in Channels : \/ Reporting(d)' \/ d \in inputLost'
                              \/ level'[d] = level[d] /\ ~Reporting(d)
      BY <3>2, <3>3, <3>4
    <3>6. QED
      BY <1>1, <2>3, <2>4, <3>5, LevelFrame
  <2>6. CASE MarkLost(t)
    <3>1. level' = level /\ c \in inputLost' /\ NextChannel(t) /\ rep[t].at = "drop"
      BY <2>2, <2>6 DEF MarkLost
    <3>2. \A d \in Channels : d # c /\ Reporting(d) => Reporting(d)'
      BY <2>2, <3>1 DEF Reporting, NextChannel, TypeOK, InputType
    <3>3. \A d \in Channels : \/ Reporting(d)' \/ d \in inputLost'
                              \/ level'[d] = level[d] /\ ~Reporting(d)
      BY <3>1, <3>2
    <3>4. QED
      BY <1>1, <2>3, <2>4, <3>3, LevelFrame
  <2>7. QED
    BY <2>1, <2>5, <2>6
<1>8. CASE \/ UNCHANGED vars \/ ScanBegin \/ PublishAllBegin \/ DrainOne \/ DrainEnd \/ ReceiveTimeout \/ TimerDefer
           \/ (\E c \in Channels : Edge(c)) \/ (\E x \in table : TimerElapses(x))
  <2>1. UNCHANGED <<level, queue, inputLost, seen, mark, todo, cut>> /\ (pc' = pc \/ pc' # "resync")
    BY <1>8 DEF vars, inputVars, queueVars, ruleVars, histVars, ScanBegin, PublishAllBegin, DrainOne, DrainEnd,
       ReceiveTimeout, TimerDefer, Edge, TimerElapses, RunTimer
  <2>2. \A c \in Channels : Reporting(c) => Reporting(c)'
    BY <1>8 DEF vars, inputVars, ScanBegin, PublishAllBegin, DrainOne, DrainEnd,
       ReceiveTimeout, TimerDefer, Edge, TimerElapses, MuxFree, Reporting
  <2>3. \A c \in Channels : News(c)' = News(c)
    BY <2>1 DEF News, Queued
  <2>4. \A d \in Channels : \/ Reporting(d)' \/ d \in inputLost' \/ (level'[d] = level[d] /\ ~Reporting(d))
    BY <2>1, <2>2
  <2>5. QED
    BY <1>1, <2>1, <2>3, <2>4, LevelFrame
<1>9. QED
  BY <1>2, <1>3, <1>4, <1>5, <1>6, <1>7, <1>8 DEF Next, Report, TimerTask, Engine

\* In numbers and in positions the last of the news is the same.
LEMMA LevelsKept == ASSUME TypeOK, QueueInOrder, Bounds, LevelInv PROVE NoLevelLostUnlessCut
<1>1. /\ queue \in Seq(Event) /\ DOMAIN queue = 1 .. Len(queue) /\ Len(queue) \in Nat
      /\ \A i \in DOMAIN queue : queue[i] \in Queued /\ queue[i].seq \in Nat /\ i \in Nat
  <2>1. queue \in Seq(Event) /\ DOMAIN queue = 1 .. Len(queue) /\ Len(queue) \in Nat
    BY LenProperties DEF TypeOK, QueueType
  <2>2. \A i \in DOMAIN queue : queue[i] \in Queued
    BY DEF Queued
  <2>3. QED
    BY <2>1, <2>2, QueuedTypes
<1>2. ASSUME NEW c \in Channels PROVE /\ \A i \in Fresh(c) : i \in DOMAIN queue /\ queue[i] \in News(c)
                                      /\ \A x \in News(c) : \E i \in Fresh(c) : queue[i] = x
  <2>1. mark[c] \in Nat
    BY DEF TypeOK, EngineType
  <2>2. \A n \in Nat : ~(n <= mark[c]) <=> n > mark[c]
    BY <2>1
  <2>3. QED
    BY <1>1, <2>2 DEF Fresh, News, Queued, InputEventStale
<1>3. SUFFICES ASSUME NEW c \in Channels, ~Reporting(c), ~Resyncing(c)
               PROVE  IF Fresh(c) = {} THEN Knows(c)
                      ELSE \A i \in Fresh(c) : (\A j \in Fresh(c) : j <= i) => queue[i].state = level[c]
  BY DEF NoLevelLostUnlessCut, EndsLive, Knows
<1>4. EndsOn(c, level[c]) /\ (News(c) = {} => Knows(c))
  BY <1>3 DEF LevelInv
<1>5. ASSUME NEW i \in Fresh(c), \A j \in Fresh(c) : j <= i PROVE queue[i].state = level[c]
  <2>1. \A j \in Fresh(c) : queue[j].seq <= queue[i].seq
    <3>1. ASSUME NEW j \in Fresh(c) PROVE queue[j].seq <= queue[i].seq
      <4>1. i \in DOMAIN queue /\ j \in DOMAIN queue /\ (j < i \/ j = i)
        BY <1>1, <1>2, <1>5
      <4>2. QED
        BY <1>1, <4>1 DEF QueueInOrder
    <3>2. QED
      BY <3>1
  <2>2. \A x \in News(c) : x.seq <= queue[i].seq
    BY <1>2, <2>1
  <2>3. QED
    BY <1>2, <1>4, <2>2 DEF EndsOn
<1>6. QED
  BY <1>2, <1>4, <1>5

\* An input change the queue refused is never forgotten: with no report and no resync
\* on its way, what the engine saw of a channel last, or will have when the queue is
\* handled, is its level, unless the last event of it that was taken was cut short -
\* for any number of channels and any depth of the queue.
THEOREM NoInputForgotten == Spec => []NoLevelLostUnlessCut
<1>1. TypeOK /\ QueueInOrder /\ Bounds /\ LevelInv /\ [Next]_vars => Bounds' /\ LevelInv'
  BY BoundsNext, LevelNext
<1>2. TypeOK /\ QueueInOrder /\ Bounds /\ LevelInv => NoLevelLostUnlessCut
  BY LevelsKept
<1>3. QED
  BY <1>1, <1>2, BoundsInit, TypeCorrect, QueueOrdered, PTL DEF Spec

-----------------------------------------------------------------------------
(* No heldFor() rule fires on a level older than its timer, unless the pass   *)
(* could not resync the channel or its last event was cut short.  Every       *)
(* report a timer looks back at is in the level the engine has, or was cut    *)
(* short, in the queue, or will be made up for by a resync.                   *)

\* The deferred timers and those in the queue.
Timers ==
    {e \in Queued : e.kind = "timer"} \cup {ring[i] : i \in DOMAIN ring}
    \cup (IF cb.at = "defer" THEN {cb.evt} ELSE {})
TimersOk == \A e \in Timers : e.upto <= repNo[e.ch] /\ e.upto < e.seq

\* The reports of a channel that a timer looks back at, or will.
Reports(c) == {repNo[c]} \cup {e.upto : e \in {x \in Timers : x.ch = c}}

Known(c, u)    == (view[c] >= u \/ c \in cut) /\ \A x \in News(c) : x.seq >= u
OnItsWay(c, u) == \E x \in News(c) : x.seq = u
Dropped(c)     == \E t \in Tasks : rep[t].at = "drop" /\ rep[t].ch = c
Behind(u)      == \E x \in Queued : x.seq < u

\* Where report u of channel c is: at any time; after the pass took the lost channels,
\* when a refused report must wait for a later pass but so must its timer, behind the
\* events that filled the queue; and between a channel's mark and its read.
Kept(c, u)    == Known(c, u) \/ OnItsWay(c, u) \/ Resyncing(c) \/ Dropped(c)
InPass(c, u)  == Known(c, u) \/ OnItsWay(c, u) \/ c \in todo \/ c \in unsynced \/ Behind(u)
ForRead(c, u) == u <= mark[c] \/ OnItsWay(c, u) \/ ((c \in inputLost \/ Dropped(c)) /\ Behind(u))
Accounted(c, u) ==
    /\ Kept(c, u)
    /\ pc # "pass" => InPass(c, u)
    /\ pc = "resync" /\ c = FirstTodo => ForRead(c, u)

ReportInv == \A c \in Channels : \A u \in Reports(c) : Accounted(c, u)

LEMMA ReportsInit == Init => TimersOk /\ ReportInv
<1> SUFFICES ASSUME Init PROVE TimersOk /\ ReportInv
  OBVIOUS
<1>1. Timers = {}
  BY DEF Init, Timers, Queued
<1>2. ASSUME NEW c \in Channels PROVE Reports(c) = {0} /\ Known(c, 0) /\ pc = "pass"
  <2>1. repNo[c] = 0 /\ view[c] = 0 /\ News(c) = {} /\ pc = "pass"
    BY DEF Init, News, Queued
  <2>2. Reports(c) = {0}
    BY <1>1, <2>1 DEF Reports
  <2>3. QED
    BY <2>1, <2>2 DEF Known
<1>3. QED
  BY <1>1, <1>2 DEF TimersOk, ReportInv, Accounted, Kept

\* The timers on their way are timer events.
LEMMA TimersTyped ==
    ASSUME TypeOK, QueueInOrder
    PROVE  \A e \in Timers : e \in TimerEvent /\ e.ch \in Channels /\ e.upto \in Nat /\ e.seq \in Nat
<1>1. \A i \in DOMAIN ring : ring[i] \in TimerEvent
  BY ElementOfSeq, LenProperties DEF TypeOK, TimerType
<1>2. cb.at = "defer" => cb.evt \in TimerEvent
  BY DEF TypeOK, TimerType
<1>3. Timers \subseteq TimerEvent
  BY <1>1, <1>2, QueuedTypes DEF Timers
<1>4. QED
  BY <1>3 DEF TimerEvent, PosNat

\* The reports are numbers handed out.
LEMMA ReportsTyped ==
    ASSUME TypeOK, QueueInOrder, Bounds, TimersOk, NEW c \in Channels
    PROVE  \A u \in Reports(c) : u \in Nat /\ u <= repNo[c] /\ u <= evtSeq
<1>1. repNo[c] \in Nat /\ repNo[c] <= evtSeq /\ evtSeq \in Nat
  BY DEF Bounds, TypeOK, HistType, QueueType
<1>2. ASSUME NEW e \in Timers, e.ch = c PROVE e.upto \in Nat /\ e.upto <= repNo[c]
  BY <1>2, TimersTyped DEF TimersOk
<1>3. QED
  BY <1>1, <1>2 DEF Reports

\* A step that moves no news, no view and no mark keeps a report accounted for.
LEMMA AccountFrame ==
    ASSUME NEW c \in Channels, NEW u, Accounted(c, u),
           News(c)' = News(c), view'[c] = view[c], mark'[c] = mark[c], todo' = todo, cut' = cut,
           unsynced \subseteq unsynced', inputLost \subseteq inputLost',
           Dropped(c) => Dropped(c)' \/ c \in inputLost',
           Queued \subseteq Queued',
           pc' # "pass" => pc # "pass", pc' = "resync" => pc = "resync"
    PROVE  Accounted(c, u)'
<1>1. FirstTodo' = FirstTodo
  BY DEF FirstTodo
<1>2. (Known(c, u) => Known(c, u)') /\ (OnItsWay(c, u) => OnItsWay(c, u)') /\ (Behind(u) => Behind(u)')
  BY DEF Known, OnItsWay, Behind
<1>3. Kept(c, u)'
  BY <1>2 DEF Accounted, Kept, Resyncing
<1>4. pc' # "pass" => InPass(c, u)'
  BY <1>2 DEF Accounted, InPass
<1>5. pc' = "resync" /\ c = FirstTodo' => ForRead(c, u)'
  BY <1>1, <1>2 DEF Accounted, ForRead
<1>6. QED
  BY <1>3, <1>4, <1>5 DEF Accounted

\* A step puts at most one timer on its way: the one it posts, which looks back at the
\* last report of its channel.
LEMMA TimersStep ==
    ASSUME TypeOK, QueueInOrder, [Next]_vars
    PROVE  \A e \in Timers' :
             e \in Timers \/ (e.seq = evtSeq + 1 /\ e.ch \in Channels /\ e.upto = repNo[e.ch])
<1> DEFINE Ringed == {ring[i] : i \in DOMAIN ring}
           Calling == IF cb.at = "defer" THEN {cb.evt} ELSE {}
<1>1. CASE \E t \in Tasks : SendInput(t)
  <2>1. PICK t \in Tasks : SendInput(t)
    BY <1>1
  <2> DEFINE x == InputEvt(evtSeq + 1, rep[t].ch, level[rep[t].ch])
  <2>2. x \in Event /\ x.kind # "timer" /\ EvtSend(x) /\ UNCHANGED <<ring, cb>>
    BY <2>1 DEF SendInput, TypeOK, InputType, QueueType, Event, InputEvent, InputEvt, PosNat
  <2> HIDE DEF x
  <2>3. Queued' \subseteq Queued \cup {x}
    BY <2>2, QueueGrows
  <2>4. QED
    BY <2>2, <2>3 DEF Timers
<1>2. CASE SendOther
  <2> DEFINE x == OtherEvt(evtSeq + 1)
  <2>1. x \in Event /\ x.kind # "timer" /\ EvtSend(x) /\ UNCHANGED <<ring, cb>>
    BY <1>2 DEF SendOther, TypeOK, QueueType, Event, OtherEvent, OtherEvt, PosNat
  <2> HIDE DEF x
  <2>2. Queued' \subseteq Queued \cup {x}
    BY <2>1, QueueGrows
  <2>3. QED
    BY <2>1, <2>2 DEF Timers
<1>3. CASE TimerPost
  <2> DEFINE x == TimerEvt(evtSeq + 1, cb.id, cb.ch, repNo[cb.ch])
  <2>1. /\ x \in Event /\ x.seq = evtSeq + 1 /\ x.ch \in Channels /\ x.upto = repNo[x.ch]
        /\ EvtSend(x) /\ cb' = AfterPost(x) /\ UNCHANGED ring
    BY <1>3 DEF TimerPost, TypeOK, QueueType, TimerType, HistType, Event, TimerEvent, TimerEvt, PosNat
  <2> HIDE DEF x
  <2>2. Queued' \subseteq Queued \cup {x}
    BY <2>1, QueueGrows
  <2>3. Calling' \subseteq {x}
    BY <2>1 DEF AfterPost
  <2>4. QED
    BY <2>1, <2>2, <2>3 DEF Timers
<1>4. CASE TimerDefer
  <2>1. Queued' = Queued /\ cb.at = "defer" /\ cb'.at = "idle"
    BY <1>4 DEF TimerDefer, Queued, queueVars
  <2>2. Ringed' \subseteq Ringed \cup {cb.evt}
    <3>1. ring \in Seq(TimerEvent) /\ cb.evt \in TimerEvent
      BY <2>1 DEF TypeOK, TimerType
    <3>2. CASE ring' = ring
      BY <3>2
    <3>3. CASE ring' = Append(ring, cb.evt)
      <4>1. /\ DOMAIN ring = 1 .. Len(ring) /\ DOMAIN ring' = 1 .. Len(ring) + 1 /\ Len(ring) \in Nat
            /\ \A i \in 1 .. Len(ring) : ring'[i] = ring[i]
            /\ ring'[Len(ring) + 1] = cb.evt
        BY <3>1, <3>3, AppendProperties, LenProperties
      <4>2. \A i \in DOMAIN ring' : i \in DOMAIN ring \/ i = Len(ring) + 1
        BY <4>1
      <4>3. QED
        BY <4>1, <4>2
    <3>4. QED
      BY <1>4, <3>2, <3>3 DEF TimerDefer
  <2>3. QED
    BY <2>1, <2>2 DEF Timers
<1>5. CASE DrainOne
  <2>1. Queued' = Queued /\ cb' = cb /\ ring' = Tail(ring) /\ ring # <<>>
    BY <1>5 DEF DrainOne, Due, Queued, queueVars
  <2>2. Ringed' \subseteq Ringed
    <3>1. /\ DOMAIN ring = 1 .. Len(ring) /\ DOMAIN ring' = 1 .. Len(ring) - 1 /\ Len(ring) \in Nat
          /\ \A i \in 1 .. Len(ring) - 1 : ring'[i] = ring[i + 1]
      BY <2>1, HeadTailProperties, LenProperties, EmptySeq DEF TypeOK, TimerType
    <3>2. \A i \in DOMAIN ring' : i + 1 \in DOMAIN ring /\ ring'[i] = ring[i + 1]
      BY <3>1
    <3>3. QED
      BY <3>2
  <2>3. QED
    BY <2>1, <2>2 DEF Timers
<1>6. CASE Receive \/ InputCutShort
  <2>1. Queued' \subseteq Queued /\ UNCHANGED <<ring, cb>>
    BY <1>6, QueueShrinks DEF Receive, InputCutShort
  <2>2. QED
    BY <2>1 DEF Timers
<1>7. CASE \E s \in table : TimerElapses(s)
  <2>1. UNCHANGED <<queue, ring>> /\ cb'.at = "post"
    BY <1>7 DEF TimerElapses, queueVars
  <2>2. QED
    BY <2>1 DEF Timers, Queued
<1>8. CASE UNCHANGED <<queue, ring, cb>>
  BY <1>8 DEF Timers, Queued
<1>9. QED
  BY <1>1, <1>2, <1>3, <1>4, <1>5, <1>6, <1>7, <1>8
  DEF Next, Report, TimerTask, Engine, vars, queueVars, Edge, ScanBegin,
      PublishAllBegin, ReadPin, MarkLost, TakeLost, ResyncMark, ResyncRead, ResyncAbort,
      DrainEnd, ReceiveTimeout

\* A report's number only grows: a channel's last one is its own, or the new one.
LEMMA ReportsGrow ==
    ASSUME TypeOK, Bounds, [Next]_vars
    PROVE  /\ \A c \in Channels : repNo'[c] >= repNo[c]
           /\ ~(\E t \in Tasks : SendInput(t)) => repNo' = repNo
<1>1. CASE \E t \in Tasks : SendInput(t)
  <2>1. PICK t \in Tasks : SendInput(t)
    BY <1>1
  <2>2. repNo' = [repNo EXCEPT ![rep[t].ch] = evtSeq + 1] /\ rep[t].ch \in Channels
    BY <2>1 DEF SendInput, TypeOK, InputType
  <2>3. \A c \in Channels : repNo[c] \in Nat /\ repNo[c] <= evtSeq /\ evtSeq \in Nat
    BY DEF TypeOK, HistType, QueueType, Bounds
  <2>4. QED
    BY <1>1, <2>2, <2>3 DEF TypeOK, HistType
<1>2. CASE repNo' = repNo
  <2>1. \A c \in Channels : repNo[c] \in Nat
    BY DEF TypeOK, HistType
  <2>2. QED
    BY <1>2, <2>1
<1>3. QED
  BY <1>1, <1>2
  DEF Next, Report, TimerTask, Engine, vars, histVars, Edge, ScanBegin,
      PublishAllBegin, ReadPin, MarkLost, SendOther, TimerElapses, TimerPost, TimerDefer, TakeLost,
      ResyncMark, ResyncRead, ResyncAbort, DrainOne, DrainEnd, Receive, InputCutShort, ReceiveTimeout

LEMMA TimersNext ==
    ASSUME TypeOK, QueueInOrder, Bounds, TimersOk, [Next]_vars
    PROVE  /\ TimersOk'
           /\ \A c \in Channels : Reports(c)' \subseteq Reports(c) \cup {repNo'[c]}
<1>1. /\ evtSeq \in Nat
      /\ \A c \in Channels : repNo[c] \in Nat /\ repNo[c] <= evtSeq /\ repNo'[c] \in Nat /\ repNo'[c] >= repNo[c]
  BY ReportsGrow, TypeNext DEF TypeOK, HistType, QueueType, Bounds
<1>2. ASSUME NEW e \in Timers' PROVE e.upto <= repNo'[e.ch] /\ e.upto < e.seq
  <2>1. CASE e \in Timers
    <3>1. e.upto <= repNo[e.ch] /\ e.upto < e.seq /\ e.ch \in Channels /\ e.upto \in Nat
      BY <2>1, TimersTyped DEF TimersOk
    <3>2. QED
      BY <1>1, <3>1
  <2>2. CASE e.seq = evtSeq + 1 /\ e.ch \in Channels /\ e.upto = repNo[e.ch]
    BY <1>1, <2>2
  <2>3. QED
    BY <2>1, <2>2, TimersStep
<1>3. ASSUME NEW c \in Channels, NEW e \in Timers', e.ch = c PROVE e.upto \in Reports(c)
  BY <1>3, TimersStep DEF Reports
<1>4. QED
  BY <1>2, <1>3 DEF TimersOk, Reports

\* A report is in the queue, or waits behind a full one for the bit of its channel.
LEMMA AccountSend ==
    ASSUME TypeOK, QueueInOrder, Bounds, TimersOk, ReportInv, NEW t \in Tasks, SendInput(t),
           NEW d \in Channels, NEW u, u \in Reports(d) \/ u = repNo'[d]
    PROVE  Accounted(d, u)'
<1>1. PICK c \in Channels : c = rep[t].ch
  BY DEF TypeOK, InputType
<1> DEFINE e == InputEvt(evtSeq + 1, c, level[c])
<1>2. /\ e \in Event /\ e.seq = evtSeq + 1 /\ e.kind = "input" /\ e.ch = c
      /\ UNCHANGED <<view, inputLost, pc, todo, mark, unsynced, cut>> /\ rep[t].at = "send"
      /\ repNo' = [repNo EXCEPT ![c] = evtSeq + 1]
  BY <1>1 DEF SendInput, ruleVars, histVars, TypeOK, InputType, QueueType, Event, InputEvent, InputEvt, PosNat
<1>3. /\ Queued' = IF IsFull THEN Queued ELSE Queued \cup {e}
      /\ IsFull => \E x \in Queued : x.seq <= evtSeq
  BY <1>1, <1>2, QueueGrows DEF SendInput
<1> HIDE DEF e
<1>4. /\ evtSeq \in Nat /\ mark[c] \in Nat /\ mark[c] < evtSeq + 1
      /\ \A x \in Queued : x.seq \in Nat /\ x.seq <= evtSeq
  <2>1. evtSeq \in Nat /\ mark[c] \in Nat /\ mark[c] <= evtSeq
    BY DEF Bounds, TypeOK, QueueType, EngineType
  <2>2. QED
    BY <2>1, QueuedTypes
<1>5. \A k \in Channels : Dropped(k) => Dropped(k)'
  BY <1>1, <1>2 DEF SendInput, NextChannel, Dropped, TypeOK, InputType
<1>6. u \in Reports(d) \/ (d = c /\ u = evtSeq + 1)
  BY <1>2 DEF Reports, TypeOK, HistType
<1>7. CASE News(d)' = News(d) /\ u \in Reports(d)
  BY <1>2, <1>3, <1>5, <1>7, AccountFrame DEF ReportInv
<1>8. CASE d = c /\ u = evtSeq + 1
  <2>1. CASE IsFull
    <3>1. Dropped(c)'
      BY <1>1, <1>2, <2>1 DEF SendInput, Dropped, TypeOK, InputType
    <3>2. Behind(u)'
      BY <1>3, <1>4, <1>8, <2>1 DEF Behind
    <3>3. QED
      BY <1>8, <3>1, <3>2 DEF Accounted, Kept, InPass, ForRead
  <2>2. CASE ~IsFull
    <3>1. e \in News(c)' /\ e.seq = u
      BY <1>2, <1>3, <1>4, <1>8, <2>2 DEF News
    <3>2. OnItsWay(c, u)'
      BY <3>1 DEF OnItsWay
    <3>3. QED
      BY <1>8, <3>2 DEF Accounted, Kept, InPass, ForRead
  <2>3. QED
    BY <2>1, <2>2
<1>9. CASE d = c /\ u \in Reports(c) /\ ~IsFull
  <2>1. News(c)' = News(c) \cup {e} /\ Queued \subseteq Queued'
    BY <1>2, <1>3, <1>4, <1>9 DEF News
  <2>2. u \in Nat /\ e.seq >= u
    BY <1>2, <1>4, <1>9, ReportsTyped
  <2>3. (Known(c, u) => Known(c, u)') /\ (OnItsWay(c, u) => OnItsWay(c, u)') /\ (Behind(u) => Behind(u)')
    BY <1>2, <2>1, <2>2 DEF Known, OnItsWay, Behind
  <2>4. FirstTodo' = FirstTodo
    BY <1>2 DEF FirstTodo
  <2>5. Accounted(c, u)
    BY <1>9 DEF ReportInv
  <2>6. Kept(c, u)'
    BY <1>2, <1>5, <2>3, <2>5 DEF Accounted, Kept, Resyncing
  <2>7. pc' # "pass" => InPass(c, u)'
    BY <1>2, <2>3, <2>5 DEF Accounted, InPass
  <2>8. pc' = "resync" /\ c = FirstTodo' => ForRead(c, u)'
    BY <1>2, <1>5, <2>3, <2>4, <2>5 DEF Accounted, ForRead
  <2>9. QED
    BY <1>9, <2>6, <2>7, <2>8 DEF Accounted
<1>10. d # c \/ IsFull => News(d)' = News(d)
  BY <1>2, <1>3 DEF News
<1>11. QED
  BY <1>6, <1>7, <1>8, <1>9, <1>10

\* What a reception takes from the queue, the engine's level has, or it was cut short.
LEMMA AccountReceive ==
    ASSUME TypeOK, QueueInOrder, Receive \/ InputCutShort, NEW d \in Channels, NEW u \in Nat, Accounted(d, u)
    PROVE  Accounted(d, u)'
<1> DEFINE e == Head(queue)
<1>1. /\ queue # <<>> /\ queue' = Tail(queue) /\ pc' = "pass"
      /\ UNCHANGED <<rep, inputLost, todo, mark>>
  BY DEF Receive, InputCutShort, inputVars
<1>2. /\ e \in Queued /\ Queued = Queued' \cup {e} /\ \A x \in Queued' : x.seq > e.seq
      /\ \A x \in Queued : x.seq \in Nat
      /\ e.kind = "input" => e \in InputEvent
  <2>1. e \in Queued /\ Queued = Queued' \cup {e} /\ \A x \in Queued' : x.seq > e.seq
    BY <1>1, QueueShrinks
  <2> HIDE DEF e
  <2>2. QED
    BY <2>1, QueuedTypes
<1>3. IF e \in News(d) THEN view'[d] = e.seq \/ d \in cut'
      ELSE view'[d] = view[d] /\ (d \in cut => d \in cut')
  <2>1. view \in [Channels -> Nat] /\ mark[d] \in Nat
    BY DEF TypeOK, HistType, EngineType
  <2>2. e.kind = "input" => e.ch \in Channels /\ e.seq \in Nat /\ mark[e.ch] \in Nat
    BY <1>2 DEF InputEvent, PosNat, TypeOK, EngineType
  <2>3. e \in News(d) <=> e.kind = "input" /\ e.ch = d /\ ~InputEventStale(d, e.seq)
    BY <1>2, <2>1, <2>2 DEF News, InputEventStale
  <2>4. \/ /\ e.kind = "input" /\ ~InputEventStale(e.ch, e.seq)
           /\ \/ view' = [view EXCEPT ![e.ch] = e.seq] /\ cut' = cut \ {e.ch}
              \/ view' = view /\ cut' = cut \cup {e.ch}
        \/ ~(e.kind = "input" /\ ~InputEventStale(e.ch, e.seq)) /\ view' = view /\ cut' = cut
    BY DEF Receive, InputCutShort
  <2> HIDE DEF e
  <2>5. QED
    BY <2>1, <2>3, <2>4
<1> HIDE DEF e
<1>4. News(d)' = News(d) \ {e}
  <2>1. e \notin Queued'
    BY <1>2
  <2>2. QED
    BY <1>1, <1>2, <2>1 DEF News
<1>5. CASE Known(d, u)
  <2>1. view'[d] >= u \/ d \in cut'
    BY <1>3, <1>5 DEF Known
  <2>2. QED
    BY <1>1, <1>4, <1>5, <2>1 DEF Known, Accounted, Kept
<1>6. CASE OnItsWay(d, u)
  <2>1. PICK x \in News(d) : x.seq = u
    BY <1>6 DEF OnItsWay
  <2>2. CASE x = e
    <3>1. view'[d] >= u \/ d \in cut'
      BY <1>2, <1>3, <2>1, <2>2
    <3>2. \A y \in News(d)' : y.seq >= u
      <4>1. ASSUME NEW y \in News(d)' PROVE y.seq >= u
        <5>1. y \in Queued' /\ y \in Queued
          BY <1>2, <4>1 DEF News
        <5>2. y.seq > e.seq /\ y.seq \in Nat /\ e.seq = u
          BY <1>2, <2>1, <2>2, <5>1
        <5>3. QED
          BY <5>2
      <4>2. QED
        BY <4>1
    <3>3. QED
      BY <1>1, <3>1, <3>2 DEF Known, Accounted, Kept
  <2>3. CASE x # e
    BY <1>1, <1>4, <2>1, <2>3 DEF OnItsWay, Accounted, Kept
  <2>4. QED
    BY <2>2, <2>3
<1>7. CASE Resyncing(d) \/ Dropped(d)
  BY <1>1, <1>7 DEF Resyncing, Dropped, Accounted, Kept
<1>8. QED
  BY <1>5, <1>6, <1>7 DEF Accounted, Kept

\* A mark covers every report before it, and the read after it brings the last of them.
LEMMA AccountResync ==
    ASSUME TypeOK, QueueInOrder, Bounds, TimersOk, ResyncMark \/ ResyncRead \/ ResyncAbort,
           NEW d \in Channels, NEW u \in Reports(d), Accounted(d, u)
    PROVE  Accounted(d, u)'
<1>1. PICK c \in todo : c = FirstTodo
  BY FirstTodoIn DEF TypeOK, EngineType, ResyncMark, ResyncRead, ResyncAbort
<1>2. /\ Queued' = Queued /\ (Dropped(d)' <=> Dropped(d)) /\ (Behind(u)' <=> Behind(u))
      /\ c \in Channels /\ u \in Nat /\ u <= evtSeq /\ u <= repNo[d] /\ pc # "pass"
  <2>1. Queued' = Queued /\ (Dropped(d)' <=> Dropped(d))
    BY DEF ResyncMark, ResyncRead, ResyncAbort, inputVars, queueVars, Queued, Dropped
  <2>2. Behind(u)' <=> Behind(u)
    BY <2>1 DEF Behind
  <2>3. c \in Channels /\ pc # "pass"
    BY <1>1 DEF ResyncMark, ResyncRead, ResyncAbort, TypeOK, EngineType
  <2>4. QED
    BY <2>1, <2>2, <2>3, ReportsTyped
<1>3. CASE ResyncMark
  <2>1. /\ mark' = [mark EXCEPT ![c] = evtSeq] /\ pc' = "resync"
        /\ UNCHANGED <<todo, inputLost, view, unsynced, cut>>
    BY <1>1, <1>3 DEF ResyncMark, histVars, queueVars
  <2>2. FirstTodo' = c
    BY <1>1, <2>1 DEF FirstTodo
  <2>3. CASE d = c
    <3>1. d \in todo' /\ u <= mark'[d]
      BY <1>1, <1>2, <2>1, <2>3 DEF TypeOK, EngineType
    <3>2. QED
      BY <3>1 DEF Accounted, Kept, InPass, ForRead, Resyncing
  <2>4. CASE d # c
    <3>1. News(d)' = News(d)
      BY <1>2, <2>1, <2>4 DEF News, TypeOK, EngineType
    <3>2. (Known(d, u) => Known(d, u)') /\ (OnItsWay(d, u) => OnItsWay(d, u)')
      BY <2>1, <3>1 DEF Known, OnItsWay
    <3>3. QED
      BY <1>2, <2>1, <2>2, <2>4, <3>2 DEF Accounted, Kept, InPass, Resyncing
  <2>5. QED
    BY <2>3, <2>4
<1>4. CASE ResyncRead
  <2>1. /\ UNCHANGED <<mark, inputLost, unsynced>> /\ pc = "resync" /\ pc' # "resync"
        /\ todo' = todo \ {c} /\ view' = [view EXCEPT ![c] = repNo[c]] /\ cut' = cut \ {c}
    BY <1>1, <1>4 DEF ResyncRead, ResyncNext, queueVars
  <2>2. News(d)' = News(d)
    BY <1>2, <2>1 DEF News
  <2>3. CASE d = c
    <3>1. ForRead(d, u)
      BY <1>1, <2>1, <2>3 DEF Accounted
    <3>2. CASE u <= mark[d]
      <4>1. \A x \in News(d) : x.seq \in Nat /\ x.seq > mark[d] /\ mark[d] \in Nat
        BY QueuedTypes DEF News, TypeOK, EngineType
      <4>2. \A x \in News(d) : x.seq >= u
        BY <1>2, <3>2, <4>1
      <4>3. view'[d] >= u
        BY <1>2, <2>1, <2>3 DEF TypeOK, HistType
      <4>4. QED
        BY <2>1, <2>2, <4>2, <4>3 DEF Known, Accounted, Kept, InPass
    <3>3. CASE OnItsWay(d, u)
      BY <2>1, <2>2, <3>3 DEF OnItsWay, Accounted, Kept, InPass
    <3>4. CASE (d \in inputLost \/ Dropped(d)) /\ Behind(u)
      BY <1>2, <2>1, <3>4 DEF Resyncing, Accounted, Kept, InPass
    <3>5. QED
      BY <3>1, <3>2, <3>3, <3>4 DEF ForRead
  <2>4. CASE d # c
    <3>1. (Known(d, u) => Known(d, u)') /\ (OnItsWay(d, u) => OnItsWay(d, u)')
      BY <2>1, <2>2, <2>4 DEF Known, OnItsWay, TypeOK, HistType
    <3>2. QED
      BY <1>2, <2>1, <2>4, <3>1 DEF Accounted, Kept, InPass, Resyncing
  <2>5. QED
    BY <2>3, <2>4
<1>5. CASE ResyncAbort
  <2>1. /\ UNCHANGED <<mark, view, cut>> /\ pc' # "resync" /\ todo' = todo \ {c}
        /\ inputLost' = inputLost \cup {c} /\ unsynced' = unsynced \cup {c}
    BY <1>1, <1>5 DEF ResyncAbort, ResyncNext
  <2>2. News(d)' = News(d)
    BY <1>2, <2>1 DEF News
  <2>3. (Known(d, u) => Known(d, u)') /\ (OnItsWay(d, u) => OnItsWay(d, u)')
    BY <2>1, <2>2 DEF Known, OnItsWay
  <2>4. QED
    BY <1>2, <2>1, <2>3 DEF Accounted, Kept, InPass, Resyncing
<1>6. QED
  BY <1>3, <1>4, <1>5

LEMMA AccountNext ==
    ASSUME TypeOK, QueueInOrder, Bounds, TimersOk, ReportInv, [Next]_vars
    PROVE  TimersOk' /\ ReportInv'
<1>1. TimersOk' /\ \A c \in Channels : Reports(c)' \subseteq Reports(c) \cup {repNo'[c]}
  BY TimersNext
<1>2. CASE \E t \in Tasks : SendInput(t)
  BY <1>1, <1>2, AccountSend DEF ReportInv
<1>3. CASE ~ \E t \in Tasks : SendInput(t)
  <2>1. \A c \in Channels : Reports(c)' \subseteq Reports(c)
    BY <1>1, <1>3, ReportsGrow DEF Reports
  <2>2. SUFFICES ASSUME NEW c \in Channels, NEW u \in Reports(c), Accounted(c, u) PROVE Accounted(c, u)'
    BY <1>1, <2>1 DEF ReportInv
  <2>3. CASE SendOther \/ TimerPost
    <3>1. PICK e \in Event : e.kind # "input" /\ EvtSend(e)
      <4>1. CASE SendOther
        BY <4>1 DEF SendOther, OtherEvt, Event, OtherEvent, PosNat, TypeOK, QueueType
      <4>2. CASE TimerPost
        <5> DEFINE e == TimerEvt(evtSeq + 1, cb.id, cb.ch, repNo[cb.ch])
        <5>1. cb.id \in PosNat /\ cb.ch \in Channels /\ repNo[cb.ch] \in Nat /\ evtSeq + 1 \in PosNat
          BY <4>2 DEF TimerPost, TypeOK, QueueType, TimerType, HistType, PosNat
        <5>2. e \in TimerEvent /\ e.kind = "timer"
          BY <5>1 DEF TimerEvent, TimerEvt
        <5>3. EvtSend(e)
          BY <4>2 DEF TimerPost
        <5>4. QED
          BY <5>2, <5>3 DEF Event
      <4>3. QED
        BY <2>3, <4>1, <4>2
    <3>2. UNCHANGED <<rep, inputLost, view, todo, pc, mark, unsynced, cut>>
      BY <2>3 DEF SendOther, TimerPost, inputVars, histVars
    <3>3. Queued' = Queued \/ Queued' = Queued \cup {e}
      BY <3>1, QueueGrows
    <3>4. News(c)' = News(c) /\ (Dropped(c)' <=> Dropped(c)) /\ Queued \subseteq Queued'
      BY <3>1, <3>2, <3>3 DEF News, Dropped
    <3>5. QED
      BY <2>2, <3>2, <3>4, AccountFrame
  <2>4. CASE Receive \/ InputCutShort
    BY <2>2, <2>4, AccountReceive, ReportsTyped
  <2>5. CASE ResyncMark \/ ResyncRead \/ ResyncAbort
    BY <2>2, <2>5, AccountResync
  <2>6. CASE TakeLost
    <3>1. /\ UNCHANGED <<queue, view, rep, mark, cut>> /\ todo = {} /\ todo' = inputLost /\ pc' # "resync"
          /\ unsynced' = {rep[t].ch : t \in {k \in Tasks : rep[k].at = "drop"}}
      BY <2>6 DEF TakeLost, inputVars, Bounds
    <3>2. /\ (Known(c, u) => Known(c, u)') /\ (OnItsWay(c, u) => OnItsWay(c, u)')
          /\ (Resyncing(c) => c \in todo') /\ (Dropped(c) => Dropped(c)' /\ c \in unsynced')
      BY <3>1 DEF Known, OnItsWay, News, Queued, Resyncing, Dropped
    <3>3. QED
      BY <2>2, <3>1, <3>2 DEF Accounted, Kept, InPass, Resyncing
  <2>7. CASE \E t \in Tasks : ReadPin(t) \/ MarkLost(t)
    <3>1. PICK t \in Tasks : ReadPin(t) \/ MarkLost(t)
      BY <2>7
    <3>2. UNCHANGED <<queue, view, mark, todo, pc, unsynced, cut>> /\ inputLost \subseteq inputLost'
      BY <3>1 DEF ReadPin, MarkLost, queueVars, histVars
    <3>3. Dropped(c) => Dropped(c)' \/ c \in inputLost'
      BY <3>1 DEF ReadPin, MarkLost, NextChannel, Dropped, TypeOK, InputType
    <3>4. News(c)' = News(c) /\ Queued' = Queued
      BY <3>2 DEF News, Queued
    <3>5. QED
      BY <2>2, <3>2, <3>3, <3>4, AccountFrame
  <2>8. CASE \/ UNCHANGED vars \/ ScanBegin \/ PublishAllBegin \/ DrainOne \/ DrainEnd \/ ReceiveTimeout \/ TimerDefer
             \/ (\E k \in Channels : Edge(k)) \/ (\E x \in table : TimerElapses(x))
    <3>1. /\ UNCHANGED <<queue, inputLost, view, mark, todo, unsynced, cut>>
          /\ (pc' # "pass" => pc # "pass") /\ (pc' = "resync" => pc = "resync")
      BY <2>8 DEF vars, inputVars, queueVars, histVars, ScanBegin, PublishAllBegin, DrainOne, DrainEnd,
         ReceiveTimeout, TimerDefer, Edge, TimerElapses, RunTimer
    <3>2. Dropped(c) => Dropped(c)'
      BY <2>8 DEF vars, inputVars, ScanBegin, PublishAllBegin, DrainOne, DrainEnd,
         ReceiveTimeout, TimerDefer, Edge, TimerElapses, MuxFree, Dropped
    <3>3. News(c)' = News(c) /\ Queued' = Queued
      BY <3>1 DEF News, Queued
    <3>4. QED
      BY <2>2, <3>1, <3>2, <3>3, AccountFrame
  <2>9. QED
    BY <1>3, <2>3, <2>4, <2>5, <2>6, <2>7, <2>8 DEF Next, Report, TimerTask, Engine
<1>4. QED
  BY <1>2, <1>3

\* A rule fires when its timer runs, and every number behind the timer's is gone from
\* the queue: the engine's level is from the last report before it, or from a later one.
LEMMA FiredKnowing ==
    ASSUME TypeOK, QueueInOrder, Bounds, TimersOk, ReportInv, [Next]_vars,
           NEW c \in Channels, fired'[c], ~fired[c]
    PROVE  view[c] >= ran'.upto \/ c \in unsynced \/ c \in cut
<1>1. PICK e \in Timers : /\ RunTimer(e) /\ \A x \in Queued : x.seq >= e.seq
                          /\ pc # "pass" /\ todo = {}
  <2>1. CASE DrainOne
    <3>1. /\ RunTimer(Head(ring)) /\ ring # <<>> /\ pc = "drain"
          /\ queue # <<>> => Head(queue).seq > Head(ring).seq
      BY <2>1 DEF DrainOne, Due, EvtSeqAfter
    <3>2. Head(ring) \in Timers
      <4>1. 1 \in DOMAIN ring /\ Head(ring) = ring[1]
        BY <3>1, EmptySeq, LenProperties, HeadTailProperties DEF TypeOK, TimerType
      <4>2. QED
        BY <4>1 DEF Timers
    <3>3. ASSUME NEW x \in Queued PROVE x.seq >= Head(ring).seq
      <4>1. PICK i \in DOMAIN queue : x = queue[i]
        BY DEF Queued
      <4>2. /\ queue # <<>> /\ Head(queue) = queue[1] /\ 1 \in DOMAIN queue /\ i \in Nat /\ i >= 1
        BY <4>1, EmptySeq, LenProperties, HeadTailProperties DEF TypeOK, QueueType
      <4>3. queue[1] \in Queued
        BY <4>2 DEF Queued
      <4>4. queue[1].seq \in Nat /\ x.seq \in Nat /\ Head(ring).seq \in Nat
        BY <3>2, <4>3, QueuedTypes, TimersTyped
      <4>5. i = 1 \/ queue[1].seq < x.seq
        BY <4>1, <4>2 DEF QueueInOrder
      <4>6. QED
        BY <3>1, <4>1, <4>2, <4>4, <4>5
    <3>4. QED
      BY <3>1, <3>2, <3>3 DEF Bounds
  <2>2. CASE Receive
    <3> DEFINE h == Head(queue)
    <3>1. /\ queue # <<>> /\ queue' = Tail(queue) /\ pc = "receive"
          /\ \/ h.kind = "input" /\ OnInput(h.ch, h.state)
             \/ h.kind = "timer" /\ RunTimer(h)
             \/ UNCHANGED ruleVars
      BY <2>2 DEF Receive
    <3>2. h \in Queued /\ \A x \in Queued : x = h \/ x.seq > h.seq
      BY <3>1, QueueShrinks
    <3> HIDE DEF h
    <3>3. h.kind = "timer" /\ RunTimer(h)
      BY <3>1 DEF OnInput, ruleVars, TypeOK, EngineType
    <3>4. \A x \in Queued : x.seq \in Nat
      BY QueuedTypes
    <3>5. \A x \in Queued : x.seq >= h.seq
      BY <3>2, <3>4
    <3>6. QED
      BY <3>1, <3>2, <3>3, <3>5 DEF Timers, Bounds
  <2>3. CASE ResyncRead
    BY <2>3 DEF ResyncRead, OnInput, ruleVars, TypeOK, EngineType
  <2>4. CASE UNCHANGED fired
    BY <2>4
  <2>5. QED
    BY <2>1, <2>2, <2>3, <2>4
    DEF Next, Report, TimerTask, Engine, vars, ruleVars, Edge, ScanBegin, PublishAllBegin, ReadPin,
        SendInput, MarkLost, SendOther, TimerElapses, TimerPost, TimerDefer, TakeLost, ResyncMark,
        ResyncAbort, DrainEnd, InputCutShort, ReceiveTimeout
<1>2. ran'.upto = e.upto /\ e.ch = c
  BY <1>1 DEF RunTimer, ruleVars, TypeOK, EngineType
<1>3. e.upto \in Reports(c) /\ e.upto \in Nat /\ e.seq \in Nat /\ e.upto < e.seq
  BY <1>1, <1>2, TimersTyped DEF Reports, TimersOk
<1>4. InPass(c, e.upto)
  BY <1>1, <1>3 DEF ReportInv, Accounted
<1>5. \A x \in Queued : x.seq > e.upto
  BY <1>1, <1>3, QueuedTypes
<1>6. ~OnItsWay(c, e.upto) /\ ~Behind(e.upto)
  BY <1>3, <1>5, QueuedTypes DEF OnItsWay, Behind, News
<1>7. QED
  BY <1>1, <1>2, <1>4, <1>6 DEF InPass, Known

\* A heldFor() rule never fires on a level older than the last report before its timer
\* elapsed, except in a pass that could not resync its channel and after an event of it
\* that was cut short - whatever the depth of the queue, the size of the ring, and the
\* order of reports, timers and resyncs.
THEOREM HeldOnKnownLevel == Spec => HeldUnlessMissed
<1> DEFINE FiredLate == \A c \in Channels : fired'[c] /\ ~fired[c] =>
                          view[c] >= ran'.upto \/ c \in unsynced \/ c \in cut
           Ind == Bounds /\ TimersOk /\ ReportInv
<1>1. Init => Ind
  BY BoundsInit, ReportsInit
<1>2. TypeOK /\ QueueInOrder /\ Ind /\ [Next]_vars => Ind'
  BY BoundsNext, AccountNext
<1>3. TypeOK /\ QueueInOrder /\ Ind /\ [Next]_vars => [FiredLate]_vars
  BY FiredKnowing
<1>4. QED
  BY <1>1, <1>2, <1>3, TypeCorrect, QueueOrdered, PTL DEF Spec, HeldUnlessMissed

-----------------------------------------------------------------------------
(* When a timer can be lost.  Ids are never used twice in the model, so an     *)
(* event is for the channel whose rule waits for its id, if one still does;    *)
(* and each id is in the ring once, with the callback or running, but only in  *)
(* one of these places.                                                        *)

TableInv ==
    /\ \A s \in table : timer[s.ch] = s.id
    /\ \A c \in Channels :
         timer[c] # NoTimer => timer[c] < nextId /\ [id |-> timer[c], ch |-> c] \in table
    /\ \A c, d \in Channels : timer[c] # NoTimer /\ timer[c] = timer[d] => c = d

IsFor(i, c) == i < nextId /\ \A d \in Channels : timer[d] = i => d = c
IdsInv ==
    /\ \A e \in Timers : IsFor(e.id, e.ch)
    /\ cb.at = "post" => IsFor(cb.id, cb.ch)
    /\ \A i \in running : i < nextId

\* The id the callback is about to hand on.
CalledFor == IF cb.at = "post" THEN {cb.id} ELSE IF cb.at = "defer" THEN {cb.evt.id} ELSE {}
OnceInv ==
    /\ \A i, j \in DOMAIN ring : ring[i].id = ring[j].id => i = j
    /\ \A i \in DOMAIN ring : ring[i].id \notin running \cup CalledFor
    /\ CalledFor \cap running = {}

IdInv == TableInv /\ IdsInv /\ OnceInv

\* Underway(), with the events as a set.
OnWay(i) == i \in running \/ (cb.at = "post" /\ cb.id = i) \/ \E e \in Timers : e.id = i

LEMMA IdsTyped ==
    ASSUME TypeOK, QueueInOrder
    PROVE  /\ nextId \in Nat \ {0} /\ running \subseteq Nat \ {0}
           /\ timer \in [Channels -> Nat] /\ \A s \in table : s = [id |-> s.id, ch |-> s.ch]
           /\ \A s \in table : s.id \in Nat \ {0} /\ s.ch \in Channels
           /\ \A e \in Timers : e.id \in Nat \ {0} /\ e.ch \in Channels /\ e \in TimerEvent
           /\ cb.at = "post" => cb.id \in Nat \ {0} /\ cb.ch \in Channels
  BY TimersTyped DEF TypeOK, TimerType, EngineType, TimerEvent, PosNat

LEMMA IdsInit == Init => IdInv /\ TimerNotLost
<1> SUFFICES ASSUME Init PROVE IdInv /\ TimerNotLost
  OBVIOUS
<1>1. /\ Timers = {} /\ DOMAIN ring = {} /\ running = {} /\ table = {} /\ cb.at = "idle"
      /\ \A c \in Channels : timer[c] = NoTimer
  BY DEF Init, Timers, Queued
<1>2. QED
  BY <1>1 DEF IdInv, TableInv, IdsInv, OnceInv, CalledFor, TimerNotLost

\* A timer that is not lost is running, with the callback, in the queue or in the ring.
LEMMA NotLostMeans == TimerNotLost <=> \A c \in Channels : timer[c] # NoTimer => OnWay(timer[c])
<1>1. ASSUME NEW i
      PROVE  (\E e \in Timers : e.id = i)
               <=> \/ cb.at = "defer" /\ cb.evt.id = i
                   \/ \E k \in DOMAIN queue : queue[k].kind = "timer" /\ queue[k].id = i
                   \/ \E k \in DOMAIN ring : ring[k].id = i
  BY DEF Timers, Queued
<1>2. QED
  BY <1>1 DEF TimerNotLost, Underway, OnWay

\* What a rule does to the timers: it arms one that runs, under a new id, or gives one up.
TimersMove ==
    /\ nextId' \in {nextId, nextId + 1}
    /\ running' \subseteq running \cup (IF nextId' = nextId THEN {} ELSE {nextId})
    /\ \A c \in Channels :
         \/ timer'[c] = NoTimer
         \/ timer'[c] = timer[c] /\ (timer[c] \in running => timer[c] \in running')
         \/ timer'[c] = nextId /\ nextId \in running' /\ nextId' = nextId + 1

LEMMA OnInputMoves ==
    ASSUME TypeOK, QueueInOrder, IdInv, NEW c \in Channels, NEW l \in Levels, OnInput(c, l)
    PROVE  TimersMove /\ TableInv'
<1> USE IdsTyped
<1>1. CASE l = "high" /\ timer[c] = NoTimer /\ ~fired[c]
  <2>1. /\ timer' = [timer EXCEPT ![c] = nextId] /\ table' = table \cup {[id |-> nextId, ch |-> c]}
        /\ running' = running \cup {nextId} /\ nextId' = nextId + 1
    BY <1>1 DEF OnInput
  <2>2. TimersMove
    BY <2>1 DEF TimersMove
  <2>3. timer'[c] = nextId /\ \A d \in Channels : d # c => timer'[d] = timer[d]
    BY <2>1
  <2>4. \A s \in table' : timer'[s.ch] = s.id
    <3>1. ASSUME NEW s \in table PROVE s.ch # c
      BY <1>1 DEF IdInv, TableInv, NoTimer
    <3>2. QED
      BY <2>1, <2>3, <3>1 DEF IdInv, TableInv
  <2>5. ASSUME NEW d \in Channels, timer'[d] # NoTimer
        PROVE  timer'[d] < nextId' /\ [id |-> timer'[d], ch |-> d] \in table'
    BY <2>1, <2>3, <2>5 DEF IdInv, TableInv
  <2>6. ASSUME NEW d \in Channels, NEW f \in Channels, timer'[d] # NoTimer, timer'[d] = timer'[f]
        PROVE  d = f
    <3>1. ASSUME NEW g \in Channels, g # c PROVE timer'[g] = timer[g] /\ timer[g] # nextId
      <4>1. nextId \in Nat /\ nextId # 0 /\ timer[g] \in Nat
        OBVIOUS
      <4>2. timer[g] # 0 => timer[g] < nextId
        BY DEF IdInv, TableInv, NoTimer
      <4>3. QED
        BY <2>3, <3>1, <4>1, <4>2
    <3>2. d # c /\ f # c => d = f
      BY <2>6, <3>1 DEF IdInv, TableInv
    <3>3. QED
      BY <2>3, <2>6, <3>1, <3>2
  <2>7. TableInv'
    BY <2>4, <2>5, <2>6, Zenon DEF TableInv
  <2>8. QED
    BY <2>2, <2>7
<1>2. CASE l = "high" /\ ~(timer[c] = NoTimer /\ ~fired[c])
  BY <1>2 DEF OnInput, timerVars, TimersMove, IdInv, TableInv
<1>3. CASE l # "high"
  <2>1. /\ timer' = [timer EXCEPT ![c] = NoTimer] /\ table' = {s \in table : s.id # timer[c]}
        /\ running' = running \ {timer[c]} /\ nextId' = nextId
    BY <1>3 DEF OnInput
  <2>2. timer'[c] = NoTimer /\ \A d \in Channels : d # c => timer'[d] = timer[d]
    BY <2>1
  <2>3. TimersMove
    <3>1. ASSUME NEW d \in Channels, d # c, timer[d] # NoTimer PROVE timer[d] # timer[c]
      BY <3>1 DEF IdInv, TableInv
    <3>2. QED
      BY <2>1, <2>2, <3>1 DEF TimersMove
  <2>4. ASSUME NEW s \in table' PROVE timer'[s.ch] = s.id
    BY <2>1, <2>2 DEF IdInv, TableInv
  <2>5. ASSUME NEW d \in Channels, timer'[d] # NoTimer
        PROVE  timer'[d] < nextId' /\ [id |-> timer'[d], ch |-> d] \in table'
    BY <2>1, <2>2, <2>5 DEF IdInv, TableInv
  <2>6. ASSUME NEW d \in Channels, NEW f \in Channels, timer'[d] # NoTimer, timer'[d] = timer'[f]
        PROVE  d = f
    BY <2>2, <2>6 DEF IdInv, TableInv
  <2>7. TableInv'
    BY <2>4, <2>5, <2>6, Zenon DEF TableInv
  <2>8. QED
    BY <2>3, <2>7
<1>4. QED
  BY <1>1, <1>2, <1>3

LEMMA RunTimerMoves ==
    ASSUME TypeOK, QueueInOrder, IdInv, NEW e \in Timers, RunTimer(e)
    PROVE  TimersMove /\ TableInv' /\ \A c \in Channels : timer'[c] # e.id
<1> USE IdsTyped
<1>1. CASE \E s \in table : s.id = e.id
  <2>1. PICK s \in table : s.id = e.id
    BY <1>1
  <2>2. timer[s.ch] = e.id /\ s.ch = e.ch /\ s = [id |-> e.id, ch |-> e.ch]
    BY <2>1 DEF IdInv, TableInv, IdsInv, IsFor
  <2>3. /\ timer' = [timer EXCEPT ![e.ch] = NoTimer] /\ table' = {u \in table : u.id # e.id}
        /\ running' = running /\ nextId' = nextId
    BY <1>1 DEF RunTimer
  <2>4. timer'[e.ch] = NoTimer /\ \A d \in Channels : d # e.ch => timer'[d] = timer[d]
    BY <2>3
  <2>5. ASSUME NEW c \in Channels PROVE timer'[c] # e.id
    BY <2>2, <2>4 DEF IdInv, TableInv, NoTimer
  <2>6. TimersMove
    BY <2>3, <2>4 DEF TimersMove
  <2>7. ASSUME NEW u \in table' PROVE timer'[u.ch] = u.id
    BY <2>2, <2>3, <2>4 DEF IdInv, TableInv
  <2>8. ASSUME NEW d \in Channels, timer'[d] # NoTimer
        PROVE  timer'[d] < nextId' /\ [id |-> timer'[d], ch |-> d] \in table'
    BY <2>3, <2>4, <2>5, <2>8 DEF IdInv, TableInv
  <2>9. QED
    BY <2>4, <2>5, <2>6, <2>7, <2>8 DEF IdInv, TableInv
<1>2. CASE ~ \E s \in table : s.id = e.id
  <2>1. UNCHANGED <<table, running, nextId, timer>>
    BY <1>2 DEF RunTimer, timerVars, ruleVars
  <2>2. ASSUME NEW c \in Channels PROVE timer[c] # e.id
    BY <1>2 DEF IdInv, TableInv, NoTimer
  <2>3. QED
    BY <2>1, <2>2 DEF TimersMove, IdInv, TableInv
<1>3. QED
  BY <1>1, <1>2

\* Taking the first timer out of the ring leaves the others, each once.
LEMMA RingShrinks ==
    ASSUME TypeOK, IdInv, ring # <<>>, ring' = Tail(ring)
    PROVE  /\ {ring[i] : i \in DOMAIN ring} = {ring'[i] : i \in DOMAIN ring'} \cup {Head(ring)}
           /\ \A i \in DOMAIN ring' : i + 1 \in DOMAIN ring /\ ring'[i] = ring[i + 1]
           /\ \A i \in DOMAIN ring' : i \in Nat
<1>1. /\ DOMAIN ring = 1 .. Len(ring) /\ DOMAIN ring' = 1 .. Len(ring) - 1
      /\ Len(ring) \in Nat /\ Len(ring) >= 1 /\ Head(ring) = ring[1]
      /\ \A i \in 1 .. Len(ring) - 1 : ring'[i] = ring[i + 1]
  BY HeadTailProperties, LenProperties, EmptySeq DEF TypeOK, TimerType
<1>2. \A i \in DOMAIN ring' : i + 1 \in DOMAIN ring /\ ring'[i] = ring[i + 1] /\ i \in Nat
  BY <1>1
<1>3. ASSUME NEW i \in DOMAIN ring PROVE ring[i] = Head(ring) \/ \E j \in DOMAIN ring' : ring'[j] = ring[i]
  <2>1. CASE i = 1
    BY <1>1, <2>1
  <2>2. CASE i # 1
    <3>1. i - 1 \in DOMAIN ring' /\ ring'[i - 1] = ring[i]
      BY <1>1, <2>2
    <3>2. QED
      BY <3>1
  <2>3. QED
    BY <2>1, <2>2
<1>4. 1 \in DOMAIN ring
  BY <1>1
<1>5. {ring[i] : i \in DOMAIN ring} = {ring'[i] : i \in DOMAIN ring'} \cup {Head(ring)}
  <2>1. Head(ring) \in {ring[i] : i \in DOMAIN ring}
    BY <1>1, <1>4
  <2>2. \A i \in DOMAIN ring' : ring'[i] \in {ring[j] : j \in DOMAIN ring}
    BY <1>2
  <2>3. \A i \in DOMAIN ring : ring[i] \in {ring'[j] : j \in DOMAIN ring'} \cup {Head(ring)}
    BY <1>3
  <2>4. QED
    BY <2>1, <2>2, <2>3
<1>6. QED
  BY <1>2, <1>5

\* While the rules move timers and events are only taken, the ids stay apart.
LEMMA IdsStay ==
    ASSUME TypeOK, QueueInOrder, IdInv, TimersMove, TableInv', cb' = cb, Timers' \subseteq Timers,
           ring' = ring \/ (ring # <<>> /\ ring' = Tail(ring))
    PROVE  IdInv'
<1> USE IdsTyped
<1>1. ASSUME NEW i \in Nat \ {0}, NEW c, IsFor(i, c) PROVE IsFor(i, c)' /\ (i \notin running => i \notin running')
  BY <1>1 DEF IsFor, TimersMove, NoTimer
<1>2. IdsInv'
  <2>1. (\A e \in Timers : IsFor(e.id, e.ch))'
    BY <1>1 DEF IdInv, IdsInv
  <2>2. (cb.at = "post" => IsFor(cb.id, cb.ch))'
    BY <1>1 DEF IdInv, IdsInv
  <2>3. \A i \in running' : i < nextId'
    BY DEF IdInv, IdsInv, TimersMove
  <2>4. QED
    BY <2>1, <2>2, <2>3 DEF IdsInv
<1>3. OnceInv'
  <2>1. CalledFor' = CalledFor /\ \A i \in CalledFor : i \in Nat \ {0} /\ i < nextId
    BY DEF CalledFor, IdInv, IdsInv, IsFor, Timers
  <2>2. CalledFor \cap running' = {}
    BY <2>1 DEF IdInv, OnceInv, TimersMove
  <2>3. \A i \in DOMAIN ring : ring[i] \in Timers
    BY DEF Timers
  <2>4. \A i \in DOMAIN ring : ring[i].id \notin running' \cup CalledFor
    BY <1>1, <2>3 DEF IdInv, OnceInv, IdsInv
  <2>5. CASE ring' = ring
    BY <2>1, <2>2, <2>4, <2>5 DEF IdInv, OnceInv
  <2>6. CASE ring # <<>> /\ ring' = Tail(ring)
    <3>1. \A i \in DOMAIN ring' : i + 1 \in DOMAIN ring /\ ring'[i] = ring[i + 1] /\ i \in Nat
      BY <2>6, RingShrinks
    <3>2. ASSUME NEW i \in DOMAIN ring', NEW j \in DOMAIN ring', ring'[i].id = ring'[j].id PROVE i = j
      <4>1. i + 1 = j + 1
        BY <3>1, <3>2 DEF IdInv, OnceInv
      <4>2. QED
        BY <3>1, <4>1
    <3>3. QED
      BY <2>1, <2>2, <2>4, <3>1, <3>2 DEF OnceInv
  <2>7. QED
    BY <2>5, <2>6
<1>4. QED
  BY <1>2, <1>3 DEF IdInv

\* And none is lost, when no rule waits for an event that is taken.
LEMMA NoneIsLost ==
    ASSUME TypeOK, QueueInOrder, IdInv, TimersMove, cb' = cb, TimerNotLost,
           \A e \in Timers : e \in Timers' \/ \A c \in Channels : timer'[c] # e.id
    PROVE  TimerNotLost'
<1>1. ASSUME NEW c \in Channels, timer'[c] # NoTimer PROVE OnWay(timer[c])'
  <2>1. CASE timer'[c] = nextId /\ nextId \in running'
    BY <2>1 DEF OnWay
  <2>2. CASE timer'[c] = timer[c] /\ (timer[c] \in running => timer[c] \in running')
    <3>1. OnWay(timer[c])
      BY <1>1, <2>2, NotLostMeans
    <3>2. QED
      BY <2>2, <3>1 DEF OnWay
  <2>3. QED
    BY <1>1, <2>1, <2>2 DEF TimersMove
<1>2. (\A c \in Channels : timer[c] # NoTimer => OnWay(timer[c]))' => TimerNotLost'
  BY NotLostMeans, PTL
<1>3. QED
  BY <1>1, <1>2

\* The callback has room in the ring for a timer a rule still waits for.
RoomToDefer == cb.at = "defer" /\ (\E c \in Channels : timer[c] = cb.evt.id) => Len(ring) + 1 < OverflowSlots

\* The timers keep their ids, and one is lost only where the callback finds no room.
StepOk == IdInv' /\ (TimerNotLost /\ RoomToDefer => TimerNotLost')

LEMMA EventsFrame ==
    ASSUME TypeOK, QueueInOrder, IdInv, UNCHANGED <<timerVars, timer, ring, cb>>, Timers' = Timers
    PROVE  StepOk
<1>1. TimersMove /\ TableInv'
  BY DEF TimersMove, IdInv, TableInv, timerVars
<1>2. IdInv'
  BY <1>1, IdsStay
<1>3. TimerNotLost => TimerNotLost'
  BY <1>1, NoneIsLost
<1>4. QED
  BY <1>2, <1>3 DEF StepOk

LEMMA ElapsesStep ==
    ASSUME TypeOK, QueueInOrder, IdInv, NEW s \in table, TimerElapses(s)
    PROVE  StepOk
<1>1. /\ cb.at = "idle" /\ s.id \in running /\ running' = running \ {s.id}
      /\ cb' = [at |-> "post", id |-> s.id, ch |-> s.ch]
      /\ UNCHANGED <<queue, ring, table, nextId, timer>>
  BY DEF TimerElapses, queueVars, ruleVars
<1>2. Timers' = Timers
  BY <1>1 DEF Timers, Queued
<1>3. TableInv'
  BY <1>1 DEF IdInv, TableInv
<1>4. IdsInv'
  <2>1. s.id < nextId /\ \A d \in Channels : timer[d] = s.id => d = s.ch
    BY <1>1, IdsTyped DEF IdInv, TableInv, IdsInv, NoTimer
  <2>2. \A e \in Timers' : IsFor(e.id, e.ch)
    BY <1>2 DEF IdInv, IdsInv
  <2>3. \A e \in Timers' : e.id < nextId' /\ \A d \in Channels : timer'[d] = e.id => d = e.ch
    BY <1>1, <2>2 DEF IsFor
  <2>4. QED
    BY <1>1, <2>1, <2>3 DEF IdInv, IdsInv, IsFor
<1>5. OnceInv'
  BY <1>1 DEF IdInv, OnceInv, CalledFor
<1>6. TimerNotLost => TimerNotLost'
  <2>1. ASSUME NEW c \in Channels, TimerNotLost, timer[c] # NoTimer PROVE OnWay(timer[c])'
    <3>1. OnWay(timer[c])
      BY <2>1, NotLostMeans
    <3>2. QED
      BY <1>1, <1>2, <3>1 DEF OnWay
  <2>2. (\A c \in Channels : timer[c] # NoTimer => OnWay(timer[c]))' => TimerNotLost'
    BY NotLostMeans, PTL
  <2>3. QED
    BY <1>1, <2>1, <2>2
<1>7. QED
  BY <1>3, <1>4, <1>5, <1>6 DEF StepOk, IdInv

LEMMA PostStep ==
    ASSUME TypeOK, QueueInOrder, IdInv, TimerPost
    PROVE  StepOk
<1> DEFINE x == TimerEvt(evtSeq + 1, cb.id, cb.ch, repNo[cb.ch])
<1>1. /\ x \in Event /\ x.kind = "timer" /\ x.id = cb.id /\ x.ch = cb.ch
      /\ EvtSend(x) /\ cb.at = "post" /\ cb' = AfterPost(x)
      /\ UNCHANGED <<ring, table, running, nextId, timer>>
  BY DEF TimerPost, TypeOK, QueueType, TimerType, HistType, Event, TimerEvent, TimerEvt, PosNat,
     timerVars, ruleVars
<1> HIDE DEF x
<1>2. Timers' = Timers \cup {x}
  <2>1. CASE IsFull
    <3>1. Queued' = Queued /\ cb' = [at |-> "defer", evt |-> x]
      BY <1>1, <2>1, QueueGrows DEF AfterPost
    <3>2. QED
      BY <1>1, <3>1 DEF Timers
  <2>2. CASE ~IsFull
    <3>1. Queued' = Queued \cup {x} /\ cb' = [at |-> "idle"]
      BY <1>1, <2>2, QueueGrows DEF AfterPost
    <3>2. QED
      BY <1>1, <3>1 DEF Timers
  <2>3. QED
    BY <2>1, <2>2
<1>3. /\ cb'.at # "post" /\ (cb'.at = "defer" => cb'.evt = x)
      /\ CalledFor = {x.id} /\ CalledFor' \subseteq {x.id}
  BY <1>1 DEF AfterPost, CalledFor
<1>4. TableInv'
  BY <1>1 DEF IdInv, TableInv
<1>5. IdsInv'
  <2>1. \A e \in Timers' : IsFor(e.id, e.ch)
    BY <1>1, <1>2 DEF IdInv, IdsInv
  <2>2. \A e \in Timers' : e.id < nextId' /\ \A d \in Channels : timer'[d] = e.id => d = e.ch
    BY <1>1, <2>1 DEF IsFor
  <2>3. QED
    BY <1>1, <1>3, <2>2 DEF IdInv, IdsInv, IsFor
<1>6. OnceInv'
  BY <1>1, <1>3 DEF IdInv, OnceInv
<1>7. TimerNotLost => TimerNotLost'
  <2>1. ASSUME NEW c \in Channels, TimerNotLost, timer[c] # NoTimer PROVE OnWay(timer[c])'
    <3>1. OnWay(timer[c])
      BY <2>1, NotLostMeans
    <3>2. QED
      BY <1>1, <1>2, <3>1 DEF OnWay
  <2>2. (\A c \in Channels : timer[c] # NoTimer => OnWay(timer[c]))' => TimerNotLost'
    BY NotLostMeans, PTL
  <2>3. QED
    BY <1>1, <2>1, <2>2
<1>8. QED
  BY <1>4, <1>5, <1>6, <1>7 DEF StepOk, IdInv

LEMMA DeferStep ==
    ASSUME TypeOK, QueueInOrder, IdInv, TimerDefer
    PROVE  StepOk
<1> DEFINE x == cb.evt
           Ringed == {ring[i] : i \in DOMAIN ring}
<1>1. /\ cb.at = "defer" /\ cb'.at = "idle" /\ x \in TimerEvent /\ x \in Timers
      /\ UNCHANGED <<queue, table, running, nextId, timer>>
      /\ Queued' = Queued
  BY DEF TimerDefer, TypeOK, TimerType, Timers, Queued, queueVars, timerVars, ruleVars
<1> HIDE DEF x
<1>2. /\ DOMAIN ring = 1 .. Len(ring) /\ Len(ring) \in Nat
      /\ ring' = Append(ring, x) =>
           /\ DOMAIN ring' = 1 .. Len(ring) + 1 /\ ring'[Len(ring) + 1] = x
           /\ \A i \in 1 .. Len(ring) : ring'[i] = ring[i]
  BY <1>1, AppendProperties, LenProperties DEF TypeOK, TimerType
<1>3. CASE ring' = Append(ring, x)
  <2>1. /\ \A i \in DOMAIN ring' : \/ i \in DOMAIN ring /\ ring'[i] = ring[i]
                                   \/ i = Len(ring) + 1 /\ ring'[i] = x
        /\ \A i \in DOMAIN ring : i \in DOMAIN ring' /\ ring'[i] = ring[i]
        /\ Len(ring) + 1 \in DOMAIN ring' /\ ring'[Len(ring) + 1] = x
    BY <1>2, <1>3
  <2>2. Ringed' = Ringed \cup {x}
    <3>1. \A i \in DOMAIN ring' : ring'[i] \in Ringed \cup {x}
      BY <2>1
    <3>2. x \in Ringed' /\ \A i \in DOMAIN ring : ring[i] \in Ringed'
      BY <2>1
    <3>3. QED
      BY <3>1, <3>2
  <2>3. Timers' = Timers
    BY <1>1, <2>2 DEF Timers, x
  <2>4. TableInv'
    BY <1>1 DEF IdInv, TableInv
  <2>5. IdsInv'
    BY <1>1, <2>3 DEF IdInv, IdsInv, IsFor
  <2>6. OnceInv'
    <3>1. CalledFor = {x.id} /\ CalledFor' = {}
      BY <1>1 DEF CalledFor, x
    <3>2. QED
      BY <1>1, <2>1, <3>1 DEF IdInv, OnceInv
  <2>7. TimerNotLost => TimerNotLost'
    <3>1. ASSUME NEW c \in Channels, TimerNotLost, timer[c] # NoTimer PROVE OnWay(timer[c])'
      <4>1. OnWay(timer[c])
        BY <3>1, NotLostMeans
      <4>2. QED
        BY <1>1, <2>3, <4>1 DEF OnWay
    <3>2. (\A c \in Channels : timer[c] # NoTimer => OnWay(timer[c]))' => TimerNotLost'
      BY NotLostMeans, PTL
    <3>3. QED
      BY <1>1, <3>1, <3>2
  <2>8. QED
    BY <2>4, <2>5, <2>6, <2>7 DEF StepOk, IdInv
<1>4. CASE ring' = ring /\ ~(Len(ring) + 1 < OverflowSlots)
  <2>1. Ringed' = Ringed
    BY <1>4
  <2>2. Timers' \subseteq Timers /\ Timers \subseteq Timers' \cup {x}
    BY <1>1, <2>1 DEF Timers, x
  <2>3. TableInv'
    BY <1>1 DEF IdInv, TableInv
  <2>4. IdsInv'
    BY <1>1, <2>2 DEF IdInv, IdsInv, IsFor
  <2>5. OnceInv'
    BY <1>1, <1>4 DEF IdInv, OnceInv, CalledFor
  <2>6. TimerNotLost /\ RoomToDefer => TimerNotLost'
    <3>1. ASSUME NEW c \in Channels, TimerNotLost, RoomToDefer, timer[c] # NoTimer
          PROVE  OnWay(timer[c])'
      <4>1. OnWay(timer[c]) /\ timer[c] # x.id
        BY <1>1, <1>4, <3>1, NotLostMeans DEF RoomToDefer, x
      <4>2. QED
        BY <1>1, <2>2, <4>1 DEF OnWay
    <3>2. (\A c \in Channels : timer[c] # NoTimer => OnWay(timer[c]))' => TimerNotLost'
      BY NotLostMeans, PTL
    <3>3. QED
      BY <1>1, <3>1, <3>2
  <2>7. QED
    BY <2>3, <2>4, <2>5, <2>6 DEF StepOk, IdInv
<1>5. QED
  BY <1>3, <1>4 DEF TimerDefer, RingHasRoom, x

LEMMA EngineStep ==
    ASSUME TypeOK, QueueInOrder, IdInv, DrainOne \/ Receive \/ InputCutShort \/ ResyncRead
    PROVE  StepOk
<1>1. CASE DrainOne
  <2> DEFINE e == Head(ring)
             Ringed == {ring[i] : i \in DOMAIN ring}
  <2>1. ring # <<>> /\ ring' = Tail(ring) /\ RunTimer(e) /\ UNCHANGED <<queue, cb>> /\ Queued' = Queued
    BY <1>1 DEF DrainOne, Due, Queued, queueVars
  <2>2. Ringed = Ringed' \cup {e}
    BY <2>1, RingShrinks
  <2> HIDE DEF e
  <2>3. e \in Timers /\ Timers' \subseteq Timers /\ Timers \subseteq Timers' \cup {e}
    BY <2>1, <2>2 DEF Timers
  <2>4. TimersMove /\ TableInv' /\ \A c \in Channels : timer'[c] # e.id
    BY <2>1, <2>3, RunTimerMoves
  <2>5. IdInv'
    BY <2>1, <2>3, <2>4, IdsStay
  <2>6. TimerNotLost => TimerNotLost'
    BY <2>1, <2>3, <2>4, NoneIsLost
  <2>7. QED
    BY <2>5, <2>6 DEF StepOk
<1>2. CASE Receive \/ InputCutShort
  <2> DEFINE e == Head(queue)
  <2>1. queue # <<>> /\ queue' = Tail(queue) /\ UNCHANGED <<ring, cb>>
    BY <1>2 DEF Receive, InputCutShort
  <2>2. e \in Queued /\ Queued = Queued' \cup {e}
    BY <2>1, QueueShrinks
  <2>3. \/ e.kind = "input" /\ OnInput(e.ch, e.state)
        \/ e.kind = "timer" /\ RunTimer(e)
        \/ e.kind # "timer" /\ UNCHANGED <<timerVars, ruleVars>>
    BY <1>2 DEF Receive, InputCutShort
  <2>4. (e.kind = "input" => e \in InputEvent) /\ (e.kind = "timer" => e \in Timers)
    BY <2>2, QueuedTypes DEF Timers
  <2> HIDE DEF e
  <2>5. Timers' \subseteq Timers /\ Timers \subseteq Timers' \cup {e}
        /\ (e.kind # "timer" => Timers' = Timers)
    <3>1. {y \in Queued : y.kind = "timer"}
            = {y \in Queued' : y.kind = "timer"} \cup (IF e.kind = "timer" THEN {e} ELSE {})
      BY <2>2
    <3>2. QED
      BY <2>1, <3>1 DEF Timers
  <2>6. /\ TimersMove /\ TableInv'
        /\ e.kind = "timer" => \A c \in Channels : timer'[c] # e.id
    <3>1. CASE e.kind = "input" /\ OnInput(e.ch, e.state)
      <4>1. e.ch \in Channels /\ e.state \in Levels
        BY <2>4, <3>1 DEF InputEvent
      <4>2. QED
        BY <3>1, <4>1, OnInputMoves
    <3>2. CASE e.kind = "timer" /\ RunTimer(e)
      BY <2>4, <3>2, RunTimerMoves
    <3>3. CASE e.kind # "timer" /\ UNCHANGED <<timerVars, ruleVars>>
      BY <3>3 DEF TimersMove, IdInv, TableInv, timerVars, ruleVars
    <3>4. QED
      BY <2>3, <3>1, <3>2, <3>3
  <2>7. IdInv'
    BY <2>1, <2>5, <2>6, IdsStay
  <2>8. TimerNotLost => TimerNotLost'
    <3>1. \A x \in Timers : x \in Timers' \/ \A c \in Channels : timer'[c] # x.id
      BY <2>5, <2>6
    <3>2. QED
      BY <2>1, <2>6, <3>1, NoneIsLost
  <2>9. QED
    BY <2>7, <2>8 DEF StepOk
<1>3. CASE ResyncRead
  <2>1. /\ (UNCHANGED timerVars /\ UNCHANGED ruleVars) \/ OnInput(FirstTodo, level[FirstTodo])
        /\ UNCHANGED <<ring, cb, queue>>
    BY <1>3 DEF ResyncRead, queueVars
  <2>2. FirstTodo \in Channels /\ level[FirstTodo] \in Levels
    BY <1>3, FirstTodoIn DEF ResyncRead, TypeOK, EngineType, InputType
  <2>3. TimersMove /\ TableInv'
    <3>1. CASE OnInput(FirstTodo, level[FirstTodo])
      BY <2>2, <3>1, OnInputMoves
    <3>2. CASE UNCHANGED timerVars /\ UNCHANGED ruleVars
      BY <3>2 DEF TimersMove, IdInv, TableInv, timerVars, ruleVars
    <3>3. QED
      BY <2>1, <3>1, <3>2
  <2>4. Timers' = Timers
    BY <2>1 DEF Timers, Queued
  <2>5. IdInv'
    BY <2>1, <2>3, <2>4, IdsStay
  <2>6. TimerNotLost => TimerNotLost'
    BY <2>1, <2>3, <2>4, NoneIsLost
  <2>7. QED
    BY <2>5, <2>6 DEF StepOk
<1>4. QED
  BY <1>1, <1>2, <1>3

LEMMA IdsStep == ASSUME TypeOK, QueueInOrder, IdInv, [Next]_vars PROVE StepOk
<1>1. CASE \E t \in Tasks : SendInput(t)
  <2>1. PICK t \in Tasks : SendInput(t)
    BY <1>1
  <2> DEFINE x == InputEvt(evtSeq + 1, rep[t].ch, level[rep[t].ch])
  <2>2. /\ x \in Event /\ x.kind # "timer" /\ EvtSend(x)
        /\ UNCHANGED <<timerVars, timer, ring, cb>>
    BY <2>1 DEF SendInput, TypeOK, InputType, QueueType, Event, InputEvent, InputEvt, PosNat, ruleVars
  <2> HIDE DEF x
  <2>3. Queued' = Queued \/ Queued' = Queued \cup {x}
    BY <2>2, QueueGrows
  <2>4. Timers' = Timers
    BY <2>2, <2>3 DEF Timers
  <2>5. QED
    BY <2>2, <2>4, EventsFrame
<1>2. CASE SendOther
  <2> DEFINE x == OtherEvt(evtSeq + 1)
  <2>1. /\ x \in Event /\ x.kind # "timer" /\ EvtSend(x)
        /\ UNCHANGED <<timerVars, timer, ring, cb>>
    BY <1>2 DEF SendOther, TypeOK, QueueType, Event, OtherEvent, OtherEvt, PosNat, ruleVars
  <2> HIDE DEF x
  <2>2. Queued' = Queued \/ Queued' = Queued \cup {x}
    BY <2>1, QueueGrows
  <2>3. Timers' = Timers
    BY <2>1, <2>2 DEF Timers
  <2>4. QED
    BY <2>1, <2>3, EventsFrame
<1>3. CASE TimerTask
  BY <1>3, ElapsesStep, PostStep, DeferStep DEF TimerTask
<1>4. CASE DrainOne \/ Receive \/ InputCutShort \/ ResyncRead
  BY <1>4, EngineStep
<1>5. CASE UNCHANGED <<timerVars, timer, ring, cb, queue>>
  <2>1. Timers' = Timers
    BY <1>5 DEF Timers, Queued
  <2>2. QED
    BY <1>5, <2>1, EventsFrame
<1>6. QED
  BY <1>1, <1>2, <1>3, <1>4, <1>5
  DEF Next, Report, Engine, vars, queueVars, ruleVars, Edge, ScanBegin,
      PublishAllBegin, ReadPin, MarkLost, TakeLost, ResyncMark, ResyncAbort,
      DrainEnd, ReceiveTimeout

LEMMA IdInvHolds == Spec => []IdInv
<1>1. TypeOK /\ QueueInOrder /\ IdInv /\ [Next]_vars => IdInv'
  BY IdsStep DEF StepOk
<1>2. QED
  BY <1>1, IdsInit, TypeCorrect, QueueOrdered, PTL DEF Spec

\* The ring has no more entries than a set its ids are in.
LEMMA RingFits ==
    ASSUME TypeOK, IdInv, cb.at = "defer", NEW n \in Nat, NEW f \in [1 .. Len(ring) + 1 -> 1 .. n],
           \A i \in 1 .. Len(ring), j \in 1 .. Len(ring) : f[i] = f[j] => ring[i].id = ring[j].id,
           \A i \in 1 .. Len(ring) : f[i] = f[Len(ring) + 1] => ring[i].id = cb.evt.id
    PROVE  Len(ring) + 1 <= n
<1>1. Len(ring) \in Nat /\ DOMAIN ring = 1 .. Len(ring)
  BY LenProperties DEF TypeOK, TimerType
<1>2. cb.evt.id \in CalledFor
  BY DEF CalledFor
<1>3. SUFFICES ASSUME ~(Len(ring) + 1 <= n) PROVE FALSE
  OBVIOUS
<1>4. /\ IsFiniteSet(1 .. Len(ring) + 1) /\ IsFiniteSet(1 .. n)
      /\ Cardinality(1 .. Len(ring) + 1) = Len(ring) + 1 /\ Cardinality(1 .. n) = n
  <2>1. Len(ring) + 1 \in Int /\ n \in Int /\ 1 \in Int /\ ~(1 > Len(ring) + 1) /\ (Len(ring) + 1) - 1 + 1 = Len(ring) + 1
    BY <1>1
  <2>2. Cardinality(1 .. n) = n /\ IsFiniteSet(1 .. n)
    BY FS_Interval
  <2>3. IsFiniteSet(1 .. Len(ring) + 1) /\ Cardinality(1 .. Len(ring) + 1) = Len(ring) + 1
    <3> DEFINE m == Len(ring) + 1
    <3>1. m \in Nat
      BY <1>1
    <3> HIDE DEF m
    <3>2. IsFiniteSet(1 .. m) /\ Cardinality(1 .. m) = m
      BY <3>1, FS_Interval
    <3>3. QED
      BY <3>2 DEF m
  <2>4. QED
    BY <2>2, <2>3
<1>5. Cardinality(1 .. n) < Cardinality(1 .. Len(ring) + 1)
  BY <1>1, <1>3, <1>4
<1>6. PICK i, j \in 1 .. Len(ring) + 1 : i # j /\ f[i] = f[j]
  BY <1>4, <1>5, FS_PigeonHole
<1>7. (i \in 1 .. Len(ring) \/ i = Len(ring) + 1) /\ (j \in 1 .. Len(ring) \/ j = Len(ring) + 1)
  BY <1>1, <1>6
<1>8. QED
  BY <1>1, <1>2, <1>6, <1>7 DEF IdInv, OnceInv

\* No id is in the ring twice, so when a rule waits for every one of them there are no
\* more than channels.
LEMMA RoomForChannels ==
    ASSUME TypeOK, QueueInOrder, IdInv, NumDI < OverflowSlots, NoneCleared
    PROVE  RoomToDefer
<1> SUFFICES ASSUME cb.at = "defer", NEW d \in Channels, timer[d] = cb.evt.id
             PROVE  Len(ring) + 1 < OverflowSlots
  BY DEF RoomToDefer
<1> DEFINE chan(i) == CHOOSE c \in Channels : timer[c] = ring[i].id
           f == [i \in 1 .. Len(ring) + 1 |-> IF i <= Len(ring) THEN chan(i) + 1 ELSE d + 1]
<1>1. /\ Len(ring) \in Nat /\ DOMAIN ring = 1 .. Len(ring) /\ NumDI \in Nat /\ OverflowSlots \in Nat
      /\ Channels = 0 .. NumDI - 1
  BY LenProperties, RuleEventsAssumption DEF TypeOK, TimerType, Channels
<1>2. \A i \in 1 .. Len(ring) : chan(i) \in Channels /\ timer[chan(i)] = ring[i].id
  BY <1>1 DEF NoneCleared
<1> HIDE DEF chan
<1>3. \A c \in Channels : c \in Nat /\ c + 1 \in 1 .. NumDI
  BY <1>1
<1>4. f \in [1 .. Len(ring) + 1 -> 1 .. NumDI]
  <2>1. ASSUME NEW i \in 1 .. Len(ring) + 1
        PROVE  (IF i <= Len(ring) THEN chan(i) + 1 ELSE d + 1) \in 1 .. NumDI
    <3>1. CASE i <= Len(ring)
      BY <1>1, <1>2, <1>3, <3>1
    <3>2. CASE ~(i <= Len(ring))
      BY <1>3, <3>2
    <3>3. QED
      BY <3>1, <3>2
  <2>2. QED
    BY <2>1
<1>5. (\A i \in 1 .. Len(ring) : f[i] = chan(i) + 1) /\ f[Len(ring) + 1] = d + 1
  BY <1>1
<1> HIDE DEF f
<1>6. ASSUME NEW i \in 1 .. Len(ring), NEW j \in 1 .. Len(ring), f[i] = f[j]
      PROVE  ring[i].id = ring[j].id
  <2>1. chan(i) = chan(j)
    BY <1>2, <1>3, <1>5, <1>6
  <2>2. QED
    BY <1>2, <2>1
<1>7. ASSUME NEW i \in 1 .. Len(ring), f[i] = f[Len(ring) + 1]
      PROVE  ring[i].id = cb.evt.id
  <2>1. chan(i) = d
    BY <1>2, <1>3, <1>5, <1>7
  <2>2. QED
    BY <1>2, <2>1
<1>8. Len(ring) + 1 <= NumDI
  BY <1>1, <1>4, <1>6, <1>7, RingFits
<1>9. QED
  BY <1>1, <1>8

\* With a place for every timer a rule can wait for, as MAX_TIMERS + 1 slots are meant, a
\* timer is lost only to one that was cleared and whose id is still in the ring: while
\* none is in it, none gets lost (timer_fired_cb(), js_clear_timer()).
THEOREM LosesOnlyToCleared == Spec => LostOnlyToCleared
<1>1. TypeOK /\ QueueInOrder /\ IdInv /\ [Next]_vars =>
        [NumDI < OverflowSlots /\ NoneCleared /\ TimerNotLost => TimerNotLost']_vars
  BY RoomForChannels, IdsStep DEF StepOk
<1>2. QED
  BY <1>1, IdInvHolds, TypeCorrect, QueueOrdered, PTL DEF Spec, LostOnlyToCleared
=============================================================================
