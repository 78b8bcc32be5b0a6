-------------------------- MODULE RuleReload_proofs ---------------------------
(***************************************************************************)
(* For any number of uploads, timer slots, jobs and power cuts, an upload  *)
(* is answered with its own verdict and the next boot brings what runs;    *)
(* and a timer in the table belongs to the script in force, or to one a    *)
(* job of which ran out of its time.                                       *)
(***************************************************************************)
EXTENDS RuleReload, TLAPS

USE BoundAssumption DEF Uploads, Scripts, Free

\* Since the last boot every upload took one ticket, so upload and ticket
\* differ by what was sent before it.
Before == sent - seq

Busy == engine.pc # "loop"

\* Tickets are handed out, queued, worked on and published in one order.
TicketInv ==
    /\ http.pc = "waiting" => http.mine = seq /\ seq > 0
    /\ \A i \in DOMAIN queue :
         /\ queue[i].up = queue[i].ticket + Before
         /\ queue[i].ticket <= seq
         /\ queue[i].ticket > engine.ticket /\ queue[i].ticket > status.ticket
    /\ \A i, j \in DOMAIN queue : i < j => queue[i].ticket < queue[j].ticket
    /\ ~Busy => engine = Idle
    /\ Busy => /\ engine.up = engine.ticket + Before
               /\ engine.ticket <= seq /\ engine.ticket > status.ticket
    /\ status.ticket <= seq

\* What is in force, in flash, under way and published agree on which uploads
\* were ever accepted.
VerdictInv ==
    /\ flash \in ran /\ running \in ran
    /\ \A u \in ran : u <= sent
    /\ \A i \in DOMAIN queue : queue[i].up \notin ran
    /\ engine.pc \in {"trial", "load", "drain"} => engine.up \notin ran
    /\ engine.pc \in {"store", "publish"} => engine.up = running
    /\ status.ticket > 0 => (status.ok <=> status.ticket + Before \in ran)

\* An upload that was refused is not waited for any more.
RefusedInv == \A u \in Uploads : answer[u] = "rejected" =>
    /\ u <= sent
    /\ \A i \in DOMAIN queue : queue[i].up # u
    /\ Busy => engine.up # u

\* What the store task reported is what the engine publishes.
FlashInv ==
    /\ engine.pc \in {"loop", "trial", "load", "drain"} => report = "failed" \/ flash = running
    /\ engine.pc = "publish" => /\ engine.stored => flash = running
                                /\ report = "fine" <=> engine.stored

\* Between loading and handover the new script's timers are in the slots that
\* were free.
TimerInv == \A s \in Slots : timers[s] # Free =>
    IF engine.pc # "drain" THEN timers[s] \in {running} \cup strays
    ELSE IF s \in engine.wasUsed THEN timers[s] \in {running, engine.up} \cup strays
    ELSE timers[s] \in {engine.up} \cup strays

StoredInv == TypeOK /\ TicketInv /\ VerdictInv /\ RefusedInv /\ FlashInv /\ AnswersAreTrue

LEMMA IdleType == Idle \in Engines
BY DEF Idle, Engines

LEMMA TypeInit == Init => TypeOK
<1> SUFFICES ASSUME Init PROVE TypeOK
  OBVIOUS
<1>1. sent \in Scripts /\ seq \in 0..sent /\ running \in Scripts /\ flash \in Scripts
  BY DEF Init
<1>2. http \in Https /\ answer \in [Uploads -> Answers]
  BY DEF Init, Https, Answers
<1>3. queue = << >> /\ jobs = << >>
  BY DEF Init
<1>4. engine \in Engines
  BY IdleType DEF Init
<1>5. timers \in [Slots -> Scripts \cup {Free}]
  BY DEF Init
<1>6. status \in Verdicts
  BY DEF Init, Verdicts, NoVerdict
<1>7. ran \subseteq Scripts /\ strays \subseteq Scripts /\ report \in {"fine", "failed"}
  BY DEF Init
<1>8. acts \in 0..MaxActs /\ cuts \in 0..MaxCuts
  BY DEF Init
<1> QED BY <1>1, <1>2, <1>3, <1>4, <1>5, <1>6, <1>7, <1>8 DEF TypeOK

LEMMA AppendType ==
    ASSUME NEW S, NEW q \in Seq(S), NEW e \in S, NEW n \in Nat, Len(q) < n
    PROVE  Append(q, e) \in Seq(S) /\ Len(Append(q, e)) <= n
OBVIOUS

LEMMA PublishType ==
    ASSUME TypeOK, NEW ok \in BOOLEAN, NEW stored \in BOOLEAN, Publish(ok, stored)
    PROVE  engine' \in Engines /\ status' \in Verdicts
<1>1. engine' \in Engines
  BY IdleType DEF Publish
<1>2. engine.ticket \in Scripts
  BY DEF TypeOK, Engines
<1>3. status' \in Verdicts
  BY <1>2 DEF Publish, Verdicts
<1> QED BY <1>1, <1>3

\* What script code leaves behind is well typed.
LEMMA RunsType ==
    ASSUME NEW g \in Scripts, NEW ts \in [Slots -> Scripts \cup {Free}],
           NEW js \in Seq(Scripts), Len(js) <= MaxJobs, acts \in 0..MaxActs,
           Runs(g, ts, js)
    PROVE  /\ timers' \in [Slots -> Scripts \cup {Free}]
           /\ jobs' \in Seq(Scripts) /\ Len(jobs') <= MaxJobs
           /\ acts' \in 0..MaxActs
<1>1. CASE timers' = ts /\ jobs' = js /\ UNCHANGED acts
  BY <1>1
<1>2. CASE acts < MaxActs /\ acts' = acts + 1
  <2>1. acts' \in 0..MaxActs
    BY <1>2
  <2>2. CASE \E s \in Slots : ts[s] = Free /\ timers' = [ts EXCEPT ![s] = g] /\ jobs' = js
    BY <2>1, <2>2
  <2>3. CASE \E s \in Slots : ts[s] = g /\ timers' = [ts EXCEPT ![s] = Free] /\ jobs' = js
    BY <2>1, <2>3
  <2>4. CASE Len(js) < MaxJobs /\ jobs' = Append(js, g) /\ timers' = ts
    BY <2>1, <2>4, AppendType
  <2>5. \/ timers' = ts /\ jobs' = js /\ UNCHANGED acts
        \/ \E s \in Slots : ts[s] = Free /\ timers' = [ts EXCEPT ![s] = g] /\ jobs' = js
        \/ \E s \in Slots : ts[s] = g /\ timers' = [ts EXCEPT ![s] = Free] /\ jobs' = js
        \/ Len(js) < MaxJobs /\ jobs' = Append(js, g) /\ timers' = ts
    BY DEF Runs
  <2> QED BY <1>1, <2>2, <2>3, <2>4, <2>5
<1>3. \/ timers' = ts /\ jobs' = js /\ UNCHANGED acts
      \/ acts < MaxActs /\ acts' = acts + 1
  BY DEF Runs
<1> QED BY <1>1, <1>2, <1>3

LEMMA TypeStep == TypeOK /\ [Next]_vars => TypeOK'
<1> SUFFICES ASSUME TypeOK, [Next]_vars PROVE TypeOK'
  OBVIOUS
<1> USE DEF webVars, jsVars, history
<1>1. CASE Post
  <2>1. sent' \in Uploads /\ seq' \in 0..sent' /\ seq' \in Uploads
    BY <1>1 DEF Post, TypeOK
  <2>2. http' \in Https
    BY <1>1, <2>1 DEF Post, TypeOK, Https
  <2>3. answer' \in [Uploads -> Answers]
    BY <1>1, <2>1 DEF Post, TypeOK, Answers
  <2>4. [up |-> sent', ticket |-> seq'] \in Requests
    BY <2>1 DEF Requests
  <2>5. queue' \in Seq(Requests) /\ Len(queue') <= QueueDepth
    <3>1. CASE HasRoom
      <4>1. queue' = Append(queue, [up |-> sent', ticket |-> seq'])
        BY <1>1, <3>1 DEF Post
      <4>2. Len(queue) < QueueDepth /\ queue \in Seq(Requests)
        BY <3>1 DEF HasRoom, TypeOK
      <4> QED BY <4>1, <4>2, <2>4, AppendType
    <3>2. CASE ~HasRoom
      BY <1>1, <3>2 DEF Post, TypeOK
    <3> QED BY <3>1, <3>2
  <2> QED BY <1>1, <2>1, <2>2, <2>3, <2>5 DEF Post, TypeOK
<1>2. CASE AnswerPost
  <2>1. Verdict(status, http.mine) \in Answers
    BY DEF Verdict, Answers
  <2>2. answer' \in [Uploads -> Answers]
    BY <1>2, <2>1 DEF AnswerPost, TypeOK
  <2>3. http' \in Https
    BY <1>2 DEF AnswerPost, Https
  <2> QED BY <1>2, <2>2, <2>3 DEF AnswerPost, TypeOK
<1>3. CASE RunJob
  <2>1. Head(jobs) \in Scripts /\ Tail(jobs) \in Seq(Scripts) /\ Len(Tail(jobs)) <= MaxJobs
    BY <1>3 DEF RunJob, TypeOK
  <2>2. /\ timers' \in [Slots -> Scripts \cup {Free}]
        /\ jobs' \in Seq(Scripts) /\ Len(jobs') <= MaxJobs
        /\ acts' \in 0..MaxActs
    BY <1>3, <2>1, RunsType DEF RunJob, TypeOK
  <2>3. strays' \subseteq Scripts
    BY <1>3, <2>1 DEF RunJob, TypeOK
  <2> QED BY <1>3, <2>2, <2>3 DEF RunJob, TypeOK
<1>4. CASE RuleEvent
  <2>1. /\ timers' \in [Slots -> Scripts \cup {Free}]
        /\ jobs' \in Seq(Scripts) /\ Len(jobs') <= MaxJobs
        /\ acts' \in 0..MaxActs
    BY <1>4, RunsType DEF RuleEvent, TypeOK
  <2> QED BY <1>4, <2>1 DEF RuleEvent, TypeOK
<1>5. CASE TimerRuns
  <2>1. PICK s \in Used : Runs(timers[s], [timers EXCEPT ![s] = Free], jobs)
    BY <1>5 DEF TimerRuns
  <2>2. timers[s] \in Scripts /\ [timers EXCEPT ![s] = Free] \in [Slots -> Scripts \cup {Free}]
    BY DEF Used, TypeOK
  <2>3. /\ timers' \in [Slots -> Scripts \cup {Free}]
        /\ jobs' \in Seq(Scripts) /\ Len(jobs') <= MaxJobs
        /\ acts' \in 0..MaxActs
    BY <2>1, <2>2, RunsType DEF TypeOK
  <2> QED BY <1>5, <2>3 DEF TimerRuns, TypeOK
<1>6. CASE TakeReload
  <2>1. Head(queue) \in Requests /\ queue' \in Seq(Requests) /\ Len(queue') <= QueueDepth
    BY <1>6 DEF TakeReload, TypeOK
  <2>2. Head(queue).up \in Scripts /\ Head(queue).ticket \in Scripts
    BY <2>1 DEF Requests
  <2>3. engine' = [pc |-> "trial", up |-> Head(queue).up, ticket |-> Head(queue).ticket,
                   wasUsed |-> {}, stored |-> FALSE]
    BY <1>6 DEF TakeReload, Idle
  <2>4. engine' \in Engines
    BY <2>2, <2>3 DEF Engines
  <2> QED BY <1>6, <2>1, <2>4 DEF TakeReload, TypeOK
<1>7. CASE TrialLoad
  <2>1. [engine EXCEPT !.pc = "load"] \in Engines
    BY DEF TypeOK, Engines
  <2>2. engine' \in Engines /\ status' \in Verdicts
    BY <1>7, <2>1, PublishType DEF TrialLoad, TypeOK
  <2> QED BY <1>7, <2>2 DEF TrialLoad, TypeOK
<1>8. CASE Load
  <2>1. [engine EXCEPT !.pc = "drain", !.wasUsed = Used] \in Engines
    BY DEF TypeOK, Engines, Used
  <2>2. engine' \in Engines /\ status' \in Verdicts
    BY <1>8, <2>1, PublishType DEF Load, TypeOK
  <2>3. engine.up \in Scripts
    BY DEF TypeOK, Engines
  <2>4. jobs' \in Seq(Scripts) /\ Len(jobs') <= MaxJobs
    <3>1. jobs' = jobs \/ (Len(jobs) < MaxJobs /\ jobs' = Append(jobs, engine.up))
      BY <1>8 DEF Load
    <3>2. jobs \in Seq(Scripts) /\ Len(jobs) <= MaxJobs
      BY DEF TypeOK
    <3> QED BY <3>1, <3>2, <2>3, AppendType
  <2>5. timers' \in [Slots -> Scripts \cup {Free}]
    BY <1>8, <2>3 DEF Load, Arm, TypeOK
  <2> QED BY <1>8, <2>2, <2>4, <2>5 DEF Load, TypeOK
<1>9. CASE HandOver
  <2>1. engine' \in Engines /\ engine.up \in Scripts
    BY <1>9 DEF HandOver, TypeOK, Engines
  <2>2. timers' \in [Slots -> Scripts \cup {Free}]
    BY <1>9 DEF HandOver, Arm, TypeOK
  <2> QED BY <1>9, <2>1, <2>2 DEF HandOver, TypeOK
<1>10. CASE Store
  <2>1. engine' \in Engines /\ engine.up \in Scripts
    BY <1>10 DEF Store, TypeOK, Engines
  <2>2. flash' \in Scripts /\ report' \in {"fine", "failed"}
    BY <1>10, <2>1 DEF Store, InFlash, TypeOK
  <2> QED BY <1>10, <2>1, <2>2 DEF Store, TypeOK
<1>11. CASE PublishAccepted
  <2>1. engine.stored \in BOOLEAN
    BY DEF TypeOK, Engines
  <2>2. engine' \in Engines /\ status' \in Verdicts
    BY <1>11, <2>1, PublishType DEF PublishAccepted
  <2> QED BY <1>11, <2>2 DEF PublishAccepted, TypeOK
<1>12. CASE PowerCut
  <2>1. http' \in Https
    BY <1>12 DEF PowerCut, Https
  <2>2. answer' \in [Uploads -> Answers]
    BY <1>12 DEF PowerCut, TypeOK, Answers
  <2>3. engine' \in Engines
    BY <1>12, IdleType DEF PowerCut
  <2>4. status' \in Verdicts
    BY <1>12 DEF PowerCut, NoVerdict, Verdicts
  <2>5. timers' \in [Slots -> Scripts \cup {Free}]
    BY <1>12 DEF PowerCut, TypeOK
  <2>6. seq' \in 0..sent' /\ queue' = << >> /\ jobs' = << >> /\ cuts' \in 0..MaxCuts
    BY <1>12 DEF PowerCut, TypeOK
  <2> QED BY <1>12, <2>1, <2>2, <2>3, <2>4, <2>5, <2>6 DEF PowerCut, TypeOK
<1>13. CASE UNCHANGED vars
  BY <1>13 DEF vars, TypeOK
<1> QED BY <1>1, <1>2, <1>3, <1>4, <1>5, <1>6, <1>7, <1>8, <1>9, <1>10, <1>11, <1>12, <1>13 DEF Next, Reload

\* Every reachable state is well typed.
THEOREM TypeCorrect == Spec => []TypeOK
BY TypeInit, TypeStep, PTL DEF Spec

-----------------------------------------------------------------------------
(* Timers. *)

LEMMA RunsTimers ==
    ASSUME NEW g \in Scripts, NEW ts \in [Slots -> Scripts \cup {Free}], NEW js,
           Runs(g, ts, js), NEW s \in Slots
    PROVE  timers'[s] \in {ts[s], g, Free}
BY DEF Runs

LEMMA TimerStep == TypeOK /\ TimerInv /\ [Next]_vars => TimerInv'
<1> SUFFICES ASSUME TypeOK, TimerInv, [Next]_vars, NEW s \in Slots, timers'[s] # Free
             PROVE  (IF engine.pc # "drain" THEN timers[s] \in {running} \cup strays
                     ELSE IF s \in engine.wasUsed THEN timers[s] \in {running, engine.up} \cup strays
                     ELSE timers[s] \in {engine.up} \cup strays)'
  BY DEF TimerInv
<1> USE DEF webVars, jsVars, history, TimerInv
<1>a. running \in Scripts /\ engine.up \in Scripts /\ timers \in [Slots -> Scripts \cup {Free}]
  BY DEF TypeOK, Engines
<1>1. CASE UNCHANGED <<timers, running, strays, engine>>
  BY <1>1
<1>2. CASE Post \/ AnswerPost
  BY <1>1, <1>2 DEF Post, AnswerPost
\* A job of any other script than the one to come counts as a stray.
<1>3. CASE RunJob
  <2>1. Head(jobs) \in Scripts
    BY <1>3 DEF RunJob, TypeOK
  <2>2. timers'[s] = timers[s] \/ timers'[s] = Head(jobs)
    BY <1>3, <1>a, <2>1, RunsTimers DEF RunJob
  <2>3. strays \subseteq strays' /\ (Head(jobs) = InForceNext \/ Head(jobs) \in strays')
    BY <1>3 DEF RunJob
  <2>4. UNCHANGED <<running, engine>>
    BY <1>3 DEF RunJob
  <2>5. engine.pc # "drain" => InForceNext = running
    BY DEF InForceNext
  <2>6. engine.pc = "drain" => InForceNext = engine.up
    BY DEF InForceNext
  <2>7. CASE timers'[s] = timers[s]
    BY <2>3, <2>4, <2>7
  <2>8. CASE timers'[s] = Head(jobs)
    BY <2>3, <2>4, <2>5, <2>6, <2>8
  <2> QED BY <2>2, <2>7, <2>8
<1>4. CASE RuleEvent
  <2>1. timers'[s] = timers[s] \/ timers'[s] = running
    BY <1>4, <1>a, RunsTimers DEF RuleEvent
  <2> QED BY <1>4, <2>1 DEF RuleEvent
\* A timer's function arms for the script it belongs to.
<1>5. CASE TimerRuns
  <2>1. PICK t \in Used : Runs(timers[t], [timers EXCEPT ![t] = Free], jobs)
    BY <1>5 DEF TimerRuns
  <2>2. t \in Slots /\ timers[t] # Free /\ timers[t] \in Scripts
    BY <1>a, <2>1 DEF Used
  <2>3. [timers EXCEPT ![t] = Free] \in [Slots -> Scripts \cup {Free}]
    BY <1>a
  <2>4. timers'[s] = timers[s] \/ timers'[s] = timers[t]
    BY <1>a, <2>1, <2>2, <2>3, RunsTimers
  <2> QED BY <1>5, <2>2, <2>4 DEF TimerRuns
<1>6. CASE TakeReload
  BY <1>6 DEF TakeReload, Idle
<1>7. CASE TrialLoad
  <2>1. engine'.pc # "drain"
    BY <1>7 DEF TrialLoad, Publish, Idle, TypeOK, Engines
  <2> QED BY <1>7, <2>1 DEF TrialLoad
\* Only free slots are taken, so the others are the old context's.
<1>8. CASE Load
  <2>1. PICK S \in SUBSET (Slots \ Used), ok \in BOOLEAN :
          IF ok
          THEN /\ timers' = Arm(engine.up, S)
               /\ engine' = [engine EXCEPT !.pc = "drain", !.wasUsed = Used]
          ELSE timers' = Arm(Free, S) /\ Publish(FALSE, FALSE)
    BY <1>8 DEF Load
  <2>2. engine.pc # "drain" /\ UNCHANGED <<running, strays>>
    BY <1>8 DEF Load
  <2>3. CASE ok
    <3>1. engine'.pc = "drain" /\ engine'.wasUsed = Used /\ engine'.up = engine.up
      BY <2>1, <2>3 DEF TypeOK, Engines
    <3>2. timers'[s] = IF s \in S THEN engine.up ELSE timers[s]
      BY <2>1, <2>3 DEF Arm
    <3> QED BY <2>1, <2>2, <3>1, <3>2 DEF Used
  <2>4. CASE ~ok
    <3>1. engine'.pc # "drain" /\ timers'[s] = timers[s]
      BY <2>1, <2>4 DEF Publish, Idle, Arm
    <3> QED BY <2>2, <3>1
  <2> QED BY <2>3, <2>4
<1>9. CASE HandOver
  <2>1. engine.pc = "drain" /\ engine'.pc # "drain" /\ running' = engine.up /\ UNCHANGED strays
    BY <1>9 DEF HandOver, TypeOK, Engines
  <2>2. s \notin engine.wasUsed /\ timers'[s] = timers[s]
    BY <1>9 DEF HandOver, Arm, OldSlots
  <2> QED BY <2>1, <2>2
<1>10. CASE Store
  <2>1. engine.pc # "drain" /\ engine'.pc # "drain"
    BY <1>10 DEF Store, TypeOK, Engines
  <2> QED BY <1>10, <2>1 DEF Store
<1>11. CASE PublishAccepted
  <2>1. engine.pc # "drain" /\ engine'.pc # "drain"
    BY <1>11 DEF PublishAccepted, Publish, Idle
  <2> QED BY <1>11, <2>1 DEF PublishAccepted
<1>12. CASE PowerCut
  <2>1. engine'.pc # "drain"
    BY <1>12 DEF PowerCut, Idle
  <2>2. timers'[s] = running'
    BY <1>12 DEF PowerCut
  <2> QED BY <2>1, <2>2
<1>13. CASE UNCHANGED vars
  BY <1>1, <1>13 DEF vars
<1> QED BY <1>2, <1>3, <1>4, <1>5, <1>6, <1>7, <1>8, <1>9, <1>10, <1>11, <1>12, <1>13 DEF Next, Reload

\* A refused or replaced script leaves no timer behind that it armed itself,
\* however full the table and however many reloads (EVT_RELOAD, clear_timers()).
THEOREM TimersAreOwned == Spec => []OnlyOwnTimers
<1>1. Init => TimerInv
  BY DEF Init, TimerInv
<1>2. TimerInv => OnlyOwnTimers
  BY DEF TimerInv, OnlyOwnTimers, Used
<1> QED BY <1>1, <1>2, TimerStep, TypeCorrect, PTL DEF Spec

-----------------------------------------------------------------------------
(* Verdicts. *)

StoredVars == <<sent, http, answer, seq, queue, engine, running, flash, status, ran, report>>

LEMMA Facts ==
    ASSUME TypeOK
    PROVE  /\ sent \in Nat /\ seq \in Nat /\ seq <= sent
           /\ engine.ticket \in Nat /\ engine.up \in Nat /\ status.ticket \in Nat
           /\ DOMAIN queue = 1..Len(queue) /\ Len(queue) \in Nat
           /\ \A i \in DOMAIN queue : queue[i].up \in Nat /\ queue[i].ticket \in Nat /\ queue[i].ticket > 0
           /\ ran \subseteq Nat
<1>1. \A i \in DOMAIN queue : queue[i] \in Requests
  BY DEF TypeOK
<1>2. \A i \in DOMAIN queue : queue[i].up \in Nat /\ queue[i].ticket \in Nat /\ queue[i].ticket > 0
  BY <1>1 DEF Requests
<1>3. engine.ticket \in Nat /\ engine.up \in Nat /\ status.ticket \in Nat
  BY DEF TypeOK, Engines, Verdicts
<1>4. sent \in Nat /\ seq \in Nat /\ seq <= sent /\ ran \subseteq Nat
  BY DEF TypeOK
<1>5. DOMAIN queue = 1..Len(queue) /\ Len(queue) \in Nat
  BY DEF TypeOK
<1> QED BY <1>2, <1>3, <1>4, <1>5

\* The steps that touch none of it.
LEMMA StoredFrame ==
    ASSUME StoredInv, UNCHANGED StoredVars
    PROVE  (TicketInv /\ VerdictInv /\ RefusedInv /\ FlashInv /\ AnswersAreTrue)'
<1> USE DEF StoredInv, StoredVars
<1>1. TicketInv' BY DEF TicketInv, Before, Busy
<1>2. VerdictInv' BY DEF VerdictInv, Before
<1>3. RefusedInv' BY DEF RefusedInv, Busy
<1>4. FlashInv' BY DEF FlashInv
<1>5. AnswersAreTrue' BY DEF AnswersAreTrue
<1> QED BY <1>1, <1>2, <1>3, <1>4, <1>5

\* A new upload is later than all before it.
LEMMA PostKeeps ==
    ASSUME StoredInv, Post
    PROVE  (TicketInv /\ VerdictInv /\ RefusedInv /\ FlashInv /\ AnswersAreTrue)'
<1> USE DEF StoredInv
<1>1. /\ sent' = sent + 1 /\ seq' = seq + 1 /\ http.pc = "idle"
      /\ UNCHANGED <<engine, running, flash, status, ran, report>>
  BY DEF Post, history
<1>2. Before' = Before /\ Before \in Nat
  BY <1>1, Facts DEF Before
<1>3. \/ http' = [pc |-> "waiting", mine |-> seq'] /\ UNCHANGED answer
      \/ UNCHANGED http /\ answer' = [answer EXCEPT ![sent'] = "busy"]
  BY DEF Post
<1>4. \A i \in DOMAIN queue' : \/ i \in DOMAIN queue /\ queue'[i] = queue[i]
                               \/ /\ i = Len(queue) + 1
                                  /\ queue'[i] = [up |-> sent', ticket |-> seq']
  <2>1. CASE HasRoom
    <3>1. queue' = Append(queue, [up |-> sent', ticket |-> seq'])
      BY <2>1 DEF Post
    <3>2. DOMAIN queue' = 1..(Len(queue) + 1) /\ DOMAIN queue = 1..Len(queue)
      BY <3>1 DEF TypeOK
    <3> QED BY <3>1, <3>2, Facts DEF TypeOK
  <2>2. CASE ~HasRoom
    BY <2>2 DEF Post
  <2> QED BY <2>1, <2>2
<1>5. queue' \in Seq(Requests) /\ DOMAIN queue' = 1..Len(queue')
  BY TypeStep DEF Next, TypeOK
<1>6. seq' + Before' = sent'
  BY <1>1, Facts DEF Before
<1>7. TicketInv'
  <2>1. http'.pc = "waiting" => http'.mine = seq' /\ seq' > 0
    BY <1>1, <1>3, Facts
  <2>2. \A i \in DOMAIN queue' :
          /\ queue'[i].up = queue'[i].ticket + Before'
          /\ queue'[i].ticket <= seq'
          /\ queue'[i].ticket > engine'.ticket /\ queue'[i].ticket > status'.ticket
    <3> SUFFICES ASSUME NEW i \in DOMAIN queue'
                 PROVE  /\ queue'[i].up = queue'[i].ticket + Before'
                        /\ queue'[i].ticket <= seq'
                        /\ queue'[i].ticket > engine'.ticket /\ queue'[i].ticket > status'.ticket
      OBVIOUS
    <3>1. CASE i \in DOMAIN queue /\ queue'[i] = queue[i]
      BY <1>1, <1>2, <3>1, Facts DEF TicketInv
    <3>2. CASE queue'[i] = [up |-> sent', ticket |-> seq']
      <4>1. engine.ticket <= seq /\ status.ticket <= seq
        BY Facts DEF TicketInv, Busy, Idle
      <4> QED BY <1>1, <1>6, <3>2, <4>1, Facts
    <3> QED BY <1>4, <3>1, <3>2
  <2>3. \A i, j \in DOMAIN queue' : i < j => queue'[i].ticket < queue'[j].ticket
    <3> SUFFICES ASSUME NEW i \in DOMAIN queue', NEW j \in DOMAIN queue', i < j
                 PROVE  queue'[i].ticket < queue'[j].ticket
      OBVIOUS
    <3>1. i \in DOMAIN queue /\ queue'[i] = queue[i]
      BY <1>4, <1>5, Facts
    <3>2. queue[i].ticket <= seq /\ queue[i].ticket \in Nat
      BY <3>1, Facts DEF TicketInv
    <3>3. CASE j \in DOMAIN queue /\ queue'[j] = queue[j]
      BY <3>1, <3>3 DEF TicketInv
    <3>4. CASE queue'[j] = [up |-> sent', ticket |-> seq']
      BY <1>1, <3>1, <3>2, <3>4, Facts
    <3> QED BY <1>4, <3>3, <3>4
  <2>4. Busy => engine.up = engine.ticket + Before' /\ engine.ticket <= seq' /\ engine.ticket > status.ticket
    BY <1>1, <1>2, Facts DEF TicketInv
  <2>5. ~Busy => engine = Idle
    BY DEF TicketInv
  <2>6. status.ticket <= seq'
    BY <1>1, Facts DEF TicketInv
  <2> QED BY <1>1, <2>1, <2>2, <2>3, <2>4, <2>5, <2>6 DEF TicketInv, Busy
<1>8. VerdictInv'
  <2>1. \A u \in ran : u <= sent /\ u \in Nat
    BY Facts DEF VerdictInv
  <2>2. \A u \in ran' : u <= sent'
    BY <1>1, <2>1, Facts
  <2>3. \A i \in DOMAIN queue' : queue'[i].up \notin ran'
    <3>1. sent + 1 \notin ran
      BY <2>1, Facts
    <3> QED BY <1>1, <1>4, <3>1 DEF VerdictInv
  <2>4. status'.ticket > 0 => (status'.ok <=> status'.ticket + Before' \in ran')
    BY <1>1, <1>2, Facts DEF VerdictInv
  <2> QED BY <1>1, <2>2, <2>3, <2>4 DEF VerdictInv
<1>9. RefusedInv'
  <2> SUFFICES ASSUME NEW u \in Uploads, answer'[u] = "rejected"
               PROVE  /\ u <= sent'
                      /\ \A i \in DOMAIN queue' : queue'[i].up # u
                      /\ Busy' => engine'.up # u
    BY DEF RefusedInv
  <2>1. answer[u] = "rejected"
    BY <1>3 DEF TypeOK
  <2>2. u <= sent /\ (\A i \in DOMAIN queue : queue[i].up # u) /\ (Busy => engine.up # u)
    BY <2>1 DEF RefusedInv
  <2>3. sent' # u /\ u <= sent'
    BY <1>1, <2>2, Facts
  <2> QED BY <1>1, <1>4, <2>2, <2>3 DEF Busy
<1>10. FlashInv' BY <1>1 DEF FlashInv
<1>11. AnswersAreTrue'
  <2>1. \A u \in Uploads : answer'[u] = answer[u] \/ answer'[u] = "busy"
    BY <1>3 DEF TypeOK
  <2> QED BY <1>1, <2>1 DEF AnswersAreTrue
<1> QED BY <1>7, <1>8, <1>9, <1>10, <1>11

\* The verdict with the last ticket is the last upload's, and nothing later is
\* waited for.
LEMMA AnswerKeeps ==
    ASSUME StoredInv, AnswerPost
    PROVE  (TicketInv /\ VerdictInv /\ RefusedInv /\ FlashInv /\ AnswersAreTrue)'
<1> USE DEF StoredInv
<1>1. /\ http.pc = "waiting" /\ http'.pc = "idle"
      /\ answer' = [answer EXCEPT ![sent] = Verdict(status, http.mine)]
      /\ UNCHANGED <<sent, seq, queue, engine, running, flash, status, ran, report>>
  BY DEF AnswerPost, history
<1>2. http.mine = seq /\ seq > 0
  BY <1>1 DEF TicketInv
<1>3. seq + Before = sent
  BY Facts DEF Before
<1>4. Verdict(status, http.mine) = "rejected" =>
        /\ status.ticket = seq /\ sent \notin ran
        /\ \A i \in DOMAIN queue : queue[i].up # sent
        /\ ~Busy
  <2> SUFFICES ASSUME Verdict(status, http.mine) = "rejected"
               PROVE  /\ status.ticket = seq /\ sent \notin ran
                      /\ \A i \in DOMAIN queue : queue[i].up # sent
                      /\ ~Busy
    OBVIOUS
  <2>1. status.ticket = seq /\ ~status.ok
    BY <1>2 DEF Verdict
  <2>2. sent \notin ran
    BY <1>2, <1>3, <2>1 DEF VerdictInv
  <2>3. DOMAIN queue = {}
    BY <2>1, Facts DEF TicketInv
  <2>4. ~Busy
    BY <2>1, Facts DEF TicketInv
  <2> QED BY <2>1, <2>2, <2>3, <2>4
<1>5. Verdict(status, http.mine) \in {"ok", "unstored"} => sent \in ran
  BY <1>2, <1>3 DEF Verdict, VerdictInv
<1>6. \A u \in Uploads : answer'[u] = answer[u] \/ (u = sent /\ answer'[u] = Verdict(status, http.mine))
  BY <1>1 DEF TypeOK
<1>7. TicketInv' BY <1>1 DEF TicketInv, Before, Busy
<1>8. VerdictInv' BY <1>1 DEF VerdictInv, Before
<1>9. RefusedInv'
  BY <1>1, <1>4, <1>6, Facts DEF RefusedInv, Busy
<1>10. FlashInv' BY <1>1 DEF FlashInv
<1>11. AnswersAreTrue'
  BY <1>1, <1>4, <1>5, <1>6 DEF AnswersAreTrue, VerdictInv
<1> QED BY <1>7, <1>8, <1>9, <1>10, <1>11

LEMMA TakeKeeps ==
    ASSUME StoredInv, TakeReload
    PROVE  (TicketInv /\ VerdictInv /\ RefusedInv /\ FlashInv /\ AnswersAreTrue)'
<1> USE DEF StoredInv
<1>1. /\ engine.pc = "loop" /\ queue # << >> /\ queue' = Tail(queue)
      /\ engine' = [pc |-> "trial", up |-> Head(queue).up, ticket |-> Head(queue).ticket,
                    wasUsed |-> {}, stored |-> FALSE]
      /\ UNCHANGED <<sent, http, answer, seq, running, flash, status, ran, report>>
  BY DEF TakeReload, Idle, webVars, history
<1>2. 1 \in DOMAIN queue /\ Head(queue) = queue[1]
  BY <1>1, Facts DEF TypeOK
<1>3. engine'.pc = "trial" /\ engine'.up = queue[1].up /\ engine'.ticket = queue[1].ticket
  BY <1>1, <1>2
<1>4. \A i \in DOMAIN queue' : i \in Nat /\ i > 0 /\ i + 1 \in DOMAIN queue /\ queue'[i] = queue[i + 1]
  BY <1>1, Facts DEF TypeOK
<1>5. Before' = Before
  BY <1>1 DEF Before
<1>6. TicketInv'
  <2>1. \A i \in DOMAIN queue' :
          /\ queue'[i].up = queue'[i].ticket + Before
          /\ queue'[i].ticket <= seq
          /\ queue'[i].ticket > engine'.ticket /\ queue'[i].ticket > status.ticket
    BY <1>2, <1>3, <1>4 DEF TicketInv
  <2>2. \A i, j \in DOMAIN queue' : i < j => queue'[i].ticket < queue'[j].ticket
    BY <1>4 DEF TicketInv
  <2>3. engine'.up = engine'.ticket + Before /\ engine'.ticket <= seq /\ engine'.ticket > status.ticket
    BY <1>2, <1>3 DEF TicketInv
  <2> QED BY <1>1, <1>3, <1>5, <2>1, <2>2, <2>3 DEF TicketInv, Busy
<1>7. VerdictInv'
  BY <1>1, <1>2, <1>3, <1>4, <1>5 DEF VerdictInv
<1>8. RefusedInv'
  BY <1>1, <1>2, <1>3, <1>4 DEF RefusedInv, Busy
<1>9. FlashInv'
  BY <1>1, <1>3 DEF FlashInv
<1>10. AnswersAreTrue'
  BY <1>1 DEF AnswersAreTrue
<1> QED BY <1>6, <1>7, <1>8, <1>9, <1>10

\* A reload goes on: the engine moves to a later step of the same upload.
LEMMA GoesOnKeeps ==
    ASSUME StoredInv, engine.pc \in {"trial", "load"}, engine'.pc \in {"load", "drain"},
           engine'.up = engine.up, engine'.ticket = engine.ticket,
           UNCHANGED <<sent, http, answer, seq, queue, running, flash, status, ran, report>>
    PROVE  (TicketInv /\ VerdictInv /\ RefusedInv /\ FlashInv /\ AnswersAreTrue)'
<1> USE DEF StoredInv
<1>1. TicketInv' BY DEF TicketInv, Before, Busy
<1>2. VerdictInv' BY DEF VerdictInv, Before
<1>3. RefusedInv' BY DEF RefusedInv, Busy
<1>4. FlashInv' BY DEF FlashInv
<1>5. AnswersAreTrue' BY DEF AnswersAreTrue
<1> QED BY <1>1, <1>2, <1>3, <1>4, <1>5

\* A reload ends with a verdict that is true of the upload.
LEMMA PublishKeeps ==
    ASSUME StoredInv, Busy, NEW ok \in BOOLEAN, NEW stored \in BOOLEAN, Publish(ok, stored),
           ok <=> engine.up \in ran, report = "failed" \/ flash = running,
           UNCHANGED <<sent, http, answer, seq, queue, running, flash, ran, report>>
    PROVE  (TicketInv /\ VerdictInv /\ RefusedInv /\ FlashInv /\ AnswersAreTrue)'
<1> USE DEF StoredInv
<1>1. engine' = Idle /\ engine'.pc = "loop" /\ engine'.ticket = 0
  BY DEF Publish, Idle
<1>2. status'.ticket = engine.ticket /\ status'.ok = ok
  BY DEF Publish
<1>3. TicketInv'
  BY <1>1, <1>2, Facts DEF TicketInv, Before, Busy
<1>4. VerdictInv'
  <2>1. status'.ticket + Before' = engine.up
    BY <1>2 DEF TicketInv, Before
  <2> QED BY <1>1, <1>2, <2>1 DEF VerdictInv
<1>5. RefusedInv' BY <1>1 DEF RefusedInv, Busy
<1>6. FlashInv' BY <1>1 DEF FlashInv
<1>7. AnswersAreTrue' BY DEF AnswersAreTrue
<1> QED BY <1>3, <1>4, <1>5, <1>6, <1>7

LEMMA TrialKeeps ==
    ASSUME StoredInv, TrialLoad \/ Load
    PROVE  (TicketInv /\ VerdictInv /\ RefusedInv /\ FlashInv /\ AnswersAreTrue)'
<1> USE DEF StoredInv
<1>1. /\ engine.pc \in {"trial", "load"}
      /\ UNCHANGED <<sent, http, answer, seq, queue, running, flash, ran, report>>
  BY DEF TrialLoad, Load, webVars, history
<1>2. engine.up \notin ran /\ (report = "failed" \/ flash = running) /\ Busy
  BY <1>1 DEF VerdictInv, FlashInv, Busy
<1>3. CASE Publish(FALSE, FALSE)
  BY <1>1, <1>2, <1>3, PublishKeeps
<1>4. CASE /\ UNCHANGED status
           /\ \/ engine' = [engine EXCEPT !.pc = "load"]
              \/ engine' = [engine EXCEPT !.pc = "drain", !.wasUsed = Used]
  <2>1. engine'.pc \in {"load", "drain"} /\ engine'.up = engine.up /\ engine'.ticket = engine.ticket
    BY <1>4 DEF TypeOK, Engines
  <2> QED BY <1>1, <1>4, <2>1, GoesOnKeeps
<1> QED BY <1>3, <1>4 DEF TrialLoad, Load

\* An upload never accepted nor refused before comes into force.
LEMMA HandOverKeeps ==
    ASSUME StoredInv, HandOver
    PROVE  (TicketInv /\ VerdictInv /\ RefusedInv /\ FlashInv /\ AnswersAreTrue)'
<1> USE DEF StoredInv
<1>1. /\ engine.pc = "drain" /\ running' = engine.up /\ ran' = ran \cup {engine.up}
      /\ engine'.pc = "store" /\ engine'.up = engine.up /\ engine'.ticket = engine.ticket
      /\ UNCHANGED <<sent, http, answer, seq, queue, flash, status, report>>
  BY DEF HandOver, TypeOK, Engines, webVars
<1>2. Busy /\ Before' = Before
  BY <1>1 DEF Busy, Before
<1>3. /\ engine.up = engine.ticket + Before
      /\ engine.ticket <= seq /\ engine.ticket > status.ticket
  BY <1>2 DEF TicketInv
<1>4. engine.up <= sent /\ engine.up # status.ticket + Before
  BY <1>3, Facts DEF Before
<1>5. \A i \in DOMAIN queue : queue[i].up # engine.up
  BY <1>3, Facts DEF TicketInv, Before
<1>6. TicketInv'
  BY <1>1, <1>2 DEF TicketInv, Busy
<1>7. VerdictInv'
  BY <1>1, <1>2, <1>4, <1>5 DEF VerdictInv
<1>8. RefusedInv'
  BY <1>1, <1>2 DEF RefusedInv, Busy
<1>9. FlashInv'
  BY <1>1 DEF FlashInv
<1>10. AnswersAreTrue'
  BY <1>1, <1>2 DEF AnswersAreTrue, RefusedInv
<1> QED BY <1>6, <1>7, <1>8, <1>9, <1>10

LEMMA StoreKeeps ==
    ASSUME StoredInv, Store
    PROVE  (TicketInv /\ VerdictInv /\ RefusedInv /\ FlashInv /\ AnswersAreTrue)'
<1> USE DEF StoredInv
<1>1. PICK written \in BOOLEAN, fine \in BOOLEAN :
        /\ fine => written
        /\ flash' = InFlash(written)
        /\ report' = IF fine THEN "fine" ELSE "failed"
        /\ engine' = [engine EXCEPT !.pc = "publish", !.stored = fine]
  BY DEF Store
<1>2. /\ engine.pc = "store" /\ engine'.pc = "publish" /\ engine'.up = engine.up
      /\ engine'.ticket = engine.ticket /\ engine'.stored = fine
      /\ UNCHANGED <<sent, http, answer, seq, queue, running, status, ran>>
  BY <1>1 DEF Store, TypeOK, Engines, webVars
<1>3. engine.up = running /\ running \in ran /\ flash' \in {flash, running}
  BY <1>1, <1>2 DEF VerdictInv, InFlash
<1>4. TicketInv' BY <1>2 DEF TicketInv, Before, Busy
<1>5. VerdictInv' BY <1>2, <1>3 DEF VerdictInv, Before
<1>6. RefusedInv' BY <1>2 DEF RefusedInv, Busy
<1>7. FlashInv'
  <2>1. fine => flash' = running'
    BY <1>1, <1>2, <1>3 DEF InFlash
  <2>2. report' = "fine" <=> fine
    BY <1>1
  <2> QED BY <1>2, <2>1, <2>2 DEF FlashInv
<1>8. AnswersAreTrue' BY <1>2, <1>3 DEF AnswersAreTrue
<1> QED BY <1>4, <1>5, <1>6, <1>7, <1>8

LEMMA AcceptKeeps ==
    ASSUME StoredInv, PublishAccepted
    PROVE  (TicketInv /\ VerdictInv /\ RefusedInv /\ FlashInv /\ AnswersAreTrue)'
<1> USE DEF StoredInv
<1>1. /\ engine.pc = "publish" /\ Publish(TRUE, engine.stored)
      /\ UNCHANGED <<sent, http, answer, seq, queue, running, flash, ran, report>>
  BY DEF PublishAccepted, webVars, history
<1>2. Busy /\ engine.stored \in BOOLEAN
  BY <1>1 DEF Busy, TypeOK, Engines
<1>3. engine.up \in ran
  BY <1>1 DEF VerdictInv
<1>4. report = "failed" \/ flash = running
  BY <1>1 DEF FlashInv, TypeOK
<1> QED BY <1>1, <1>2, <1>3, <1>4, PublishKeeps

\* What the next boot loads had been in force before.
LEMMA PowerCutKeeps ==
    ASSUME StoredInv, PowerCut
    PROVE  (TicketInv /\ VerdictInv /\ RefusedInv /\ FlashInv /\ AnswersAreTrue)'
<1> USE DEF StoredInv
<1>1. /\ http'.pc = "idle" /\ seq' = 0 /\ queue' = << >> /\ engine' = Idle /\ status' = NoVerdict
      /\ running' = flash /\ ran' = ran \cup {flash} /\ UNCHANGED <<sent, flash>>
  BY DEF PowerCut
<1>2. engine'.pc = "loop" /\ status'.ticket = 0 /\ DOMAIN queue' = {}
  BY <1>1 DEF Idle, NoVerdict
<1>3. ran' = ran
  BY <1>1 DEF VerdictInv
<1>4. \A u \in Uploads : answer'[u] = answer[u] \/ answer'[u] = "lost"
  BY DEF PowerCut, TypeOK
<1>5. TicketInv' BY <1>1, <1>2 DEF TicketInv, Busy
<1>6. VerdictInv' BY <1>1, <1>2, <1>3 DEF VerdictInv
<1>7. RefusedInv' BY <1>1, <1>2, <1>4 DEF RefusedInv, Busy
<1>8. FlashInv' BY <1>1, <1>2 DEF FlashInv
<1>9. AnswersAreTrue' BY <1>1, <1>3, <1>4 DEF AnswersAreTrue
<1> QED BY <1>5, <1>6, <1>7, <1>8, <1>9

\* Uploads are told the truth, whatever the handler waited for, and the script
\* accepted last is the one the next boot loads, unless its store reported an
\* error (api_rules_post(), EVT_RELOAD, store_rules()).
THEOREM KeepsItsWord == Spec => []KeptAsTold
<1>1. Init => StoredInv
  <2> SUFFICES ASSUME Init PROVE StoredInv
    OBVIOUS
  <2>1. TicketInv BY DEF Init, TicketInv, Busy, Idle, NoVerdict
  <2>2. VerdictInv BY DEF Init, VerdictInv, Idle, NoVerdict
  <2>3. RefusedInv BY DEF Init, RefusedInv
  <2>4. FlashInv BY DEF Init, FlashInv, Idle
  <2>5. AnswersAreTrue BY DEF Init, AnswersAreTrue
  <2> QED BY <2>1, <2>2, <2>3, <2>4, <2>5, TypeInit DEF StoredInv
<1>2. StoredInv /\ [Next]_vars => StoredInv'
  <2> SUFFICES ASSUME StoredInv, [Next]_vars PROVE StoredInv'
    OBVIOUS
  <2>1. TypeOK'
    BY TypeStep DEF StoredInv
  <2>2. (TicketInv /\ VerdictInv /\ RefusedInv /\ FlashInv /\ AnswersAreTrue)'
    <3>1. CASE RunJob \/ RuleEvent \/ TimerRuns \/ UNCHANGED vars
      <4>1. UNCHANGED StoredVars
        BY <3>1 DEF RunJob, RuleEvent, TimerRuns, vars, webVars, jsVars, history, StoredVars
      <4> QED BY <4>1, StoredFrame
    <3>2. CASE Post BY <3>2, PostKeeps
    <3>3. CASE AnswerPost BY <3>3, AnswerKeeps
    <3>4. CASE TakeReload BY <3>4, TakeKeeps
    <3>5. CASE TrialLoad \/ Load BY <3>5, TrialKeeps
    <3>6. CASE HandOver BY <3>6, HandOverKeeps
    <3>7. CASE Store BY <3>7, StoreKeeps
    <3>8. CASE PublishAccepted BY <3>8, AcceptKeeps
    <3>9. CASE PowerCut BY <3>9, PowerCutKeeps
    <3> QED BY <3>1, <3>2, <3>3, <3>4, <3>5, <3>6, <3>7, <3>8, <3>9 DEF Next, Reload
  <2> QED BY <2>1, <2>2 DEF StoredInv
<1>3. StoredInv => KeptAsTold
  BY DEF StoredInv, KeptAsTold, BootsWhatRuns, FlashInv
<1> QED BY <1>1, <1>2, <1>3, PTL DEF Spec
=============================================================================
