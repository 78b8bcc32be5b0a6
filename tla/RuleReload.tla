----------------------------- MODULE RuleReload -----------------------------
(***************************************************************************)
(* Replacing the rules: POST /api/rules (apps/full/main/web_server.c)      *)
(* queues a script with a ticket and waits a while for its verdict; the    *)
(* rule engine (components/scripting/scripting.c) tries the script as a    *)
(* boot would, loads it beside the running one, hands over, stores it and  *)
(* publishes the verdict.  Power may be cut at any step.                   *)
(*                                                                         *)
(* Upload n carries script n; script 0 is what the first boot finds.  Two  *)
(* things outlive a script's context and are shared by all scripts of the  *)
(* one JavaScript runtime: the table of timers and the queue of promise    *)
(* jobs.  Code of a script may arm or clear a timer of its own or queue a  *)
(* job; what it does otherwise is left out.  Jobs that run over the time   *)
(* budget are left queued, so any drain may stop early.                    *)
(***************************************************************************)
EXTENDS Naturals, Sequences

CONSTANTS
    MaxUploads,  \* bound: uploads, numbered in the order they are sent
    Slots,       \* MAX_TIMERS timer slots
    QueueDepth,  \* QUEUE_DEPTH
    MaxJobs,     \* bound: promise jobs queued at once
    MaxActs,     \* bound: what the scripts' code does to timers and jobs
    MaxCuts      \* bound: power cuts

Uploads == 1..MaxUploads
Scripts == 0..MaxUploads
Free == MaxUploads + 1      \* no script: the slot is not used

ASSUME BoundAssumption ==
    /\ MaxUploads \in Nat /\ QueueDepth \in Nat \ {0}
    /\ MaxJobs \in Nat /\ MaxActs \in Nat /\ MaxCuts \in Nat

VARIABLES
    sent,      \* uploads sent so far
    http,      \* the web server's task: idle, or waiting for the verdict of a ticket
    answer,    \* what each upload was answered
    seq,       \* s_reload_seq
    queue,     \* the EVT_RELOADs in s_queue: [up, ticket]
    engine,    \* the engine's task: where it is in a reload, and of which upload
    running,   \* the script whose rules are in force
    flash,     \* the script the next boot loads
    timers,    \* s_timers: the script each slot's function belongs to
    jobs,      \* promise jobs of the runtime, by the script that queued them
    status,    \* s_reload_status
    ran,       \* history: scripts that were ever in force
    strays,    \* history: scripts a job of which ran when they were not in force, or going
    report,    \* history: what the last write to flash reported
    acts, cuts \* count what MaxActs and MaxCuts bound

webVars    == <<sent, http, answer>>
jsVars     == <<timers, jobs>>
history     == <<ran, strays, report>>
vars == <<webVars, seq, queue, engine, running, flash, jsVars, status, history, acts, cuts>>

Idle   == [pc |-> "loop", up |-> 0, ticket |-> 0, wasUsed |-> {}, stored |-> FALSE]
NoVerdict == [ticket |-> 0, ok |-> FALSE, stored |-> FALSE]
Used   == {s \in Slots : timers[s] # Free}

Init ==
    /\ sent = 0 /\ http = [pc |-> "idle", mine |-> 0]
    /\ answer = [u \in Uploads |-> "none"]
    /\ seq = 0 /\ queue = << >> /\ engine = Idle
    /\ running = 0 /\ flash = 0
    /\ timers = [s \in Slots |-> Free] /\ jobs = << >>
    /\ status = NoVerdict
    /\ ran = {0} /\ strays = {} /\ report = "fine"
    /\ acts = 0 /\ cuts = 0

-----------------------------------------------------------------------------
(* The web server's task. *)

(* api_rules_post() up to the wait: the ticket is taken before the queue is
   tried, and lost with a full one; "busy" is all such an upload gets. *)
HasRoom == Len(queue) < QueueDepth

Post ==
    /\ http.pc = "idle" /\ sent + 1 \in Uploads
    /\ sent' = sent + 1 /\ seq' = seq + 1
    /\ IF HasRoom
       THEN /\ queue' = Append(queue, [up |-> sent', ticket |-> seq'])
            /\ http' = [pc |-> "waiting", mine |-> seq']
            /\ UNCHANGED answer
       ELSE answer' = [answer EXCEPT ![sent'] = "busy"] /\ UNCHANGED <<queue, http>>
    /\ UNCHANGED <<engine, running, flash, jsVars, status, history, acts, cuts>>

(* What the status, as last read, says of this request. *)
Verdict(now, mine) ==
    IF now.ticket # mine THEN "pending"
    ELSE IF ~now.ok THEN "rejected"
    ELSE IF now.stored THEN "ok" ELSE "unstored"

(* The rest of it: the handler answers once the status has reached its ticket
   or RULES_APPLY_TIMEOUT_MS have passed, whichever comes first. *)
AnswerPost ==
    /\ http.pc = "waiting"
    /\ answer' = [answer EXCEPT ![sent] = Verdict(status, http.mine)]
    /\ http' = [pc |-> "idle", mine |-> 0]
    /\ UNCHANGED <<sent, seq, queue, engine, running, flash, jsVars, status, history, acts, cuts>>

-----------------------------------------------------------------------------
(* Script code, by the script it belongs to. *)

Arm(g, S) == [s \in Slots |-> IF s \in S THEN g ELSE timers[s]]

(* js_set_timer(), js_clear_timer(), or a promise; or nothing of the kind. *)
Runs(g, ts, js) ==
    \/ timers' = ts /\ jobs' = js /\ UNCHANGED acts
    \/ /\ acts < MaxActs /\ acts' = acts + 1
       /\ \/ \E s \in Slots : ts[s] = Free /\ timers' = [ts EXCEPT ![s] = g] /\ jobs' = js
          \/ \E s \in Slots : ts[s] = g /\ timers' = [ts EXCEPT ![s] = Free] /\ jobs' = js
          \/ Len(js) < MaxJobs /\ jobs' = Append(js, g) /\ timers' = ts

(* Whose rules are in force once the engine is back at the top of its loop. *)
InForceNext == IF engine.pc = "drain" THEN engine.up ELSE running

(* drain_jobs() takes one job; it runs at the top of the loop, after every
   event, and in the middle of a reload. *)
RunJob ==
    /\ engine.pc \in {"loop", "drain"} /\ jobs # << >>
    /\ Runs(Head(jobs), timers, Tail(jobs))
    /\ strays' = IF Head(jobs) = InForceNext THEN strays ELSE strays \cup {Head(jobs)}
    /\ UNCHANGED <<webVars, seq, queue, engine, running, flash, status, ran, report, cuts>>

(* Any event the rules in force see. *)
RuleEvent ==
    /\ engine.pc = "loop"
    /\ Runs(running, timers, jobs)
    /\ UNCHANGED <<webVars, seq, queue, engine, running, flash, status, history, cuts>>

(* run_timer(): the slot is free before the function runs. *)
TimerRuns ==
    /\ engine.pc = "loop"
    /\ \E s \in Used : Runs(timers[s], [timers EXCEPT ![s] = Free], jobs)
    /\ UNCHANGED <<webVars, seq, queue, engine, running, flash, status, history, cuts>>

-----------------------------------------------------------------------------
(* A reload, on the engine's task. *)

Publish(ok, stored) ==
    /\ status' = [ticket |-> engine.ticket, ok |-> ok, stored |-> stored]
    /\ engine' = Idle

TakeReload ==
    /\ engine.pc = "loop" /\ queue # << >>
    /\ engine' = [Idle EXCEPT !.pc = "trial", !.up = Head(queue).up, !.ticket = Head(queue).ticket]
    /\ queue' = Tail(queue)
    /\ UNCHANGED <<webVars, seq, running, flash, jsVars, status, history, acts, cuts>>

(* trial_load(): a runtime of its own, outputs and timers that go nowhere. *)
TrialLoad ==
    /\ engine.pc = "trial"
    /\ \/ engine' = [engine EXCEPT !.pc = "load"] /\ UNCHANGED status
       \/ Publish(FALSE, FALSE)
    /\ UNCHANGED <<webVars, seq, queue, running, flash, jsVars, history, acts, cuts>>

(* The new context, beside the running one: the script arms the timers its
   top level asks for, and may leave a promise.  It is refused if it fails
   here -- the hardware it reads is not the trial's -- or asked for more
   timers than are free; what it armed is released. *)
Load ==
    /\ engine.pc = "load"
    /\ \E S \in SUBSET (Slots \ Used), job \in BOOLEAN, ok \in BOOLEAN :
         /\ job => Len(jobs) < MaxJobs
         /\ jobs' = IF job THEN Append(jobs, engine.up) ELSE jobs
         /\ IF ok
            THEN /\ timers' = Arm(engine.up, S)
                 /\ engine' = [engine EXCEPT !.pc = "drain", !.wasUsed = Used]
                 /\ UNCHANGED status
            ELSE timers' = Arm(Free, S) /\ Publish(FALSE, FALSE)
    /\ UNCHANGED <<webVars, seq, queue, running, flash, history, acts, cuts>>

(* After drain_jobs(): the old context's timers are released by the slots
   they had, and the new script is in force. *)
OldSlots_bug == {}
OldSlots == engine.wasUsed

HandOver ==
    /\ engine.pc = "drain"
    /\ timers' = Arm(Free, OldSlots)
    /\ running' = engine.up /\ ran' = ran \cup {engine.up}
    /\ engine' = [engine EXCEPT !.pc = "store"]
    /\ UNCHANGED <<webVars, seq, queue, flash, jobs, status, strays, report, acts, cuts>>

(* store_rules() on the store task, while the engine waits.  The script is
   written with its own key; erasing the old format's key after it may fail
   and is reported as if nothing was stored. *)
InFlash_bug(written) == IF written /\ http.mine = engine.ticket THEN engine.up ELSE flash
InFlash(written) == IF written THEN engine.up ELSE flash

Store ==
    /\ engine.pc = "store"
    /\ \E written, fine \in BOOLEAN :
         /\ fine => written
         /\ flash' = InFlash(written)
         /\ report' = IF fine THEN "fine" ELSE "failed"
         /\ engine' = [engine EXCEPT !.pc = "publish", !.stored = fine]
    /\ UNCHANGED <<webVars, seq, queue, running, jsVars, status, ran, strays, acts, cuts>>

PublishAccepted ==
    /\ engine.pc = "publish"
    /\ Publish(TRUE, engine.stored)
    /\ UNCHANGED <<webVars, seq, queue, running, flash, jsVars, history, acts, cuts>>

Reload == TakeReload \/ TrialLoad \/ Load \/ HandOver \/ Store \/ PublishAccepted

(* A restart: what is in flash is loaded into an empty engine, and who waited
   for an answer gets none. *)
PowerCut ==
    /\ cuts < MaxCuts /\ cuts' = cuts + 1
    /\ http' = [pc |-> "idle", mine |-> 0]
    /\ answer' = IF http.pc = "waiting" THEN [answer EXCEPT ![sent] = "lost"] ELSE answer
    /\ seq' = 0 /\ queue' = << >> /\ engine' = Idle /\ status' = NoVerdict
    /\ running' = flash /\ ran' = ran \cup {flash} /\ strays' = {} /\ report' = "fine"
    /\ jobs' = << >>
    /\ \E S \in SUBSET Slots : timers' = [s \in Slots |-> IF s \in S THEN flash ELSE Free]
    /\ UNCHANGED <<sent, flash, acts>>

Next == Post \/ AnswerPost \/ RunJob \/ RuleEvent \/ TimerRuns \/ Reload \/ PowerCut

Spec == Init /\ [][Next]_vars

-----------------------------------------------------------------------------
Https    == [pc : {"idle", "waiting"}, mine : Scripts]
Answers  == {"none", "busy", "pending", "rejected", "ok", "unstored", "lost"}
Requests == [up : Uploads, ticket : Uploads]
Engines  == [pc : {"loop", "trial", "load", "drain", "store", "publish"}, up : Scripts,
             ticket : Scripts, wasUsed : SUBSET Slots, stored : BOOLEAN]
Verdicts == [ticket : Scripts, ok : BOOLEAN, stored : BOOLEAN]

(* Every reachable state is well typed; the queue never holds more than it has
   room for, nor a ticket more than there were uploads. *)
TypeOK ==
    /\ sent \in Scripts /\ seq \in 0..sent
    /\ http \in Https /\ answer \in [Uploads -> Answers]
    /\ queue \in Seq(Requests) /\ Len(queue) <= QueueDepth
    /\ engine \in Engines
    /\ running \in Scripts /\ flash \in Scripts
    /\ timers \in [Slots -> Scripts \cup {Free}]
    /\ jobs \in Seq(Scripts) /\ Len(jobs) <= MaxJobs
    /\ status \in Verdicts
    /\ ran \subseteq Scripts /\ strays \subseteq Scripts /\ report \in {"fine", "failed"}
    /\ acts \in 0..MaxActs /\ cuts \in 0..MaxCuts

(* An upload is answered with its own verdict (scripting_reload_status(),
   api_rules_post()): "ok" was in force and stored, "rejected" never was
   either. *)
AnswersAreTrue == \A u \in Uploads :
    /\ answer[u] \in {"ok", "unstored"} => u \in ran
    /\ answer[u] = "rejected" => u \notin ran /\ flash # u

(* Whenever no reload is under way, the next boot brings the script that is
   in force, unless its write reported an error -- also when the upload's
   handler had stopped waiting, and when power went in the middle
   (scripting_reload_and_store(), store_rules()). *)
BootsWhatRuns == engine.pc = "loop" /\ report = "fine" => flash = running

(* What an uploader is told holds, and holds across a restart
   (api_rules_post(), EVT_RELOAD). *)
KeptAsTold == AnswersAreTrue /\ BootsWhatRuns

(* A timer in the table belongs to the script in force, or to one a promise
   job of which ran out of its time: whatever a refused or replaced script
   armed itself is released, in the slots it had (clear_timers(), was_used).
   A job left in the queue is what the code has no such answer to. *)
OnlyOwnTimers ==
    engine.pc \in {"loop", "store", "publish"} =>
        \A s \in Used : timers[s] \in {running} \cup strays
=============================================================================
