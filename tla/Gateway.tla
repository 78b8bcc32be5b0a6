-------------------------------- MODULE Gateway --------------------------------
(***************************************************************************)
(* The RS-485 master (components/modbus/mb_gateway.c): connection workers  *)
(* forward requests and the poll task reads through one segment, a         *)
(* transaction at a time.  The mutex is FreeRTOS's: it goes to the waiter  *)
(* of the highest priority, among equals to the first, and a wait may run  *)
(* out.  A transaction takes a device's timeout at most, so time is        *)
(* counted in transactions waited for.  Left out: the data and its byte    *)
(* order.                                                                  *)
(***************************************************************************)
EXTENDS Integers, SequencesExt, FiniteSets

CONSTANTS
    GwWorkers,       \* the workers of the TCP server, MB_TCP_WORKERS of them
    GwCodes,           \* exception codes a device may answer with
    GwScenarios      \* bound: [requests, poll], how many are forwarded and polled

PollTask == "poll"
GwTasks == GwWorkers \union {PollTask}
GwOk == "ok"

ASSUME GatewayAssumption ==
    /\ IsFiniteSet(GwWorkers) /\ PollTask \notin GwWorkers /\ "free" \notin GwWorkers
    /\ GwCodes \intersect {"none", "nothing", "unrelayed"} = {}
    /\ GwScenarios \subseteq [requests : Nat, poll : Nat]

VARIABLES
    master,      \* s_master: "none", "created", "running"
    segment,     \* s_bus: the task that holds it, or "free"
    waiting,     \* the tasks waiting for s_bus, in the order they came
    behind,      \* per task the transactions it has waited for
    exception,   \* the code the last transaction left on the master
    gw,          \* per task where it is, and how its transaction ended
    reply,       \* per task what transact() returned last
    heard,       \* history: per task how its last transaction ended
    gwUsed       \* environment: the scenario and the requests so far

gwVars == <<master, segment, waiting, behind, exception, gw, reply, heard, gwUsed>>

GwInit ==
    /\ \E s \in GwScenarios : gwUsed = [scenario |-> s, requests |-> 0, poll |-> 0]
    /\ master = "none" /\ segment = "free" /\ waiting = <<>>
    /\ behind = [t \in GwTasks |-> 0] /\ exception = "none"
    /\ gw = [t \in GwTasks |-> "idle"]
    /\ reply = [t \in GwTasks |-> "none"] /\ heard = [t \in GwTasks |-> "none"]

-----------------------------------------------------------------------------
\* mb_gateway_start(): the controller fills in s_master before it runs ...
CreateMaster ==
    /\ master = "none" /\ (gwUsed.scenario.requests > 0 \/ gwUsed.scenario.poll > 0)
    /\ master' = "created"
    /\ UNCHANGED <<segment, waiting, behind, exception, gw, reply, heard, gwUsed>>

\* ... and gateway_unwind() takes it back when a later step fails.
FinishStart ==
    /\ master = "created" /\ master' \in {"none", "running"}
    /\ UNCHANGED <<segment, waiting, behind, exception, gw, reply, heard, gwUsed>>

\* A function code the master's request interface does not reach
NotRelayed(t) ==
    /\ gw[t] = "idle" /\ master = "running" /\ t # PollTask
    /\ gwUsed.requests < gwUsed.scenario.requests /\ gwUsed' = [gwUsed EXCEPT !.requests = @ + 1]
    /\ reply' = [reply EXCEPT ![t] = "illegal"] /\ heard' = [heard EXCEPT ![t] = "unrelayed"]
    /\ UNCHANGED <<master, segment, waiting, behind, exception, gw>>

\* A request for another device, or a row of the poll table
AsksForBus(t) ==
    /\ gw[t] = "idle" /\ master # "created"
    /\ LET k == IF t = PollTask THEN "poll" ELSE "requests"
       IN  gwUsed[k] < gwUsed.scenario[k] /\ gwUsed' = [gwUsed EXCEPT ![k] = @ + 1]
    /\ IF master = "none"
       THEN /\ reply' = [reply EXCEPT ![t] = "path"] /\ heard' = [heard EXCEPT ![t] = "path"]
            /\ UNCHANGED <<waiting, behind, gw>>
       ELSE /\ gw' = [gw EXCEPT ![t] = "waits"] /\ waiting' = Append(waiting, t)
            /\ behind' = [behind EXCEPT ![t] = IF segment = "free" THEN 0 ELSE 1]
            /\ reply' = [reply EXCEPT ![t] = "none"] /\ heard' = [heard EXCEPT ![t] = "none"]
    /\ UNCHANGED <<master, segment, exception>>

\* The mutex goes to the first worker that waits, or without one to the poll task.
FirstInLine(i) ==
    IF waiting[i] = PollTask THEN \A j \in DOMAIN waiting : waiting[j] = PollTask
    ELSE \A j \in 1 .. i - 1 : waiting[j] = PollTask
Leaves(i) == waiting' = RemoveAt(waiting, i)

\* The segment is taken and the request goes out.
TakeBus(t) ==
    /\ segment = "free" /\ segment' = t
    /\ \E i \in DOMAIN waiting : waiting[i] = t /\ FirstInLine(i) /\ Leaves(i)
    /\ gw' = [gw EXCEPT ![t] = "sends"] /\ exception' = "none"
    /\ behind' = [u \in GwTasks |-> IF u = t THEN 0 ELSE IF gw[u] = "waits" THEN behind[u] + 1 ELSE behind[u]]
    /\ UNCHANGED <<master, reply, heard, gwUsed>>

GW_QUEUE_AHEAD_bug == Cardinality(GwWorkers) - 1     \* the poll task is not counted
GW_QUEUE_AHEAD == Cardinality(GwWorkers)

\* s_bus_wait_ms has passed.
TurnedAway(t) ==
    /\ gw[t] = "waits" /\ behind[t] > GW_QUEUE_AHEAD
    /\ \E i \in DOMAIN waiting : waiting[i] = t /\ Leaves(i)
    /\ gw' = [gw EXCEPT ![t] = "idle"]
    /\ reply' = [reply EXCEPT ![t] = "busy"] /\ heard' = [heard EXCEPT ![t] = "nothing"]
    /\ behind' = [behind EXCEPT ![t] = 0]
    /\ UNCHANGED <<master, segment, exception, gwUsed>>

\* The device answers, with an exception or not, or is silent, or makes no sense; or
\* the request could not be sent.
Transact(t, how) ==
    /\ gw[t] = "sends" /\ gw' = [gw EXCEPT ![t] = "ended"]
    /\ heard' = [heard EXCEPT ![t] = how]
    /\ exception' = IF how \in GwCodes THEN how ELSE "none"
    /\ UNCHANGED <<master, segment, waiting, behind, reply, gwUsed>>

ReplyOf(t) ==
    IF heard[t] = GwOk THEN GwOk
    ELSE IF exception # "none" THEN exception
    ELSE IF heard[t] = "silent" THEN "target" ELSE "path"

GiveBus_bug(t) ==      \* given back before the exception is read
    /\ \/ /\ gw[t] = "ended" /\ segment' = "free"
          /\ gw' = [gw EXCEPT ![t] = "gave"] /\ UNCHANGED reply
       \/ /\ gw[t] = "gave" /\ reply' = [reply EXCEPT ![t] = ReplyOf(t)]
          /\ gw' = [gw EXCEPT ![t] = "idle"] /\ UNCHANGED segment
    /\ UNCHANGED <<master, waiting, behind, exception, heard, gwUsed>>
\* The exception is read before the segment is given back.
GiveBus(t) ==
    /\ gw[t] = "ended" /\ segment' = "free"
    /\ reply' = [reply EXCEPT ![t] = ReplyOf(t)]
    /\ gw' = [gw EXCEPT ![t] = "idle"]
    /\ UNCHANGED <<master, waiting, behind, exception, heard, gwUsed>>

GwNext ==
    \/ CreateMaster \/ FinishStart
    \/ \E t \in GwTasks : \/ AsksForBus(t) \/ NotRelayed(t) \/ TakeBus(t) \/ TurnedAway(t) \/ GiveBus(t)
                          \/ \E how \in GwCodes \union {GwOk, "silent", "unsent"} : Transact(t, how)

GwSpec == GwInit /\ [][GwNext]_gwVars

-----------------------------------------------------------------------------
(* Properties *)

\* The comment above transact(): each caller hears how its own transaction ended, the
\* device's own code, no answer, or not sent; one that had its turn and no other.
ReplyFor(how) ==
    IF how \in GwCodes \union {GwOk} THEN how
    ELSE CASE how = "silent" -> "target" [] how = "nothing" -> "busy"
           [] how = "unrelayed" -> "illegal" [] OTHER -> "path"
RepliesAreOwn ==
    \A t \in GwTasks : gw[t] = "idle" /\ heard[t] # "none" => reply[t] = ReplyFor(heard[t])

\* No connection worker is turned away: the wait outlasts all that can be ahead of it
\* (the comment above GW_QUEUE_AHEAD).
WorkersGetATurn == \A t \in GwWorkers : heard[t] # "nothing"

\* The same for the poll task, which the comment counts among those that queue.
PollGetsATurn == heard[PollTask] # "nothing"

\* The segment is shared: a turn for everybody who waits, and to everybody his own
\* answer.
SegmentIsShared == RepliesAreOwn /\ WorkersGetATurn
=============================================================================
