------------------------------ MODULE PollTable ------------------------------
(***************************************************************************)
(* The poll table of components/modbus/mb_tcp_master.c: one task reads a   *)
(* register of another device for each row of a table, over Modbus TCP     *)
(* connections it keeps or over the RS-485 segment, and hands the value    *)
(* on.  The table is the user's: the HTTP task saves a new one at any time *)
(* and leaves a copy for the polling task, which takes it between polls.   *)
(*                                                                         *)
(* A saved table is a generation, an index into Tables; what a row says is *)
(* the device it is read from.  Values carry no digits: a reading is known *)
(* by the generation of the row that asked for it.  A host stands for a    *)
(* host name and port.  Time is what passes between two steps: an interval *)
(* or a retry time that has run out is a flag somebody else raises.        *)
(***************************************************************************)
EXTENDS Naturals, Sequences, SequencesExt

CONSTANTS
    Rows,        \* the rows of the table, 1..n, polled in this order
    Hosts,       \* devices on the network, by host and port
    Literal,     \* those given by address; the others by name
    Segment,     \* the device on RS-485 (no connection, no name)
    Unused,      \* what a row that is switched off or incomplete names
    Addrs,       \* addresses a name may resolve to
    NoAddr,      \* a name never resolved
    Tables,      \* the tables saved one after another, each the device of every row
    ConnCache,   \* CONN_CACHE
    MaxStarts,   \* bound: calls of mb_tcp_master_start()
    MaxChanges   \* bound: what devices, names and answers do

Gens    == 1..Len(Tables)
Devices == Hosts \cup {Segment}
Callers == {"http", "net"}     \* the HTTP task; the task an interface came up on
Foreign == Len(Tables) + 1     \* a reading that answers another request

ASSUME TableAssumption ==
    /\ Tables \in Seq(Seq(Hosts \cup {Segment, Unused})) /\ Tables # << >>
    /\ \A g \in 1..Len(Tables) : Len(Tables[g]) = Len(Tables[1])
    /\ Rows = 1..Len(Tables[1])
    /\ Segment \notin Hosts /\ Unused \notin Hosts /\ Segment # Unused
ASSUME CacheAssumption == ConnCache \in Nat \ {0}
ASSUME HostAssumption  == Literal \subseteq Hosts
ASSUME AddrAssumption  == Addrs # {} /\ NoAddr \notin Addrs
ASSUME BoundAssumption == MaxStarts \in Nat /\ MaxChanges \in Nat

VARIABLES
    saved,     \* the generation app_config holds
    saving,    \* app_config_update()'s memcpy is under way
    caller,    \* where each caller of start() and reload() is
    startMux,  \* who holds s_start_mux
    starts,    \* calls of mb_tcp_master_start() so far
    tasks,     \* polling tasks created; s_running is tasks > 0
    staged,    \* s_staged: the generation of each row
    pending,   \* s_reload_pending
    active,    \* s_active: the generation of each row, 0 before the first
    due,       \* now >= due_ms, for each enabled row
    value,     \* the generation a row's last value was asked under, 0: none
    failing,   \* last_error is set
    task,      \* the polling task: where it is, its row, kept or fresh, which try,
               \* and (ghost) calm: nothing but the connection failed it so far
    conns,     \* s_conns in use, longest unused first
    dns,       \* s_dns, by host
    at, up, dnsUp,  \* where each device is, whether it answers; the DNS server
    changes    \* counts what MaxChanges bounds

configVars == <<saved, saving>>
startVars  == <<caller, startMux, starts, tasks>>
stageVars  == <<staged, pending>>
rowVars    == <<active, due, value, failing>>
worldVars  == <<at, up, dnsUp>>
vars == <<configVars, startVars, stageVars, rowVars, task, conns, dns, worldVars, changes>>

Device(i) == IF active[i] = 0 THEN Unused ELSE Tables[active[i]][i]
EntryActive(table, i) == IF table[i] = 0 THEN FALSE ELSE Tables[table[i]][i] # Unused
Enabled(table) == \E i \in Rows : EntryActive(table, i)
(* The task in its round, at row i. *)
AtRow(i) == [pc |-> "rows", row |-> i, fresh |-> FALSE, retry |-> FALSE, calm |-> FALSE]
NoName == [addr |-> NoAddr, ok |-> FALSE, due |-> TRUE]

Init ==
    /\ saved = 1 /\ saving = FALSE
    /\ caller = [c \in Callers |-> "idle"] /\ startMux = "free" /\ starts = 0 /\ tasks = 0
    /\ staged = [i \in Rows |-> 0] /\ pending = FALSE
    /\ active = [i \in Rows |-> 0] /\ due = [i \in Rows |-> FALSE]
    /\ value = [i \in Rows |-> 0] /\ failing = [i \in Rows |-> FALSE]
    /\ task = [AtRow(1) EXCEPT !.pc = "top"]
    /\ conns = << >> /\ dns = [h \in Hosts |-> NoName]
    /\ at = [h \in Hosts |-> CHOOSE a \in Addrs : TRUE]
    /\ up = [d \in Devices |-> TRUE] /\ dnsUp = TRUE
    /\ changes = 0

-----------------------------------------------------------------------------
(* Saving, starting and reloading. *)

(* config_post() with a table that differs: app_config_update() copies into
   the live configuration, which other tasks read without a lock meanwhile. *)
Save ==
    /\ caller["http"] = "idle" /\ saved < Len(Tables)
    /\ saved' = saved + 1 /\ saving' = TRUE
    /\ caller' = [caller EXCEPT !["http"] = "saving"]
    /\ UNCHANGED <<startMux, starts, tasks, stageVars, rowVars, task, conns, dns, worldVars, changes>>

Saved ==
    /\ caller["http"] = "saving"
    /\ saving' = FALSE
    /\ caller' = [caller EXCEPT !["http"] = "called"]
    /\ UNCHANGED <<saved, startMux, starts, tasks, stageVars, rowVars, task, conns, dns, worldVars, changes>>

(* on_network_ready(), or app_main() for a table with RS-485 rows; the two
   never call at once (s_net_ready_mux). *)
NetStarts ==
    /\ caller["net"] = "idle" /\ starts < MaxStarts
    /\ starts' = starts + 1
    /\ caller' = [caller EXCEPT !["net"] = "called"]
    /\ UNCHANGED <<configVars, startMux, tasks, stageVars, rowVars, task, conns, dns, worldVars, changes>>

MayLock(c) == startMux = "free"

(* s_running is looked at under the mutex: start() has nothing to do with a
   task running, reload() has the table to stage either way. *)
NothingToDo_bug(c) == tasks > 0
NothingToDo(c) == c = "net" /\ tasks > 0

LockStart(c) ==
    /\ caller[c] = "called" /\ MayLock(c)
    /\ IF NothingToDo(c)
       THEN caller' = [caller EXCEPT ![c] = "idle"] /\ UNCHANGED startMux
       ELSE caller' = [caller EXCEPT ![c] = "staging"] /\ startMux' = c
    /\ UNCHANGED <<configVars, starts, tasks, stageVars, rowVars, task, conns, dns, worldVars, changes>>

(* The table as a memcpy() of the live configuration finds it: while the HTTP
   task is writing, any row may be the old one still. *)
SeenTables == [Rows -> IF saving THEN {saved - 1, saved} ELSE {saved}]

(* stage_config(); with a task running, reload() ends here. *)
StageConfig(c) ==
    /\ caller[c] = "staging"
    /\ staged' \in SeenTables
    /\ pending' = TRUE
    /\ IF tasks > 0
       THEN caller' = [caller EXCEPT ![c] = "idle"] /\ startMux' = "free"
       ELSE caller' = [caller EXCEPT ![c] = "creating"] /\ UNCHANGED startMux
    /\ UNCHANGED <<configVars, starts, tasks, rowVars, task, conns, dns, worldVars, changes>>

(* The rest of start_locked(): no task for a table nothing is enabled in. *)
CreateTask(c) ==
    /\ caller[c] = "creating"
    /\ tasks' = IF Enabled(staged) THEN tasks + 1 ELSE tasks
    /\ caller' = [caller EXCEPT ![c] = "idle"] /\ startMux' = "free"
    /\ UNCHANGED <<configVars, starts, stageVars, rowVars, task, conns, dns, worldVars, changes>>

Starting == Saved \/ \E c \in Callers : LockStart(c) \/ StageConfig(c) \/ CreateTask(c)

-----------------------------------------------------------------------------
(* The polling task's round: take a new table, poll the rows that are due,
   close what has been idle. *)

(* apply_staged_config(): the table, its readings, its due times and its
   sockets and names change over together.  The rows are due one after the other,
   as early as this round. *)
TakeTable ==
    /\ active' = staged /\ pending' = FALSE
    /\ value' = [i \in Rows |-> 0] /\ failing' = [i \in Rows |-> FALSE]
    /\ due' \in {d \in [Rows -> BOOLEAN] : \A i \in Rows : d[i] => EntryActive(staged, i)}
    /\ conns' = << >> /\ dns' = [h \in Hosts |-> NoName]

Apply ==
    /\ tasks > 0 /\ task.pc = "top"
    /\ IF pending THEN TakeTable
       ELSE UNCHANGED <<active, pending, value, failing, due, conns, dns>>
    /\ task' = AtRow(1)
    /\ UNCHANGED <<configVars, startVars, staged, worldVars, changes>>

Cached(h) == {k \in DOMAIN conns : conns[k].host = h}

(* What a poll may count on: the device answers, the name leads to it or will
   be asked for, and no answer of an earlier request is waiting. *)
Sound(d) ==
    /\ up[d]
    /\ d \in Hosts =>
         /\ d \notin Literal => IF dns[d].due THEN dnsUp ELSE dns[d].addr = at[d]
         /\ \A k \in Cached(d) : conns[k].inbox = << >>

Polls_bug(i) == EntryActive(active, i) /\ due[i] /\ ~failing[i]
Polls(i) == EntryActive(active, i) /\ due[i]

NextRow ==
    /\ task.pc = "rows" /\ task.row \in Rows
    /\ LET how   == IF Device(task.row) = Segment THEN "bus" ELSE "resolve"
       IN task' = IF Polls(task.row) THEN [task EXCEPT !.pc = how, !.calm = Sound(Device(task.row))]
                  ELSE AtRow(task.row + 1)
    /\ UNCHANGED <<configVars, startVars, stageVars, rowVars, conns, dns, worldVars, changes>>

(* conn_reap_idle() closes those unused for CONN_IDLE_MS; then the task sleeps. *)
ReapIdle ==
    /\ task.pc = "rows" /\ task.row \notin Rows
    /\ \E k \in 0..Len(conns) : conns' = SubSeq(conns, k + 1, Len(conns))
    /\ task' = [AtRow(1) EXCEPT !.pc = "top"]
    /\ UNCHANGED <<configVars, startVars, stageVars, rowVars, dns, worldVars, changes>>

(* The end of poll_entry() and the next due time: the status under
   s_state_mux, then the sink, then the wait for interval or backoff. *)
Commit(ok, v) ==
    /\ value' = [value EXCEPT ![task.row] = IF ok THEN v ELSE @]
    /\ failing' = [failing EXCEPT ![task.row] = ~ok]
    /\ due' = [due EXCEPT ![task.row] = FALSE]
    /\ task' = AtRow(task.row + 1)

Fails == Commit(FALSE, 0)
Reads == Commit(TRUE, active[task.row])

(* read_rtu(): whether the device answers, or the segment is too busy to ask. *)
PollBus ==
    /\ task.pc = "bus"
    /\ IF up[Segment] THEN Reads ELSE Fails
    /\ UNCHANGED <<configVars, startVars, stageVars, active, conns, dns, worldVars, changes>>

BusBusy ==
    /\ task.pc = "bus" /\ changes < MaxChanges
    /\ changes' = changes + 1
    /\ Fails
    /\ UNCHANGED <<configVars, startVars, stageVars, active, conns, dns, worldVars>>

-----------------------------------------------------------------------------
(* One read over the network: resolve, find or dial a connection, ask, hear. *)

Host == Device(task.row)

(* resolve(): a name is asked for when its time has come; a lookup that fails
   leaves the address of the last one that did not.  An address needs none. *)
LookUp(d) ==
    IF ~d.due \/ Host \in Literal THEN d
    ELSE IF dnsUp THEN [addr |-> at[Host], ok |-> TRUE, due |-> FALSE]
    ELSE [d EXCEPT !.ok = FALSE, !.due = FALSE]

Resolve ==
    /\ task.pc = "resolve"
    /\ dns' = [dns EXCEPT ![Host] = LookUp(@)]
    /\ IF Host \notin Literal /\ dns'[Host].addr = NoAddr
       THEN Fails
       ELSE task' = [task EXCEPT !.pc = "pick"] /\ UNCHANGED <<value, failing, due>>
    /\ UNCHANGED <<configVars, startVars, stageVars, active, conns, worldVars, changes>>

(* The connections without the k-th, and with one more, used last. *)
Without(k) == RemoveAt(conns, k)
With(cs, c) == Append(cs, c)

(* conn_get(): a connection kept from an earlier poll, or room for a new one:
   a free slot, else the one unused the longest, closed before the dial. *)
MakeRoom_bug(cs) == cs
MakeRoom(cs) == IF Len(cs) = ConnCache THEN Tail(cs) ELSE cs

Pick ==
    /\ task.pc = "pick"
    /\ IF Cached(Host) # {}
       THEN \E k \in Cached(Host) :
              /\ conns' = With(Without(k), conns[k])
              /\ task' = [task EXCEPT !.pc = "send", !.fresh = FALSE]
       ELSE conns' = MakeRoom(conns) /\ task' = [task EXCEPT !.pc = "dial"]
    /\ UNCHANGED <<configVars, startVars, stageVars, rowVars, dns, worldVars, changes>>

(* dns_recheck(): the next attempt asks DNS again, unless DNS is what is down. *)
Recheck(d) == [d EXCEPT !.due = @ \/ d.ok]

Dial ==
    /\ task.pc = "dial"
    /\ IF up[Host] /\ (Host \in Literal \/ dns[Host].addr = at[Host])
       THEN /\ conns' = With(conns, [host |-> Host, open |-> TRUE, inbox |-> << >>])
            /\ task' = [task EXCEPT !.pc = "send", !.fresh = TRUE]
            /\ UNCHANGED <<dns, value, failing, due>>
       ELSE Fails /\ dns' = [dns EXCEPT ![Host] = Recheck(@)] /\ UNCHANGED conns
    /\ UNCHANGED <<configVars, startVars, stageVars, active, worldVars, changes>>

(* The connection in use is the one used last.  What it still holds when a
   request goes out answers an earlier transaction id. *)
Mine == Last(conns)
Aged(inbox) == [k \in DOMAIN inbox |-> "old"]

Send ==
    /\ task.pc = "send"
    /\ conns' = [conns EXCEPT ![Len(conns)].inbox = Aged(@)]
    /\ task' = [task EXCEPT !.pc = "await"]
    /\ UNCHANGED <<configVars, startVars, stageVars, rowVars, dns, worldVars, changes>>

(* An exchange that ends in an I/O error: the connection is closed; one that
   was kept from an earlier poll is worth one more try (RD_STALE_CONN). *)
OnIoFail_bug == Fails
OnIoFail ==
    IF task.fresh \/ task.retry THEN Fails
    ELSE task' = [task EXCEPT !.pc = "resolve", !.retry = TRUE] /\ UNCHANGED <<value, failing, due>>

IoFails ==
    /\ conns' = Front(conns)
    /\ OnIoFail
    /\ UNCHANGED <<configVars, startVars, stageVars, active, dns, worldVars>>

(* The peer has hung up, or says nothing for RESPONSE_MS. *)
HungUp   == task.pc = "await" /\ ~Mine.open /\ Mine.inbox = << >> /\ IoFails /\ UNCHANGED changes
TimedOut == task.pc = "await" /\ ~up[Host] /\ Mine.inbox = << >> /\ IoFails /\ UNCHANGED changes

(* mb_parse_read_response(): the answer is to this request and whole.  A
   mismatch closes the connection; an exception, or a value that is no
   number, is the device's answer. *)
Matches_bug(m) == m # "garbled"
Matches(m) == m \in {"value", "refusal"}

Receive ==
    /\ task.pc = "await" /\ Mine.inbox # << >>
    /\ LET m == Head(Mine.inbox) IN
       /\ conns' = IF Matches(m) THEN [conns EXCEPT ![Len(conns)].inbox = Tail(@)] ELSE Front(conns)
       /\ IF ~Matches(m) \/ m = "refusal" THEN Fails
          ELSE Commit(TRUE, IF m = "value" THEN active[task.row] ELSE Foreign)
    /\ UNCHANGED <<configVars, startVars, stageVars, active, dns, worldVars, changes>>

Polling == Resolve \/ Pick \/ Dial \/ Send \/ HungUp \/ TimedOut \/ Receive \/ PollBus
MasterTask == Apply \/ NextRow \/ ReapIdle \/ Polling

-----------------------------------------------------------------------------
(* Time, and the world. *)

(* A row's interval or backoff has passed (both end, the backoff at
   BACKOFF_MAX_MS); a name's TTL or retry time has.  What passes during a
   round is seen in the next. *)
RowDue(i) ==
    /\ task.pc = "top" /\ ~due[i] /\ EntryActive(active, i)
    /\ due' = [due EXCEPT ![i] = TRUE]
    /\ UNCHANGED <<configVars, startVars, stageVars, active, value, failing, task, conns, dns, worldVars, changes>>

NameDue(h) ==
    /\ task.pc = "top" /\ ~dns[h].due
    /\ dns' = [dns EXCEPT ![h].due = TRUE]
    /\ UNCHANGED <<configVars, startVars, stageVars, rowVars, task, conns, worldVars, changes>>

(* The device hears the request and answers; a reply lost in the network is
   one that never comes. *)
Hears == task.pc = "await" /\ Mine.open /\ up[Host] /\ Mine.inbox = << >>
Inbox(ms) == conns' = [conns EXCEPT ![Len(conns)].inbox = @ \o ms]

Answers ==
    /\ Hears /\ Inbox(<<"value">>)
    /\ UNCHANGED <<configVars, startVars, stageVars, rowVars, task, dns, worldVars, changes>>

Change == changes < MaxChanges /\ changes' = changes + 1
Uncalm == task' = [task EXCEPT !.calm = FALSE]

(* An exception, a frame of the wrong length, or the answer twice. *)
Misanswers ==
    /\ Change /\ Uncalm /\ Hears
    /\ \E ms \in {<<"refusal">>, <<"garbled">>, <<"value", "value">>} : Inbox(ms)
    /\ UNCHANGED <<configVars, startVars, stageVars, rowVars, dns, worldVars>>

(* A device answers too late for RESPONSE_MS. *)
Slow ==
    /\ Change /\ Hears /\ IoFails

(* A device closes a connection: one it finds idle as often as it likes, the
   one in use for once. *)
InUse(k) == task.pc \in {"send", "await"} /\ k = Len(conns)
PeerCloses(k) ==
    /\ conns[k].open /\ conns' = [conns EXCEPT ![k].open = FALSE]
    /\ UNCHANGED <<configVars, startVars, stageVars, rowVars, dns, worldVars>>
IdleClose == \E k \in DOMAIN conns : ~InUse(k) /\ PeerCloses(k) /\ UNCHANGED <<task, changes>>
BusyClose == \E k \in DOMAIN conns : InUse(k) /\ PeerCloses(k) /\ Uncalm /\ Change

Hang(d) ==
    /\ Change /\ Uncalm /\ up[d] /\ up' = [up EXCEPT ![d] = FALSE]
    /\ UNCHANGED <<configVars, startVars, stageVars, rowVars, conns, dns, at, dnsUp>>

(* It is back, perhaps at another address, and knows no connection. *)
Restart(d) ==
    /\ ~up[d] /\ up' = [up EXCEPT ![d] = TRUE] /\ Uncalm
    /\ conns' = [k \in DOMAIN conns |-> [conns[k] EXCEPT !.open = @ /\ conns[k].host # d]]
    /\ IF d \in Hosts \ Literal THEN \E a \in Addrs : at' = [at EXCEPT ![d] = a] ELSE UNCHANGED at
    /\ UNCHANGED <<configVars, startVars, stageVars, rowVars, dns, dnsUp, changes>>

DnsFails ==
    /\ Change /\ Uncalm /\ dnsUp /\ dnsUp' = FALSE
    /\ UNCHANGED <<configVars, startVars, stageVars, rowVars, conns, dns, at, up>>
DnsReturns ==
    /\ ~dnsUp /\ dnsUp' = TRUE /\ Uncalm
    /\ UNCHANGED <<configVars, startVars, stageVars, rowVars, conns, dns, at, up, changes>>

World ==
    \/ Misanswers \/ Slow \/ IdleClose \/ BusyClose \/ BusBusy \/ DnsFails \/ DnsReturns
    \/ \E d \in Devices : Hang(d) \/ Restart(d)

Next ==
    \/ Save \/ NetStarts \/ Starting \/ MasterTask \/ Answers \/ World
    \/ \E i \in Rows : RowDue(i)
    \/ \E h \in Hosts : NameDue(h)

Fairness ==
    /\ WF_vars(Starting) /\ WF_vars(MasterTask) /\ WF_vars(Answers)
    /\ \A i \in Rows : SF_vars(RowDue(i))
    /\ \A h \in Hosts : SF_vars(NameDue(h))
    /\ \A d \in Devices : WF_vars(Restart(d))
    /\ WF_vars(DnsReturns)
Spec == Init /\ [][Next]_vars /\ Fairness

-----------------------------------------------------------------------------
Conn == [host : Hosts, open : BOOLEAN, inbox : Seq({"value", "refusal", "garbled", "old"})]

(* Every reachable state is well typed: one polling task, and one caller of
   start() and reload() at a time past the mutex. *)
TypeOK ==
    /\ saved \in Gens /\ saving \in BOOLEAN
    /\ caller \in [Callers -> {"idle", "saving", "called", "staging", "creating"}]
    /\ startMux \in Callers \cup {"free"}
    /\ \A c \in Callers : caller[c] \in {"staging", "creating"} => startMux = c
    /\ starts \in 0..MaxStarts /\ changes \in 0..MaxChanges
    /\ tasks \in 0..1
    /\ staged \in [Rows -> Gens \cup {0}] /\ pending \in BOOLEAN
    /\ active \in [Rows -> Gens \cup {0}]
    /\ due \in [Rows -> BOOLEAN] /\ failing \in [Rows -> BOOLEAN]
    /\ value \in [Rows -> Gens \cup {0, Foreign}]
    /\ task \in [pc : {"top", "rows", "bus", "resolve", "pick", "dial", "send", "await"},
                  row : Rows \cup {Len(Tables[1]) + 1}, fresh : BOOLEAN, retry : BOOLEAN, calm : BOOLEAN]
    /\ conns \in Seq(Conn)
    /\ dns \in [Hosts -> [addr : Addrs \cup {NoAddr}, ok : BOOLEAN, due : BOOLEAN]]
    /\ at \in [Hosts -> Addrs] /\ up \in [Devices -> BOOLEAN]
    /\ dnsUp \in BOOLEAN

(* A reading shown or handed on under a row's name was asked for under that
   very row and answers that very request: no earlier request's answer, and
   none of a table replaced since (mb_parse_read_response(),
   apply_staged_config(), mb_tcp_master_get_status()). *)
OwnAnswer == \A i \in Rows : value[i] \in {0, active[i]}

(* The sockets this task holds, the one being dialled with them, never exceed
   its share, and no peer has two: a retry after a stale connection meets a
   fresh one (conn_get(), net_budget.h). *)
SocketBudget ==
    /\ Len(conns) + (IF task.pc = "dial" THEN 1 ELSE 0) <= ConnCache
    /\ \A h \in Hosts : \A j, k \in Cached(h) : j = k

(* A poll in which nothing goes wrong is not failed for want of a live
   connection: one the device closed since the last poll costs no turn
   (read_value()). *)
Failed(i) == due[i] /\ ~due'[i] /\ failing'[i]
NoTurnLost == [][task.calm /\ changes' = changes => \A i \in Rows : ~Failed(i)]_vars

(* Once nobody saves any more, the polling task works from the table saved
   last, whole, however the saves and the starts of the interfaces met; and
   there is a task if anything in it is enabled (stage_config(),
   start_locked()). *)
Latest == [i \in Rows |-> saved]
TableSettles == <>[](/\ tasks > 0 => active = Latest
                     /\ saved > 1 /\ Enabled(Latest) => tasks > 0)

(* Once devices and names have settled, every enabled row of the table has a
   reading of its own and no error: a device that moved or was away is found
   again, and a DNS outage costs nothing that was known (read_value(),
   dns_recheck(), apply_staged_config()). *)
ReadingsSettle ==
    <>[](\A i \in Rows : EntryActive(active, i) => value[i] = active[i] /\ ~failing[i])

(* What the variables hold, and how many sockets the task has. *)
Inv == TypeOK /\ SocketBudget

(* What a row may expect: no turn lost to a stale connection, and a reading in
   the end. *)
RowsAreRead == NoTurnLost /\ ReadingsSettle
=============================================================================
