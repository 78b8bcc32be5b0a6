------------------------------ MODULE TcpServer ------------------------------
(***************************************************************************)
(* The Modbus TCP server (components/modbus/mb_tcp_server.c).              *)
(*                                                                         *)
(* One task polls every connection and never blocks; a request the board   *)
(* answers itself is answered there.  One for the RS-485 segment goes, as  *)
(* the number of its slot, through a queue to a worker, which owns the     *)
(* slot until it has put the answer in the slot's buffer, released the     *)
(* slot and woken the poller.  With every slot taken a newcomer gets the   *)
(* place of a connection that has been quiet long enough, or is refused.   *)
(*                                                                         *)
(* A frame is one item in its connection's socket, or its first bytes and  *)
(* the rest; a request is its connection and number.  Of time a slot knows *)
(* whether its frame or its answer is overdue; which connections have been *)
(* quiet for EVICT_IDLE_MS, and which of them longest, is left open.  Not  *)
(* here: what the answer says and how long the segment takes, start and    *)
(* unwind, statistics; requests are forwarded (mb_gateway_forwarding()).   *)
(* A send to a client that is gone fails at once; a client takes an answer *)
(* whole or not at all.                                                    *)
(*                                                                         *)
(* <Name>_bug is a wrong variant of <Name>: with it in place a property    *)
(* below fails.                                                            *)
(***************************************************************************)
EXTENDS Integers, Sequences, FiniteSets

CONSTANTS
    Conns,      \* the connections clients make, numbered in that order
    Slow,       \* those whose clients may at first take no answers
    Slots,      \* MB_TCP_MAX_CONN of them, numbers
    Workers,    \* MB_TCP_WORKERS tasks; as many jobs may wait
    MaxItems    \* bound: items all clients send

ASSUME TcpServerAssumption ==
    /\ Conns \subseteq Nat /\ Slow \subseteq Conns
    /\ Slots \subseteq Nat /\ Slots # {} /\ IsFiniteSet(Workers)
    /\ MaxItems \in Nat

VARIABLES
    conn,     \* per connection: the client and its socket
    backlog,  \* the connections waiting to be accepted
    slot,     \* s_conn
    jobs,     \* s_jobs: slots
    task,     \* per worker: where it is in worker_task(), its slot, its request
    poll,     \* the poller: where it is in its pass, and what select() told it
    wake,     \* s_wake_fd has been written to
    used      \* environment: items sent

tcpVars == <<conn, backlog, slot, jobs, task, poll, wake, used>>

-----------------------------------------------------------------------------
NoConn == -1

\* The client's side: the items it has sent that nobody has read, whether it is
\* inside a request, whether it takes answers now, and the answers that came;
\* of the server's, how many of its requests have been read.
NewConn == [st |-> "off", reads |-> TRUE, in |-> <<>>, mid |-> FALSE,
            taken |-> 0, answers |-> <<>>]

Nothing == [c |-> NoConn, n |-> 0]

FreeSlot == [state |-> "free", c |-> NoConn, part |-> FALSE, late |-> FALSE,
             out |-> Nothing, stuck |-> FALSE]

IdleTask == [at |-> "idle", slot |-> 0, req |-> Nothing]

TcpInit ==
    /\ conn = [c \in Conns |-> NewConn] /\ backlog = <<>>
    /\ slot = [i \in Slots |-> FreeSlot]
    /\ jobs = <<>> /\ task = [w \in Workers |-> IdleTask]
    /\ poll = [at |-> "work", rd |-> {}, wr |-> {}, partial |-> FALSE, stale |-> FALSE]
    /\ wake = FALSE
    /\ used = 0

-----------------------------------------------------------------------------
(* The clients.                                                            *)

Connect(c, reads) ==
    /\ conn[c].st = "off" /\ \A d \in Conns : conn[d].st = "off" => c <= d
    /\ ~reads => c \in Slow
    /\ conn' = [conn EXCEPT ![c].st = "open", ![c].reads = reads]
    /\ backlog' = Append(backlog, c)
    /\ UNCHANGED <<slot, jobs, task, poll, wake, used>>

\* The first bytes of a frame, its rest or a whole one (for this board or for
\* the segment), or a header that is none.
Send(c, item) ==
    /\ conn[c].st = "open" /\ used < MaxItems
    /\ item = "head" => ~conn[c].mid
    /\ conn' = [conn EXCEPT ![c].in = Append(@, item),
                            ![c].mid = (item = "head")]
    /\ used' = used + 1
    /\ UNCHANGED <<backlog, slot, jobs, task, poll, wake>>

\* A client whose window was closed takes answers again.
Resume(c) ==
    /\ conn[c].st = "open" /\ ~conn[c].reads
    /\ conn' = [conn EXCEPT ![c].reads = TRUE]
    /\ UNCHANGED <<backlog, slot, jobs, task, poll, wake, used>>

Close(c) ==
    /\ conn[c].st = "open"
    /\ conn' = [conn EXCEPT ![c].st = "gone"]
    /\ UNCHANGED <<backlog, slot, jobs, task, poll, wake, used>>

-----------------------------------------------------------------------------
(* Time.                                                                   *)

Sending(i) == slot[i].out # Nothing

\* FRAME_WAIT_MS since the first bytes of a frame.
FrameTime(i) ==
    /\ slot[i].part /\ ~slot[i].late
    /\ slot' = [slot EXCEPT ![i].late = TRUE]
    /\ UNCHANGED <<conn, backlog, jobs, task, poll, wake, used>>

\* SEND_WAIT_MS since the answer was armed, for a client that takes nothing.
AnswerTime(i) ==
    /\ Sending(i) /\ ~conn[slot[i].c].reads /\ ~slot[i].stuck
    /\ slot' = [slot EXCEPT ![i].stuck = TRUE]
    /\ UNCHANGED <<conn, backlog, jobs, task, poll, wake, used>>

-----------------------------------------------------------------------------
(* A worker.                                                               *)

TakeJob(w) ==
    /\ task[w].at = "idle" /\ jobs # <<>>
    /\ jobs' = Tail(jobs)
    /\ LET i == Head(jobs)
       IN task' = [task EXCEPT ![w] = [at |-> "process", slot |-> i,
                                       req |-> [c |-> slot[i].c, n |-> conn[slot[i].c].taken]]]
    /\ UNCHANGED <<conn, backlog, slot, poll, wake, used>>

\* arm_out()
Armed(s, req) == [s EXCEPT !.out = req, !.stuck = FALSE]

\* process() has returned, whatever the segment said, and its answer is armed.
Arm(w) ==
    /\ task[w].at = "process"
    /\ slot' = [slot EXCEPT ![task[w].slot] = Armed(@, task[w].req)]
    /\ task' = [task EXCEPT ![w].at = "release"]
    /\ UNCHANGED <<conn, backlog, jobs, poll, wake, used>>

\* The release store ...
Release(w) ==
    /\ task[w].at = "release"
    /\ slot' = [slot EXCEPT ![task[w].slot].state = "idle"]
    /\ task' = [task EXCEPT ![w].at = "wake"]
    /\ UNCHANGED <<conn, backlog, jobs, poll, wake, used>>

Woken_bug == wake                   \* select() does not see a worker finish
Woken == TRUE

\* ... and the write to s_wake_fd.
Wake(w) ==
    /\ task[w].at = "wake"
    /\ wake' = Woken
    /\ task' = [task EXCEPT ![w] = IdleTask]
    /\ UNCHANGED <<conn, backlog, slot, jobs, poll, used>>

-----------------------------------------------------------------------------
(* The poller.                                                             *)

IdleSlots == {i \in Slots : slot[i].state = "idle"}

MayRead_bug(i) == TRUE              \* also while an answer is still going out
\* One request at a time: nothing is read before the last answer has left.
MayRead(i) == ~Sending(i)

Clocked_bug(i) == Sending(i)        \* half a frame waits for its client for ever
\* The connections that must be looked at on a clock.
Clocked(i) == Sending(i) \/ slot[i].part

Readable(i) == conn[slot[i].c].in # <<>> \/ conn[slot[i].c].st = "gone"
Writable(i) == conn[slot[i].c].reads \/ conn[slot[i].c].st = "gone"

\* A pass begins: the sets for select(), and whether it may wait for ever.
Build ==
    /\ poll.at = "work" /\ poll.rd = {} /\ poll.wr = {}
    /\ poll' = [at |-> "select", rd |-> {i \in IdleSlots : MayRead(i)},
                wr |-> {i \in IdleSlots : Sending(i)},
                partial |-> \E i \in IdleSlots : Clocked(i), stale |-> FALSE]
    /\ UNCHANGED <<conn, backlog, slot, jobs, task, wake, used>>

\* Nothing is kept of a connection that is over but who ended it.
Over(c) == [NewConn EXCEPT !.st = IF conn[c].st = "open" THEN "dropped" ELSE "gone"]

\* close_slot() for each slot of S.
ClosedConns(S) ==
    [c \in Conns |-> IF \E i \in S : slot[i].c = c THEN Over(c) ELSE conn[c]]
ClosedSlots(S) == [i \in Slots |-> IF i \in S THEN FreeSlot ELSE slot[i]]

Overdue_bug(i) == slot[i].stuck \/ (slot[i].part /\ slot[i].late)   \* whoever has the slot
\* What sweep_deadlines() closes.
Overdue(i) == slot[i].state = "idle" /\ (slot[i].stuck \/ (slot[i].part /\ slot[i].late))

\* select() returns: something is ready, or the time it may wait is over.
SelectReturns ==
    LET rd    == {i \in poll.rd : Readable(i)}
        wr    == {i \in poll.wr : Writable(i)}
        ready == wake \/ backlog # <<>> \/ rd \union wr # {}
        swept == IF poll.partial THEN {i \in Slots : Overdue(i)} ELSE {}
    IN  /\ poll.at = "select" /\ (ready \/ poll.partial)
        /\ conn' = ClosedConns(swept) /\ slot' = ClosedSlots(swept)
        /\ wake' = FALSE
        /\ poll' = [poll EXCEPT !.at = IF backlog # <<>> THEN "accept" ELSE "work",
                                !.rd = rd \ swept, !.wr = wr \ swept,
                                !.stale = rd \intersect swept # {}]
        /\ UNCHANGED <<backlog, jobs, task, used>>

MayTakeOver_bug(i) == slot[i].state = "idle" /\ ~slot[i].part     \* an answer going out is no use
\* oldest_idle()'s candidates, once quiet for EVICT_IDLE_MS.
MayTakeOver(i) == slot[i].state = "idle" /\ ~slot[i].part /\ ~Sending(i)

\* No slot is free and none quiet for long: close(fd).
Refuse ==
    /\ poll.at = "accept" /\ backlog # <<>>
    /\ \A i \in Slots : slot[i].state # "free"
    /\ conn' = [conn EXCEPT ![Head(backlog)] = Over(Head(backlog))]
    /\ backlog' = Tail(backlog)
    /\ UNCHANGED <<slot, jobs, task, poll, wake, used>>

\* The first free slot, or the place of a quiet connection.  The new socket may
\* have the number of one closed in this pass that select() had reported: then
\* this pass reads from it too.
Accept(i) ==
    /\ poll.at = "accept" /\ backlog # <<>>
    /\ IF \E j \in Slots : slot[j].state = "free"
       THEN slot[i].state = "free" /\ \A j \in Slots : slot[j].state = "free" => i <= j
       ELSE MayTakeOver(i)
    /\ backlog' = Tail(backlog)
    /\ conn' = ClosedConns({i})
    /\ slot' = [slot EXCEPT ![i] = [FreeSlot EXCEPT !.state = "idle", !.c = Head(backlog)]]
    /\ \E same \in (IF poll.stale THEN BOOLEAN ELSE {FALSE}) :
         poll' = [poll EXCEPT !.rd = IF same THEN @ \union {i} ELSE @ \ {i},
                              !.stale = @ \/ i \in poll.rd]
    /\ UNCHANGED <<jobs, task, wake, used>>

AcceptDone ==
    /\ poll.at = "accept" /\ backlog = <<>>
    /\ poll' = [poll EXCEPT !.at = "work"]
    /\ UNCHANGED <<conn, backlog, slot, jobs, task, wake, used>>

\* flush_out() for slot i as s, with the clients as cs, and close_slot() if the
\* connection is finished; an answer the client does not take yet stays until it
\* is overdue.
Flushed(i, s, cs) ==
    IF cs[s.c].st # "open" \/ (~cs[s.c].reads /\ s.stuck)
    THEN slot' = ClosedSlots({i}) /\ conn' = ClosedConns({i})
    ELSE IF cs[s.c].reads
         THEN /\ slot' = [slot EXCEPT ![i] = [s EXCEPT !.out = Nothing, !.stuck = FALSE]]
              /\ conn' = [cs EXCEPT ![s.c].answers = Append(@, s.out)]
         ELSE slot' = [slot EXCEPT ![i] = s] /\ conn' = cs

Flush(i) ==
    /\ poll.at = "work" /\ i \in poll.wr /\ \A j \in poll.wr : i <= j
    /\ poll' = [poll EXCEPT !.wr = @ \ {i}]
    /\ IF slot[i].state = "idle" /\ Sending(i) THEN Flushed(i, slot[i], conn)
                                              ELSE UNCHANGED <<slot, conn>>
    /\ UNCHANGED <<backlog, jobs, task, wake, used>>

QueueFull == Len(jobs) >= Cardinality(Workers)

\* pump_slot() with a whole frame in hand: answered here and sent at once
\* (send_now()), given to a worker, or told to retry (build_busy()).
Serve(i, item, rest) ==
    LET c   == slot[i].c
        cs  == [conn EXCEPT ![c].in = rest, ![c].taken = @ + 1]
        s   == [slot[i] EXCEPT !.part = FALSE, !.late = FALSE]
        req == [c |-> c, n |-> cs[c].taken]
    IN IF item = "remote" /\ ~QueueFull
       THEN /\ slot' = [slot EXCEPT ![i] = [s EXCEPT !.state = "busy"]]
            /\ conn' = cs /\ jobs' = Append(jobs, i)
       ELSE /\ Flushed(i, Armed(s, req), cs)
            /\ jobs' = jobs

\* It reads what has arrived, up to one whole frame.
Pumped(i) ==
    LET c      == slot[i].c
        begins == conn[c].in # <<>> /\ Head(conn[c].in) = "head"
        left   == IF begins THEN Tail(conn[c].in) ELSE conn[c].in
        closes == \/ slot[i].part /\ slot[i].late             \* frame_expired()
                  \/ left = <<>> /\ conn[c].st = "gone"
                  \/ left # <<>> /\ Head(left) = "bad"
    IN IF closes THEN slot' = ClosedSlots({i}) /\ conn' = ClosedConns({i}) /\ jobs' = jobs
       ELSE IF left # <<>> THEN Serve(i, Head(left), Tail(left))
       ELSE /\ slot' = [slot EXCEPT ![i].part = @ \/ begins]
            /\ conn' = [conn EXCEPT ![c].in = left] /\ jobs' = jobs

Pump(i) ==
    /\ poll.at = "work" /\ poll.wr = {} /\ i \in poll.rd /\ \A j \in poll.rd : i <= j
    /\ poll' = [poll EXCEPT !.rd = @ \ {i}]
    /\ IF slot[i].state = "idle" /\ MayRead(i) THEN Pumped(i)
                                              ELSE UNCHANGED <<slot, conn, jobs>>
    /\ UNCHANGED <<backlog, task, wake, used>>

-----------------------------------------------------------------------------
Client(c) ==
    \/ \E reads \in BOOLEAN : Connect(c, reads)
    \/ \E item \in {"head", "local", "remote", "bad"} : Send(c, item)
    \/ Resume(c) \/ Close(c)

Worker(w) == TakeJob(w) \/ Arm(w) \/ Release(w) \/ Wake(w)

Poller ==
    \/ Build \/ SelectReturns \/ Refuse \/ AcceptDone
    \/ \E i \in Slots : Accept(i) \/ Flush(i) \/ Pump(i)

Deadline(i) == FrameTime(i) \/ AnswerTime(i)

TcpNext ==
    \/ \E c \in Conns : Client(c)
    \/ \E i \in Slots : Deadline(i)
    \/ \E w \in Workers : Worker(w)
    \/ Poller

TcpSpec == TcpInit /\ [][TcpNext]_tcpVars

\* The tasks run, the segment is waited for only so long, and time passes.
\* Nothing is asked of the clients.
TcpFairSpec ==
    /\ TcpSpec
    /\ WF_tcpVars(Poller)
    /\ \A w \in Workers : WF_tcpVars(Worker(w))
    /\ \A i \in Slots : WF_tcpVars(Deadline(i))

-----------------------------------------------------------------------------
Request == [c : Conns \union {NoConn}, n : Nat]

\* Type invariant; the job queue stays within its length.
TcpTypeOK ==
    /\ conn \in [Conns -> [st : {"off", "open", "gone", "dropped"}, reads : BOOLEAN,
                           in : Seq({"head", "local", "remote", "bad"}), mid : BOOLEAN,
                           taken : Nat, answers : Seq(Request)]]
    /\ backlog \in Seq(Conns)
    /\ slot \in [Slots -> [state : {"free", "idle", "busy"}, c : Conns \union {NoConn},
                           part : BOOLEAN, late : BOOLEAN, out : Request,
                           stuck : BOOLEAN]]
    /\ jobs \in Seq(Slots) /\ Len(jobs) <= Cardinality(Workers)
    /\ task \in [Workers -> [at : {"idle", "process", "release", "wake"},
                             slot : Nat, req : Request]]
    /\ poll \in [at : {"select", "accept", "work"}, rd : SUBSET Slots,
                 wr : SUBSET Slots, partial : BOOLEAN, stale : BOOLEAN]
    /\ wake \in BOOLEAN
    /\ used \in 0 .. MaxItems

\* What a client gets back is the answer to its first request, to its second
\* and so on: none skipped, none twice, none to another connection's request
\* (arm_out(): "Never overwrites an answer still going out").
AnswersInOrder ==
    \A c \in Conns : \A k \in 1 .. Len(conn[c].answers) :
        conn[c].answers[k] = [c |-> c, n |-> k]

\* While a worker has a slot - from the queueing to the release - nobody else
\* writes to it or gives it away (job_t: "A worker owns its connection outright
\* for the length of the job"); its answer may become overdue.
WorkerHas(i) == slot[i].state = "busy"
SlotIsWorkers ==
    [][\A i \in Slots :
         WorkerHas(i) =>
            \/ slot'[i] = [slot[i] EXCEPT !.stuck = slot'[i].stuck]
            \/ \E w \in Workers : task[w].slot = i /\ task[w].at \in {"process", "release"}
                                   /\ task'[w].at # task[w].at]_tcpVars

\* The server never drops a client that is there, has taken its answers in time
\* and is owed one: not for a newcomer, and not for being slow on the segment.
OwedAnswer(i) ==
    /\ slot[i].c # NoConn /\ ~slot[i].stuck
    /\ conn[slot[i].c].st = "open" /\ conn[slot[i].c].taken > Len(conn[slot[i].c].answers)
OwedIsKept == [][\A i \in Slots : OwedAnswer(i) => conn'[slot[i].c].st # "dropped"]_tcpVars

\* With clients that stop sending, every request sent is answered or its
\* connection ends: a released slot is never left unseen (s_wake_fd: "A worker
\* finishing cannot be seen by select()").
Sent(c) == conn[c].taken + Len(SelectSeq(conn[c].in, LAMBDA item : item \in {"local", "remote"}))
Waits(c) == conn[c].st = "open" /\ Sent(c) > Len(conn[c].answers)
EveryRequestAnswered == []<>(\A c \in Conns : ~Waits(c))

\* A client that begins a frame and stops, or is gone, does not keep its slot
\* (sweep_deadlines(): "the only thing that ends such a connection").
Held(i) == slot[i].part \/ (slot[i].c # NoConn /\ conn[slot[i].c].st = "gone")
SlotsComeBack == []<>(\A i \in Slots : ~Held(i))

\* What the variables hold, and whose an answer is.
Inv == TcpTypeOK /\ AnswersInOrder

\* Whose a slot is: neither a worker's nor a waiting client's is taken away
\* (oldest_idle() names neither).
SlotsAreKept == SlotIsWorkers /\ OwedIsKept

\* What clients may expect in the end: an answer, and a slot if they want one.
ClientsAreServed == EveryRequestAnswered /\ SlotsComeBack
=============================================================================
