----------------------------- MODULE ModbusCoils -----------------------------
(***************************************************************************)
(* The outputs as Modbus coils (components/modbus/mb_server.c), on top of  *)
(* the output driver.                                                      *)
(*                                                                         *)
(* A coil write is acknowledged when it is queued; the command task        *)
(* carries it out with dout_modify() later.  So that a master reads back   *)
(* what it wrote, a shadow holds the value asked for and a counter per     *)
(* coil says how many writes are still waiting: a read answers from the    *)
(* shadow while there is one, and from the relays otherwise.  The RTU      *)
(* slave's task and the TCP server's tasks come in here.                   *)
(*                                                                         *)
(* Not here: the header pads (coils 9-11), the holding registers, the      *)
(* address checks.  Broker sessions, saved configurations and the publish  *)
(* task change neither s_state nor s_port: Outputs has them.               *)
(***************************************************************************)
EXTENDS Outputs, Sequences

CONSTANTS
    Cmd,          \* the command task, one of Callers
    Clients,      \* the tasks that handle Modbus requests
    CoilWrites,   \* the writes they ask for: [mask, bits : SUBSET Outs]
    CmdDepth,     \* MB_CMD_QUEUE_DEPTH
    MaxWrites     \* bound: coil writes

\* What run_coil_cmd() passes to dout_modify().
CoilRequest(w) == [set |-> w.bits \intersect w.mask, clear |-> w.mask \ w.bits, toggle |-> {}]

ASSUME ModbusCoilsAssumption ==
    /\ Cmd \in Callers /\ Cmd # Mqtt /\ Cmd # Http
    /\ CoilWrites \subseteq [mask : SUBSET Outs, bits : SUBSET Outs]
    /\ \A w \in CoilWrites : CoilRequest(w) \in Requests
    /\ Nobody \notin Clients /\ Nobody \notin CoilWrites
    /\ CmdDepth \in Nat \ {0} /\ MaxWrites \in Nat

VARIABLES
    cmdQ,      \* s_cmd_q
    running,   \* the command task: the command taken from the queue
    shadow,    \* s_do_shadow
    pending,   \* s_do_pending
    cmdMux,    \* who holds s_cmd_mux
    live,      \* the relay state the reader inside the lock has taken
    writes,    \* environment: writes so far
    acked,     \* history: per coil, the value of the last acknowledged write
    spoiled    \* history: coils somebody else switched, or whose write failed

coilVars == <<cmdQ, running, shadow, pending, cmdMux, live, writes, acked, spoiled>>
cvars == <<vars, coilVars>>

-----------------------------------------------------------------------------
CInit ==
    /\ Init
    /\ cmdQ = <<>> /\ running = Nobody
    /\ shadow = port /\ pending = [i \in Outs |-> 0]
    /\ cmdMux = Nobody /\ live = {} /\ writes = 0
    /\ acked = [i \in Outs |-> "none"] /\ spoiled = {}

QueueFull == Len(cmdQ) >= CmdDepth

Counted_bug(p, w) == [i \in Outs |-> IF i \in w.mask THEN 1 ELSE p[i]]   \* a flag, not a count
Counted(p, w) == [i \in Outs |-> IF i \in w.mask THEN p[i] + 1 ELSE p[i]]

\* local_write_coils(): queue, shadow and count in one locked section.  A full
\* queue is answered "busy".
WriteCoils(w) ==
    /\ cmdMux = Nobody /\ writes < MaxWrites
    /\ writes' = writes + 1
    /\ IF QueueFull
       THEN UNCHANGED <<cmdQ, shadow, pending, acked>>
       ELSE /\ cmdQ' = Append(cmdQ, w)
            /\ shadow' = (shadow \ w.mask) \union (w.bits \intersect w.mask)
            /\ pending' = Counted(pending, w)
            /\ acked' = [i \in Outs |-> IF i \notin w.mask THEN acked[i]
                                        ELSE IF i \in w.bits THEN "on" ELSE "off"]
    /\ UNCHANGED <<vars, running, cmdMux, live, spoiled>>

\* local_read_coils(): the relays first, inside the lock, then coil by coil.
ReadBegin(cl) ==
    /\ cmdMux = Nobody
    /\ cmdMux' = cl /\ live' = port
    /\ UNCHANGED <<vars, cmdQ, running, shadow, pending, writes, acked, spoiled>>

ReadEnd(cl) ==
    /\ cmdMux = cl
    /\ cmdMux' = Nobody /\ live' = {}
    /\ UNCHANGED <<vars, cmdQ, running, shadow, pending, writes, acked, spoiled>>

Answer_bug(i) == i \in live         \* always the relays
\* What the read inside the lock answers for coil i.
Answer(i) == IF pending[i] > 0 THEN i \in shadow ELSE i \in live

-----------------------------------------------------------------------------
(* The command task.                                                       *)

TakeCommand ==
    /\ running = Nobody /\ call[Cmd].at = "idle" /\ cmdQ # <<>>
    /\ running' = Head(cmdQ) /\ cmdQ' = Tail(cmdQ)
    /\ call' = [call EXCEPT ![Cmd] = ModifyCall(CoilRequest(Head(cmdQ)))]
    /\ UNCHANGED <<state, port, relays, invert, lock, dirty, notified, pub, connected,
                   published, gaveUp, used, shadow, pending, cmdMux, live, writes,
                   acked, spoiled>>

Waiting_bug(w) == w.bits \intersect w.mask     \* switching off is not counted down
Waiting(w) == w.mask

\* run_coil_cmd() after dout_modify(): one write less is waiting, and a coil
\* nobody waits for any more follows the relay again.
FinishCommand ==
    /\ running # Nobody /\ call[Cmd].at = "idle" /\ cmdMux = Nobody
    /\ LET left == [i \in Outs |-> IF i \in Waiting(running) /\ pending[i] > 0
                                   THEN pending[i] - 1 ELSE pending[i]]
           synced == {i \in running.mask : left[i] = 0}
       IN /\ pending' = left
          /\ shadow' = (shadow \ synced) \union (port \intersect synced)
    /\ running' = Nobody
    /\ UNCHANGED <<vars, cmdQ, cmdMux, live, writes, acked, spoiled>>

\* The driver's own step in this task; a transfer that fails leaves the
\* command undone.
CmdStep ==
    /\ CallStep(Cmd)
    /\ spoiled' = IF used'.fails > used.fails THEN spoiled \union running.mask ELSE spoiled
    /\ UNCHANGED <<cmdQ, running, shadow, pending, cmdMux, live, writes, acked>>

-----------------------------------------------------------------------------
OtherCalls ==
    \E c \in Callers \ {Cmd}, r \in Requests :
        /\ Call(c, r)
        /\ spoiled' = spoiled \union r.set \union r.clear \union r.toggle
        /\ UNCHANGED <<cmdQ, running, shadow, pending, cmdMux, live, writes, acked>>

OtherStep(c) == c # Cmd /\ CallStep(c) /\ UNCHANGED coilVars

CNext ==
    \/ \E w \in CoilWrites : WriteCoils(w)
    \/ \E cl \in Clients : ReadBegin(cl) \/ ReadEnd(cl)
    \/ TakeCommand \/ CmdStep \/ FinishCommand
    \/ OtherCalls
    \/ \E c \in Callers : OtherStep(c)

CSpec == CInit /\ [][CNext]_cvars

\* As FairSpec; s_cmd_mux, which the masters' reads take again and again, is
\* given to its waiters in turn (strong fairness of FinishCommand).
CFairSpec ==
    /\ CSpec
    /\ WF_cvars(TakeCommand) /\ WF_cvars(CmdStep) /\ SF_cvars(FinishCommand)
    /\ \A c \in Callers : WF_cvars(OtherStep(c))
    /\ \A cl \in Clients : WF_cvars(ReadEnd(cl))

-----------------------------------------------------------------------------
(* Properties.                                                             *)

TypeOK ==
    /\ OutputsTypeOK
    /\ cmdQ \in Seq(CoilWrites) /\ Len(cmdQ) <= CmdDepth
    /\ running \in CoilWrites \union {Nobody}
    /\ shadow \in SUBSET Outs /\ live \in SUBSET Outs
    /\ pending \in [Outs -> 0 .. CmdDepth + 1]
    /\ cmdMux \in Clients \union {Nobody}
    /\ writes \in 0 .. MaxWrites
    /\ acked \in [Outs -> {"none", "on", "off"}] /\ spoiled \in SUBSET Outs

\* A master reads back what was last acknowledged, from the moment of the
\* acknowledgement: before, while and after the command task carries the
\* write out (comments at s_do_pending and in local_read_coils()).  For a
\* coil nobody else switched and no transfer failed for.
ReadsOwnWrite ==
    cmdMux # Nobody =>
        \A i \in Outs \ spoiled : acked[i] # "none" => Answer(i) = (acked[i] = "on")

\* The queue order and the shadow order agree: with no write waiting the
\* relay is in the state the last acknowledged write asked for.
CoilsSettle ==
    \A i \in Outs \ spoiled :
        (acked[i] # "none" /\ pending[i] = 0) => (i \in port) = (acked[i] = "on")

\* Every acknowledged write is carried out, with other tasks on the output
\* lock and the masters reading all the time.
AcceptedIsRun == \A i \in Outs : pending[i] > 0 ~> pending[i] = 0

\* What the variables hold, and what a master reads of its writes.
CoilInv == TypeOK /\ ReadsOwnWrite /\ CoilsSettle
=============================================================================
