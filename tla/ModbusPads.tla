----------------------------- MODULE ModbusPads -----------------------------
(***************************************************************************)
(* Modbus requests that reach the header pads (components/modbus/          *)
(* mb_server.c): a holding register write may carry PWM settings and the   *)
(* LED or buzzer registers, a coil write pads (coils 9-11) and relays.     *)
(* The pads are changed at once, the rest is queued for the command task.  *)
(* Both are checked before anything moves, and s_cmd_mux is held from the  *)
(* check for room to the queueing.                                         *)
(*                                                                         *)
(* Every caller of aux_io_pwm_write() and aux_io_out_set_many() is here,   *)
(* so AuxPads' Writers are the Modbus clients.  The relays' shadow is in   *)
(* ModbusCoils; what the LED and the buzzer make of a command is in Led    *)
(* and Buzzer.                                                             *)
(***************************************************************************)
EXTENDS AuxPads, Sequences

CONSTANTS
    Requests,    \* [pwm, outs, on, base]: the pads' part and the queued part
    Bases,       \* values of the LED and buzzer registers
    CmdDepth     \* MB_CMD_QUEUE_DEPTH

NoPwm == [a \in Pads |-> [freq |-> Keep, duty |-> Keep]]
Request == [pwm : PwmWrites \union {NoPwm}, outs : SUBSET Pads, on : SUBSET Pads,
            base : Bases \union {None}]

ASSUME ModbusPadsAssumption ==
    /\ Requests \subseteq Request
    /\ \A r \in Requests : r.outs = {} \/ r.pwm = NoPwm
    /\ None \notin Bases /\ CmdDepth \in Nat \ {0}

VARIABLES
    client,     \* per client: where its request is, the request, the answer
    cmdMux,     \* s_cmd_mux
    cmdQ,       \* s_cmd_q
    hrShadow,   \* s_hr_shadow, the LED and buzzer registers
    ran,        \* history: the last register value the command task carried out
    moved       \* history: clients whose request has changed a pad

padsVars == <<client, cmdMux, cmdQ, hrShadow, ran, moved>>
mpVars == <<auxVars, padsVars>>

-----------------------------------------------------------------------------
NoRequest == [pwm |-> NoPwm, outs |-> {}, on |-> {}, base |-> None]

MpInit ==
    /\ AuxInit
    /\ client = [c \in Writers |-> [at |-> "idle", req |-> NoRequest, answer |-> "none"]]
    /\ cmdMux = Nobody /\ cmdQ = <<>> /\ hrShadow = None /\ ran = None /\ moved = {}

At(c, l) == client[c].at = l
Goes(c, l) == client' = [client EXCEPT ![c].at = l]
Answered(c, a) == client' = [client EXCEPT ![c] = [at |-> "idle", req |-> NoRequest, answer |-> a]]

PwmPads(r) == Touched(r.pwm)
PadsFit(r) == /\ \A a \in PwmPads(r) : mode[a] = "pwm"
              /\ \A a \in r.outs : mode[a] = "output"

\* A request arrives; plan_pwm(), or the coils' own check, answers early.
Arrive(c, r) ==
    /\ At(c, "idle") /\ mux = Nobody /\ Event("request")
    /\ client' = [client EXCEPT ![c] =
                    IF PadsFit(r) THEN [at |-> "planned", req |-> r, answer |-> "none"]
                    ELSE [at |-> "idle", req |-> NoRequest, answer |-> "illegal"]]
    /\ moved' = moved \ {c}
    /\ UNCHANGED <<padVars, muxVars, dirty, notified, mv, taskVars, outside, cmdMux, cmdQ,
                   hrShadow, ran>>

NoRoom_bug(r) == FALSE       \* found out when the command is queued
NoRoom(r) == r.base # None /\ Len(cmdQ) >= CmdDepth

Lock(c) ==
    /\ At(c, "planned") /\ cmdMux = Nobody
    /\ IF NoRoom(client[c].req)
       THEN Answered(c, "busy") /\ UNCHANGED cmdMux
       ELSE Goes(c, "pads") /\ cmdMux' = c
    /\ UNCHANGED <<auxVars, cmdQ, hrShadow, ran, moved>>

\* The pads' part: the driver checks again under its own lock.
SetPads(c) ==
    /\ At(c, "pads")
    /\ LET r == client[c].req
       IN IF PwmPads(r) = {} /\ r.outs = {}
          THEN Goes(c, "queue") /\ UNCHANGED <<auxVars, cmdMux, moved>>
          ELSE /\ mux = Nobody
               /\ IF ~PadsFit(r)
                  THEN Answered(c, "illegal") /\ cmdMux' = Nobody /\ UNCHANGED <<auxVars, moved>>
                  ELSE IF r.outs = {}
                  THEN WriteBegin(c, r.pwm) /\ Goes(c, "driver") /\ UNCHANGED <<used, cmdMux, moved>>
                  ELSE /\ OutSet(r.outs, r.on) /\ Goes(c, "queue") /\ UNCHANGED <<used, cmdMux>>
                       /\ moved' = IF out' = out THEN moved ELSE moved \union {c}
    /\ UNCHANGED <<cmdQ, hrShadow, ran>>

\* aux_io_pwm_write() returns.
PadsSet(c) ==
    /\ At(c, "driver") /\ WriteEnd
    /\ IF op.failed THEN Answered(c, "failure") /\ cmdMux' = Nobody
                    ELSE Goes(c, "queue") /\ UNCHANGED cmdMux
    /\ moved' = IF set = op.old THEN moved ELSE moved \union {c}
    /\ UNCHANGED <<cmdQ, hrShadow, ran>>

Queue(c) ==
    /\ At(c, "queue") /\ cmdMux' = Nobody
    /\ LET r == client[c].req
       IN IF r.base = None THEN Answered(c, "ok") /\ UNCHANGED <<cmdQ, hrShadow>>
          ELSE IF Len(cmdQ) >= CmdDepth THEN Answered(c, "busy") /\ UNCHANGED <<cmdQ, hrShadow>>
          ELSE /\ Answered(c, "ok")
               /\ cmdQ' = Append(cmdQ, r)
               /\ hrShadow' = IF r.outs = {} THEN r.base ELSE hrShadow
    /\ UNCHANGED <<auxVars, ran, moved>>

Order_bug == Len(cmdQ)     \* the newest first
Order == 1

\* The command task carries out a command: run_holding_cmd(), or the relays.
Command ==
    /\ cmdQ # <<>>
    /\ cmdQ' = RemoveAt(cmdQ, Order)
    /\ ran' = IF cmdQ[Order].outs = {} THEN cmdQ[Order].base ELSE ran
    /\ UNCHANGED <<auxVars, client, cmdMux, hrShadow, moved>>

ClientStep(c) == Lock(c) \/ SetPads(c) \/ PadsSet(c) \/ Queue(c)

Driver == WriteNext \/ WriteUndo \/ ApplyPad \/ ApplyEnd

MpNext ==
    \/ \E c \in Writers : ClientStep(c) \/ \E r \in Requests : Arrive(c, r)
    \/ Command
    \/ (AuxCalls \/ Driver) /\ UNCHANGED padsVars
    \/ TaskStep /\ UNCHANGED padsVars
    \/ (SamplePeriod \/ (\E v \in Volts : VoltMoves(v)) \/ Connect \/ Disconnect)
         /\ UNCHANGED padsVars

MpSpec == MpInit /\ [][MpNext]_mpVars

MpFairSpec ==
    /\ MpSpec
    /\ \A c \in Writers : WF_mpVars(ClientStep(c))
    /\ WF_mpVars(Command)
    /\ WF_mpVars(Driver /\ UNCHANGED padsVars) /\ WF_mpVars(TaskStep /\ UNCHANGED padsVars)
    /\ WF_mpVars(SamplePeriod /\ UNCHANGED padsVars)

-----------------------------------------------------------------------------
(* Properties.                                                             *)

MpTypeOK ==
    /\ AuxTypeOK
    /\ \A c \in Writers :
        /\ client[c].at \in {"idle", "planned", "pads", "driver", "queue"}
        /\ client[c].req \in Requests \union {NoRequest}
        /\ client[c].answer \in {"none", "ok", "busy", "illegal", "failure"}
    /\ cmdMux \in Writers \union {Nobody}
    /\ cmdQ \in Seq(Requests) /\ Len(cmdQ) <= CmdDepth
    /\ {hrShadow, ran} \subseteq Bases \union {None} /\ moved \subseteq Writers

\* A request that is answered with an exception has moved no pad, whatever other
\* tasks did to the pads and the queue between its checks and its changes
\* (comments in local_write_coils() and local_write_holding()); one that could
\* not be undone because the driver failed twice aside.
RefusedMovesNothing ==
    \A c \in Writers :
        client[c].answer \in {"busy", "illegal", "failure"} => c \notin moved \/ broken # {}

\* With the queue empty the last command carried out is the one the register
\* reads back: queue order and shadow order agree.
ShadowIsLast == cmdQ = <<>> => ran = hrShadow

\* What the variables hold, and that pads and registers do as they are reported.
PadInv == MpTypeOK /\ RunsAsReported /\ ShadowIsLast

\* Everybody who is told of the pads is told how they are in the end.
TellsAll == PadsSettle /\ RulesSettle
=============================================================================
