------------------------------- MODULE Outputs -------------------------------
(***************************************************************************)
(* The relay outputs of the board (components/board/dout.c).               *)
(*                                                                         *)
(* All eight hang on one I2C expander, so switching one is a read-modify-  *)
(* write of the whole byte, asked for by the CAN, Modbus, rule, web and    *)
(* MQTT tasks.  dout_modify() does it under a lock on a working copy,      *)
(* transmits, takes it back when the transfer fails, and stores what the   *)
(* relays now do in s_port, which readers take without the lock.  A task   *)
(* of its own publishes the outputs that moved; a new broker session and a *)
(* saved configuration re-apply the byte and publish all of them.          *)
(*                                                                         *)
(* Sets of outputs stand for the bit masks.  Not here: what a payload or a *)
(* request is parsed into, the topic names, dout_init().                   *)
(*                                                                         *)
(* A definition whose name ends in _bug is a deliberately wrong variant of *)
(* the one after it; no specification uses one.                            *)
(***************************************************************************)
EXTENDS Naturals, FiniteSets

CONSTANTS
    Outs,         \* the outputs, numbers
    Callers,      \* the tasks that switch them
    Mqtt,         \* the MQTT task, one of them
    Http,         \* the web server's task, one of them: it saves the configuration
    Requests,     \* the requests they make: [set, clear, toggle : SUBSET Outs]
    StartInverts, \* the invert settings the device may boot with
    ReapplyTries, \* dout_publish_all()'s attempts
    Nobody,       \* no task, no request
    MaxCalls,     \* bound: requests in all
    MaxFails,     \* bound: transfers that fail in all
    MaxConnects,  \* bound: broker sessions
    MaxSaves      \* bound: saved configurations that change an invert setting

ASSUME OutputsAssumption ==
    /\ Outs \subseteq Nat
    /\ Mqtt \in Callers /\ Http \in Callers /\ Nobody \notin Callers \union Requests
    /\ Requests \subseteq [set : SUBSET Outs, clear : SUBSET Outs, toggle : SUBSET Outs]
    /\ StartInverts \subseteq SUBSET Outs /\ ReapplyTries \in Nat \ {0}
    /\ MaxCalls \in Nat /\ MaxFails \in Nat /\ MaxConnects \in Nat /\ MaxSaves \in Nat

VARIABLES
    state,      \* s_state: the working copy
    port,       \* s_port: what the expander confirmed
    relays,     \* the byte the expander holds, outputs after their invert
    invert,     \* the configuration: inverted outputs
    lock,       \* who holds s_lock
    call,       \* per task: where it is in dout_modify() or dout_publish_all()
    dirty,      \* s_pub_dirty
    notified,   \* the publish task has a notification
    pub,        \* the publish task
    connected,  \* app_mqtt_is_connected()
    published,  \* per output: the last state this broker session was sent
    gaveUp,     \* history: the web page was told that re-applying failed
    used        \* environment: calls, failures, sessions, saves so far

vars == <<state, port, relays, invert, lock, call, dirty, notified, pub,
          connected, published, gaveUp, used>>

-----------------------------------------------------------------------------
Flip(s, t) == (s \ t) \union (t \ s)

NoChange == [set |-> {}, clear |-> {}, toggle |-> {}]

Change_bug(s, r) == (((s \ r.clear) \union r.set) \union r.toggle)
Change(s, r) == Flip((s \ r.clear) \union r.set, r.toggle)

NewCall(at, kind, req, tries, again) ==
    [at |-> at, kind |-> kind, req |-> req, before |-> {}, after |-> {}, byte |-> {},
     tries |-> tries, again |-> again]
IdleCall       == NewCall("idle", "modify", NoChange, 0, 0)
ModifyCall(r)  == NewCall("lock", "modify", r, 0, 0)
ReapplyCall(n) == NewCall("lock", "reapply", NoChange, ReapplyTries, n)
IdlePub == [at |-> "wait", batch |-> {}, out |-> 0, val |-> FALSE]

Init ==
    /\ state = {} /\ port = {}
    /\ invert \in StartInverts /\ relays = invert
    /\ lock = Nobody /\ call = [c \in Callers |-> IdleCall]
    /\ dirty = {} /\ notified = FALSE /\ pub = IdlePub
    /\ connected = FALSE /\ published = [i \in Outs |-> "none"]
    /\ gaveUp = FALSE
    /\ used = [calls |-> 0, fails |-> 0, connects |-> 0, saves |-> 0]

-----------------------------------------------------------------------------
(* Who calls.                                                              *)

\* A task enters dout_modify(); the MQTT task does so for a command it got.
Call(c, r) ==
    /\ call[c].at = "idle" /\ used.calls < MaxCalls
    /\ c = Mqtt => connected
    /\ call' = [call EXCEPT ![c] = ModifyCall(r)]
    /\ used' = [used EXCEPT !.calls = @ + 1]
    /\ UNCHANGED <<state, port, relays, invert, lock, dirty, notified, pub,
                   connected, published, gaveUp>>

\* A broker session begins: dout_on_mqtt_connected() publishes every output.
Connect ==
    /\ ~connected /\ call[Mqtt].at = "idle" /\ used.connects < MaxConnects
    /\ connected' = TRUE
    /\ published' = [i \in Outs |-> "none"]
    /\ call' = [call EXCEPT ![Mqtt] = ReapplyCall(0)]
    /\ used' = [used EXCEPT !.connects = @ + 1]
    /\ UNCHANGED <<state, port, relays, invert, lock, dirty, notified, pub, gaveUp>>

Disconnect ==
    /\ connected /\ call[Mqtt].at = "idle"
    /\ connected' = FALSE
    /\ UNCHANGED <<state, port, relays, invert, lock, call, dirty, notified, pub,
                   published, gaveUp, used>>

\* The topic output/read: the MQTT task re-applies and publishes everything.
ReadRequest ==
    /\ connected /\ call[Mqtt].at = "idle" /\ used.calls < MaxCalls
    /\ call' = [call EXCEPT ![Mqtt] = ReapplyCall(0)]
    /\ used' = [used EXCEPT !.calls = @ + 1]
    /\ UNCHANGED <<state, port, relays, invert, lock, dirty, notified, pub,
                   connected, published, gaveUp>>

\* api_config_post(): the new settings are live, then the byte is re-applied,
\* and once more by the dout_on_mqtt_connected() that follows.
SaveConfig(i) ==
    /\ call[Http].at = "idle" /\ used.saves < MaxSaves
    /\ invert' = Flip(invert, {i})
    /\ call' = [call EXCEPT ![Http] = ReapplyCall(1)]
    /\ used' = [used EXCEPT !.saves = @ + 1]
    /\ UNCHANGED <<state, port, relays, lock, dirty, notified, pub, connected, published, gaveUp>>

-----------------------------------------------------------------------------
(* Inside dout_modify() and each try of dout_publish_all().                *)

MayEnter(c) == lock = Nobody

Byte_bug(s) == s                    \* the invert settings forgotten
Byte(s) == Flip(s, invert)

\* The lock is taken, the working copy changed and the byte put together.
Acquire(c) ==
    /\ call[c].at = "lock" /\ MayEnter(c)
    /\ LET after == Change(state, call[c].req)
       IN /\ state' = after
          /\ call' = [call EXCEPT ![c].at = "transmit", ![c].before = state,
                                  ![c].after = after, ![c].byte = Byte(after)]
    /\ lock' = c
    /\ UNCHANGED <<port, relays, invert, dirty, notified, pub, connected, published,
                   gaveUp, used>>

\* The transfer succeeds, a stuck bus reset and the second try included; then
\* s_port and the unlock, before which nobody else looks at the relays.
TransmitOk(c) ==
    /\ call[c].at = "transmit"
    /\ relays' = call[c].byte
    /\ port' = IF call[c].kind = "modify" THEN call[c].after ELSE port
    /\ lock' = Nobody
    /\ gaveUp' = FALSE
    /\ call' = [call EXCEPT ![c].at = "mark"]
    /\ UNCHANGED <<state, invert, dirty, notified, pub, connected, published, used>>

Restored(c) == call[c].before

TriesAgain(c)     == call[c].kind = "reapply" /\ call[c].tries > 1

\* It fails: dout_modify() takes the change back, dout_publish_all() tries
\* again, ReapplyTries times in all.
TransmitFails(c) ==
    /\ call[c].at = "transmit" /\ used.fails < MaxFails
    /\ state' = Restored(c)
    /\ lock' = Nobody
    /\ call' = [call EXCEPT ![c].at = IF TriesAgain(c) THEN "lock" ELSE "mark",
                            ![c].after = call[c].before,
                            ![c].tries = IF TriesAgain(c) THEN @ - 1 ELSE @]
    /\ gaveUp' = (gaveUp \/ (call[c].again = 1 /\ ~TriesAgain(c)))
    /\ used' = [used EXCEPT !.fails = @ + 1]
    /\ UNCHANGED <<port, relays, invert, dirty, notified, pub, connected, published>>

\* The outputs mark_publish() is given.
Moved(c) == IF call[c].kind = "reapply" THEN Outs ELSE Flip(call[c].before, call[c].after)

Mark(c) ==
    /\ call[c].at = "mark"
    /\ dirty' = dirty \union Moved(c)
    /\ notified' = (notified \/ Moved(c) # {})
    /\ call' = [call EXCEPT ![c] = IF @.again > 0 THEN ReapplyCall(@.again - 1) ELSE IdleCall]
    /\ UNCHANGED <<state, port, relays, invert, lock, pub, connected, published, gaveUp, used>>

-----------------------------------------------------------------------------
(* The publish task.                                                       *)

\* It is notified, takes s_pub_dirty and looks whether there is a broker:
\* without one the batch is dropped, a new session publishes all.
PubWake ==
    /\ pub.at = "wait" /\ notified
    /\ notified' = FALSE /\ dirty' = {}
    /\ pub' = IF connected /\ dirty # {} THEN [pub EXCEPT !.at = "read", !.batch = dirty] ELSE pub
    /\ UNCHANGED <<state, port, relays, invert, lock, call, connected, published, gaveUp, used>>

Announced_bug(i) == i \in state     \* from the working copy
Announced(i) == i \in port

PubRead(i) ==
    /\ pub.at = "read" /\ i \in pub.batch /\ \A j \in pub.batch : i <= j
    /\ pub' = [at |-> "send", batch |-> pub.batch \ {i}, out |-> i, val |-> Announced(i)]
    /\ UNCHANGED <<state, port, relays, invert, lock, call, dirty, notified,
                   connected, published, gaveUp, used>>

\* app_mqtt_publish() takes the client's lock, which the MQTT task holds
\* while it handles an event; without a session the message is dropped.
PubSend ==
    /\ pub.at = "send" /\ call[Mqtt].at = "idle"
    /\ published' = IF connected THEN [published EXCEPT ![pub.out] = IF pub.val THEN "on" ELSE "off"]
                                 ELSE published
    /\ pub' = IF pub.batch = {} THEN IdlePub ELSE [pub EXCEPT !.at = "read"]
    /\ UNCHANGED <<state, port, relays, invert, lock, call, dirty, notified,
                   connected, gaveUp, used>>

-----------------------------------------------------------------------------
CallStep(c) == Acquire(c) \/ TransmitOk(c) \/ TransmitFails(c) \/ Mark(c)
PubStep     == PubWake \/ (\E i \in Outs : PubRead(i)) \/ PubSend
Session     == Connect \/ Disconnect \/ ReadRequest

Next ==
    \/ \E c \in Callers : CallStep(c) \/ \E r \in Requests : Call(c, r)
    \/ \E i \in Outs : SaveConfig(i)
    \/ Session
    \/ PubStep

Spec == Init /\ [][Next]_vars

\* Every task is scheduled and every transfer ends (10 ms time out).  The
\* waiters for the lock get it: the requests are finitely many.  Nobody has
\* to ask for anything, and a broker session need not begin or last.
FairSpec == Spec /\ (\A c \in Callers : WF_vars(CallStep(c))) /\ WF_vars(PubStep)

-----------------------------------------------------------------------------
(* Properties.                                                             *)

Places == {"idle", "lock", "transmit", "mark"}

CallType == [at : Places, kind : {"modify", "reapply"},
             req : [set : SUBSET Outs, clear : SUBSET Outs, toggle : SUBSET Outs],
             before : SUBSET Outs, after : SUBSET Outs, byte : SUBSET Outs,
             tries : 0 .. ReapplyTries, again : 0 .. 1]

OutputsTypeOK ==
    /\ state \in SUBSET Outs /\ port \in SUBSET Outs
    /\ relays \in SUBSET Outs /\ invert \in SUBSET Outs
    /\ lock \in Callers \union {Nobody}
    /\ call \in [Callers -> CallType]
    /\ \A c \in Callers : call[c].kind = "reapply" => call[c].tries > 0
    /\ dirty \in SUBSET Outs /\ notified \in BOOLEAN
    /\ pub \in [at : {"wait", "read", "send"}, batch : SUBSET Outs,
               out : Outs \union {0}, val : BOOLEAN]
    /\ connected \in BOOLEAN
    /\ published \in [Outs -> {"none", "on", "off"}]
    /\ gaveUp \in BOOLEAN
    /\ used \in [calls : 0 .. MaxCalls, fails : 0 .. MaxFails,
                connects : 0 .. MaxConnects, saves : 0 .. MaxSaves]

NoRequest == Nobody

\* The request a task waits on, as AtomicOutputs sees it.
Asked(c) == IF call[c].kind = "modify" /\ call[c].at \in {"lock", "transmit"}
            THEN call[c].req ELSE NoRequest

Atomic == INSTANCE AtomicOutputs WITH
              out <- port, asked <- [c \in Callers |-> Asked(c)]

\* dout_modify() is one atomic request, whoever else switches outputs at the
\* same time: s_port only ever moves by one caller's whole request applied
\* to s_port as it is.  No update is lost, none is carried out by halves.
OneAtATime == Atomic!Spec

\* Between transfers the expander holds what dout_get_all() answers, under
\* the invert settings as configured, once the task that saved them is done
\* and was not told that re-applying failed.
RelaysAsReported ==
    (lock = Nobody /\ call[Http].at = "idle" /\ ~gaveUp) => relays = Flip(port, invert)

\* The last state published for an output is the last thing its relay did
\* (comment at publish_one()): with the session up it ends that way.
PublishedSettles ==
    <>[](connected => \A i \in Outs : published[i] = IF i \in port THEN "on" ELSE "off")
=============================================================================
