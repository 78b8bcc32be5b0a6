-------------------------- MODULE ModbusCoils_proofs --------------------------
(***************************************************************************)
(* Proofs about the output driver and the Modbus coils on top of it.       *)
(*                                                                         *)
(* The driver, for any set of outputs, callers and requests: the typing,   *)
(* that it implements AtomicOutputs, and that the relays hold what is      *)
(* reported.  The coils, for any number of outputs, callers, clients and   *)
(* writes: the typing with the queue's bounds, that a master reads back    *)
(* what was last acknowledged, and that the relays end up there.           *)
(***************************************************************************)
EXTENDS ModbusCoils, FiniteSetTheorems, SequenceTheorems, TLAPS

-----------------------------------------------------------------------------
(* The output driver: typing.                                              *)

Masks == [set : SUBSET Outs, clear : SUBSET Outs, toggle : SUBSET Outs]

\* A request changes a set of outputs into one, and the empty request nothing.
LEMMA ChangeType ==
    ASSUME NEW s \in SUBSET Outs, NEW r \in Masks
    PROVE  Change(s, r) \in SUBSET Outs
  BY DEF Change, Flip, Masks

LEMMA ChangeNothing ==
    ASSUME NEW s \in SUBSET Outs
    PROVE  Change(s, NoChange) = s
  BY DEF Change, Flip, NoChange

\* The records a call starts from.
LEMMA NewCallType ==
    ASSUME NEW at \in Places, NEW kind \in {"modify", "reapply"}, NEW req \in Masks,
           NEW tries \in 0 .. ReapplyTries, NEW again \in 0 .. 1
    PROVE  NewCall(at, kind, req, tries, again) \in CallType
  BY DEF NewCall, CallType, Masks

LEMMA IdleType == IdleCall \in CallType /\ IdleCall.kind = "modify" /\ IdleCall.at = "idle" /\ IdleCall.again = 0
<1>1. NoChange \in Masks
  BY DEF NoChange, Masks
<1>2. "idle" \in Places /\ 0 \in 0 .. ReapplyTries /\ 0 \in 0 .. 1
  BY OutputsAssumption DEF Places
<1>3. IdleCall \in CallType
  BY <1>1, <1>2, NewCallType DEF IdleCall
<1>4. QED
  BY <1>3 DEF IdleCall, NewCall

LEMMA ModifyType ==
    ASSUME NEW r \in Masks
    PROVE  /\ ModifyCall(r) \in CallType /\ ModifyCall(r).kind = "modify"
           /\ ModifyCall(r).at = "lock" /\ ModifyCall(r).req = r /\ ModifyCall(r).again = 0
<1>1. "lock" \in Places /\ 0 \in 0 .. ReapplyTries /\ 0 \in 0 .. 1
  BY OutputsAssumption DEF Places
<1>2. ModifyCall(r) \in CallType
  BY <1>1, NewCallType DEF ModifyCall
<1>3. QED
  BY <1>2 DEF ModifyCall, NewCall

LEMMA ReapplyType ==
    ASSUME NEW n \in 0 .. 1
    PROVE  /\ ReapplyCall(n) \in CallType /\ ReapplyCall(n).kind = "reapply"
           /\ ReapplyCall(n).tries > 0 /\ ReapplyCall(n).at = "lock"
           /\ ReapplyCall(n).req = NoChange /\ ReapplyCall(n).again = n
<1>1. NoChange \in Masks
  BY DEF NoChange, Masks
<1>2. "lock" \in Places /\ ReapplyTries \in 0 .. ReapplyTries /\ ReapplyTries > 0
  BY OutputsAssumption DEF Places
<1>3. ReapplyCall(n) \in CallType
  BY <1>1, <1>2, NewCallType DEF ReapplyCall
<1>4. QED
  BY <1>2, <1>3 DEF ReapplyCall, NewCall

LEMMA TypeInit == Init => OutputsTypeOK
<1> SUFFICES ASSUME Init PROVE OutputsTypeOK
  OBVIOUS
<1>1. used \in [calls : 0 .. MaxCalls, fails : 0 .. MaxFails,
                connects : 0 .. MaxConnects, saves : 0 .. MaxSaves]
  BY OutputsAssumption DEF Init
<1>2. call \in [Callers -> CallType] /\ \A c \in Callers : call[c].kind = "reapply" => call[c].tries > 0
  BY IdleType DEF Init
<1>3. QED
  BY <1>1, <1>2, OutputsAssumption DEF Init, OutputsTypeOK, IdlePub, Flip

\* What a step does to the calls and to the environment's counters, the two
\* parts of the typing worth a step of their own.
CallsTyped ==
    /\ call \in [Callers -> CallType]
    /\ \A d \in Callers : call[d].kind = "reapply" => call[d].tries > 0

LEMMA CallsFrom ==
    ASSUME OutputsTypeOK, NEW c \in Callers, NEW k \in CallType,
           k.kind = "reapply" => k.tries > 0,
           call' = [call EXCEPT ![c] = k]
    PROVE  CallsTyped'
  BY DEF OutputsTypeOK, CallsTyped

LEMMA TypeCall ==
    ASSUME OutputsTypeOK, NEW c \in Callers, NEW r \in Requests, Call(c, r)
    PROVE  OutputsTypeOK'
<1> r \in Masks
  BY OutputsAssumption DEF Masks
<1>1. used' \in [calls : 0 .. MaxCalls, fails : 0 .. MaxFails,
                 connects : 0 .. MaxConnects, saves : 0 .. MaxSaves]
  BY OutputsAssumption DEF OutputsTypeOK, Call
<1>2. CallsTyped'
  BY CallsFrom, ModifyType DEF Call
<1>3. QED
  BY <1>1, <1>2 DEF OutputsTypeOK, Call, CallsTyped

LEMMA TypeConnect ==
    ASSUME OutputsTypeOK, Connect
    PROVE  OutputsTypeOK'
<1>1. used' \in [calls : 0 .. MaxCalls, fails : 0 .. MaxFails,
                 connects : 0 .. MaxConnects, saves : 0 .. MaxSaves]
  BY OutputsAssumption DEF OutputsTypeOK, Connect
<1>2. CallsTyped'
  <2>1. 0 \in 0 .. 1
    OBVIOUS
  <2>2. call' = [call EXCEPT ![Mqtt] = ReapplyCall(0)] /\ Mqtt \in Callers
    BY OutputsAssumption DEF Connect
  <2>3. QED
    BY <2>1, <2>2, CallsFrom, ReapplyType
<1>3. QED
  BY <1>1, <1>2 DEF OutputsTypeOK, Connect, CallsTyped

LEMMA TypeReadRequest ==
    ASSUME OutputsTypeOK, ReadRequest
    PROVE  OutputsTypeOK'
<1>1. used' \in [calls : 0 .. MaxCalls, fails : 0 .. MaxFails,
                 connects : 0 .. MaxConnects, saves : 0 .. MaxSaves]
  BY OutputsAssumption DEF OutputsTypeOK, ReadRequest
<1>2. CallsTyped'
  <2>1. 0 \in 0 .. 1
    OBVIOUS
  <2>2. call' = [call EXCEPT ![Mqtt] = ReapplyCall(0)] /\ Mqtt \in Callers
    BY OutputsAssumption DEF ReadRequest
  <2>3. QED
    BY <2>1, <2>2, CallsFrom, ReapplyType
<1>3. QED
  BY <1>1, <1>2 DEF OutputsTypeOK, ReadRequest, CallsTyped

LEMMA TypeSaveConfig ==
    ASSUME OutputsTypeOK, NEW i \in Outs, SaveConfig(i)
    PROVE  OutputsTypeOK'
<1>1. used' \in [calls : 0 .. MaxCalls, fails : 0 .. MaxFails,
                 connects : 0 .. MaxConnects, saves : 0 .. MaxSaves]
  BY OutputsAssumption DEF OutputsTypeOK, SaveConfig
<1>2. CallsTyped'
  <2>1. 1 \in 0 .. 1
    OBVIOUS
  <2>2. call' = [call EXCEPT ![Http] = ReapplyCall(1)] /\ Http \in Callers
    BY OutputsAssumption DEF SaveConfig
  <2>3. QED
    BY <2>1, <2>2, CallsFrom, ReapplyType
<1>3. QED
  BY <1>1, <1>2 DEF OutputsTypeOK, SaveConfig, CallsTyped, Flip

LEMMA TypeAcquire ==
    ASSUME OutputsTypeOK, NEW c \in Callers, Acquire(c)
    PROVE  OutputsTypeOK'
<1> DEFINE after == Change(state, call[c].req)
           k == [call[c] EXCEPT !.at = "transmit", !.before = state, !.after = after, !.byte = Byte(after)]
<1>1. after \in SUBSET Outs /\ Byte(after) \in SUBSET Outs
  <2>1. call[c].req \in Masks
    BY DEF OutputsTypeOK, CallType, Masks
  <2>2. after \in SUBSET Outs
    BY <2>1, ChangeType DEF OutputsTypeOK
  <2>3. QED
    BY <2>2 DEF Byte, Flip, OutputsTypeOK
<1>2. call' = [call EXCEPT ![c] = k]
  BY DEF Acquire, OutputsTypeOK
<1>3. k \in CallType /\ (k.kind = "reapply" => k.tries > 0)
  <2> HIDE DEF after
  <2>1. call[c] \in CallType /\ (call[c].kind = "reapply" => call[c].tries > 0) /\ state \in SUBSET Outs
    BY DEF OutputsTypeOK
  <2>2. QED
    BY <1>1, <2>1 DEF CallType, Places
<1> HIDE DEF k
<1>4. CallsTyped'
  BY <1>2, <1>3, CallsFrom
<1>5. QED
  BY <1>1, <1>4 DEF OutputsTypeOK, Acquire, CallsTyped

LEMMA TypeTransmitOk ==
    ASSUME OutputsTypeOK, NEW c \in Callers, TransmitOk(c)
    PROVE  OutputsTypeOK'
<1> DEFINE k == [call[c] EXCEPT !.at = "mark"]
<1>1. call[c] \in CallType /\ (call[c].kind = "reapply" => call[c].tries > 0)
  BY DEF OutputsTypeOK
<1>2. k \in CallType /\ (k.kind = "reapply" => k.tries > 0)
  BY <1>1 DEF CallType, Places
<1>3. call' = [call EXCEPT ![c] = k]
  BY DEF TransmitOk, OutputsTypeOK
<1> HIDE DEF k
<1>4. CallsTyped'
  BY <1>2, <1>3, CallsFrom
<1>5. call[c].byte \in SUBSET Outs /\ call[c].after \in SUBSET Outs
  BY <1>1 DEF CallType
<1>6. QED
  BY <1>4, <1>5 DEF OutputsTypeOK, TransmitOk, CallsTyped

LEMMA TypeTransmitFails ==
    ASSUME OutputsTypeOK, NEW c \in Callers, TransmitFails(c)
    PROVE  OutputsTypeOK'
<1> DEFINE k == [call[c] EXCEPT !.at = IF TriesAgain(c) THEN "lock" ELSE "mark",
                                !.after = call[c].before,
                                !.tries = IF TriesAgain(c) THEN @ - 1 ELSE @]
<1>1. call[c] \in CallType /\ (call[c].kind = "reapply" => call[c].tries > 0)
  BY DEF OutputsTypeOK
<1>2. k \in CallType /\ (k.kind = "reapply" => k.tries > 0)
  <2>1. CASE TriesAgain(c)
    <3>1. call[c].tries - 1 \in 0 .. ReapplyTries /\ call[c].tries - 1 > 0
      BY <1>1, <2>1, OutputsAssumption DEF CallType, TriesAgain
    <3>2. k = [call[c] EXCEPT !.at = "lock", !.after = call[c].before, !.tries = call[c].tries - 1]
      BY <2>1
    <3>3. QED
      BY <1>1, <3>1, <3>2 DEF CallType, Places
  <2>2. CASE ~TriesAgain(c)
    BY <1>1, <2>2 DEF CallType, Places
  <2>3. QED
    BY <2>1, <2>2
<1>3. call' = [call EXCEPT ![c] = k]
  BY DEF TransmitFails, OutputsTypeOK
<1> HIDE DEF k
<1>4. CallsTyped'
  BY <1>2, <1>3, CallsFrom
<1>5. used' \in [calls : 0 .. MaxCalls, fails : 0 .. MaxFails,
                 connects : 0 .. MaxConnects, saves : 0 .. MaxSaves]
  BY OutputsAssumption DEF OutputsTypeOK, TransmitFails
<1>6. state' \in SUBSET Outs
  BY <1>1 DEF TransmitFails, Restored, CallType
<1>7. gaveUp' \in BOOLEAN
  BY DEF TransmitFails, OutputsTypeOK
<1>8. QED
  BY <1>4, <1>5, <1>6, <1>7 DEF OutputsTypeOK, TransmitFails, CallsTyped

LEMMA TypeMark ==
    ASSUME OutputsTypeOK, NEW c \in Callers, Mark(c)
    PROVE  OutputsTypeOK'
<1> DEFINE k == IF call[c].again > 0 THEN ReapplyCall(call[c].again - 1) ELSE IdleCall
<1>1. call[c] \in CallType
  BY DEF OutputsTypeOK
<1>2. k \in CallType /\ (k.kind = "reapply" => k.tries > 0)
  <2>1. CASE call[c].again > 0
    <3>1. call[c].again - 1 \in 0 .. 1
      BY <1>1, <2>1 DEF CallType
    <3>2. QED
      BY <2>1, <3>1, ReapplyType
  <2>2. CASE ~(call[c].again > 0)
    BY <2>2, IdleType
  <2>3. QED
    BY <2>1, <2>2
<1>3. call' = [call EXCEPT ![c] = k]
  BY DEF Mark, OutputsTypeOK
<1> HIDE DEF k
<1>4. CallsTyped'
  BY <1>2, <1>3, CallsFrom
<1>5. Moved(c) \in SUBSET Outs
  BY <1>1 DEF Moved, Flip, CallType
<1>6. notified' \in BOOLEAN /\ dirty' \in SUBSET Outs
  BY <1>5 DEF Mark, OutputsTypeOK
<1>7. QED
  BY <1>4, <1>6 DEF OutputsTypeOK, Mark, CallsTyped

LEMMA TypePub ==
    ASSUME OutputsTypeOK, PubStep
    PROVE  OutputsTypeOK'
<1>1. CASE PubWake
  BY <1>1 DEF OutputsTypeOK, PubWake
<1>2. ASSUME NEW i \in Outs, PubRead(i)
      PROVE  OutputsTypeOK'
  <2>1. Announced(i) \in BOOLEAN
    BY DEF Announced
  <2>2. QED
    BY <1>2, <2>1 DEF OutputsTypeOK, PubRead
<1>3. CASE PubSend
  BY <1>3 DEF OutputsTypeOK, PubSend, IdlePub
<1>4. QED
  BY <1>1, <1>2, <1>3 DEF PubStep

\* Every step keeps the types.
LEMMA TypeStep == OutputsTypeOK /\ [Next]_vars => OutputsTypeOK'
<1> SUFFICES ASSUME OutputsTypeOK, [Next]_vars PROVE OutputsTypeOK'
  OBVIOUS
<1>1. ASSUME NEW c \in Callers, CallStep(c) PROVE OutputsTypeOK'
  BY <1>1, TypeAcquire, TypeTransmitOk, TypeTransmitFails, TypeMark DEF CallStep
<1>2. ASSUME NEW c \in Callers, NEW r \in Requests, Call(c, r) PROVE OutputsTypeOK'
  BY <1>2, TypeCall
<1>3. ASSUME NEW i \in Outs, SaveConfig(i) PROVE OutputsTypeOK'
  BY <1>3, TypeSaveConfig
<1>4. CASE Disconnect
  BY <1>4 DEF OutputsTypeOK, Disconnect
<1>5. CASE UNCHANGED vars
  BY <1>5 DEF OutputsTypeOK, vars
<1>6. QED
  BY <1>1, <1>2, <1>3, <1>4, <1>5, TypeConnect, TypeReadRequest, TypePub DEF Next, Session

\* Every variable keeps its type, for any outputs, callers and requests.
THEOREM TypeCorrect == Spec => []OutputsTypeOK
  BY TypeInit, TypeStep, PTL DEF Spec

-----------------------------------------------------------------------------
(* The lock.  OneAtATime is not inductive: what s_port becomes is decided   *)
(* when the lock is taken and stored when the transfer ends.  LockInv says  *)
(* what the holder of the lock may rely on in between.                      *)

LockInv ==
    /\ lock = Nobody => state = port
    /\ \A c \in Callers :
        /\ call[c].at = "transmit" <=> lock = c
        /\ call[c].at = "transmit" =>
              /\ call[c].before = port /\ call[c].after = state
              /\ state = Change(port, call[c].req)
        /\ call[c].kind = "reapply" => call[c].req = NoChange
        /\ (call[c].kind = "modify" /\ call[c].at \in {"lock", "transmit"}) => call[c].req \in Requests

LEMMA LockInit == Init => LockInv
  BY IdleType, OutputsAssumption DEF Init, LockInv, IdleCall, NewCall

\* A step that starts or ends a call outside the lock leaves LockInv alone.
LEMMA LockOutside ==
    ASSUME OutputsTypeOK, LockInv, NEW c \in Callers, NEW k,
           call[c].at # "transmit", k.at # "transmit",
           k.kind = "reapply" => k.req = NoChange,
           (k.kind = "modify" /\ k.at \in {"lock", "transmit"}) => k.req \in Requests,
           call' = [call EXCEPT ![c] = k], UNCHANGED <<lock, state, port>>
    PROVE  LockInv'
<1> call \in [Callers -> CallType]
  BY DEF OutputsTypeOK
<1>1. call'[c] = k /\ \A d \in Callers \ {c} : call'[d] = call[d]
  OBVIOUS
<1>2. QED
  BY <1>1 DEF LockInv

LEMMA LockAcquire ==
    ASSUME OutputsTypeOK, LockInv, NEW c \in Callers, Acquire(c)
    PROVE  LockInv'
<1> call \in [Callers -> CallType] /\ state \in SUBSET Outs
  BY DEF OutputsTypeOK
<1>1. call[c] \in CallType /\ lock = Nobody /\ lock' = c /\ c # Nobody /\ state = port /\ port' = port
  BY OutputsAssumption DEF Acquire, MayEnter, LockInv
<1>2. \A d \in Callers \ {c} : call'[d] = call[d] /\ call[d].at # "transmit"
  BY <1>1, OutputsAssumption DEF Acquire, LockInv
<1>3. /\ call'[c].at = "transmit" /\ call'[c].before = state /\ call'[c].after = state'
      /\ call'[c].req = call[c].req /\ call'[c].kind = call[c].kind
      /\ state' = Change(state, call[c].req) /\ call[c].at = "lock"
  BY <1>1 DEF Acquire, CallType
<1>4. QED
  BY <1>1, <1>2, <1>3, OutputsAssumption DEF LockInv

\* The two ends of a transfer free the lock with s_state and s_port agreed.
LEMMA LockTransmitOk ==
    ASSUME OutputsTypeOK, LockInv, NEW c \in Callers, TransmitOk(c)
    PROVE  LockInv'
<1> call \in [Callers -> CallType] /\ port \in SUBSET Outs
  BY DEF OutputsTypeOK
<1>1. call[c] \in CallType /\ call[c].at = "transmit" /\ lock = c /\ lock' = Nobody /\ state' = state
  BY DEF TransmitOk, LockInv
<1>2. \A d \in Callers \ {c} : call'[d] = call[d] /\ call[d].at # "transmit"
  BY <1>1 DEF TransmitOk, LockInv
<1>3. call'[c].at = "mark" /\ call'[c].req = call[c].req /\ call'[c].kind = call[c].kind
  BY <1>1 DEF TransmitOk, CallType
<1>4. port' = state
  <2>1. CASE call[c].kind = "modify"
    BY <1>1, <2>1 DEF TransmitOk, LockInv
  <2>2. CASE call[c].kind # "modify"
    <3>1. call[c].kind = "reapply"
      BY <1>1, <2>2 DEF CallType
    <3>2. call[c].req = NoChange /\ state = Change(port, call[c].req)
      BY <1>1, <3>1 DEF LockInv
    <3>3. state = port
      BY <3>2, ChangeNothing
    <3>4. QED
      BY <2>2, <3>3 DEF TransmitOk
  <2>3. QED
    BY <2>1, <2>2
<1>5. QED
  BY <1>1, <1>2, <1>3, <1>4, OutputsAssumption DEF LockInv

LEMMA LockTransmitFails ==
    ASSUME OutputsTypeOK, LockInv, NEW c \in Callers, TransmitFails(c)
    PROVE  LockInv'
<1> call \in [Callers -> CallType]
  BY DEF OutputsTypeOK
<1>1. call[c] \in CallType /\ call[c].at = "transmit" /\ lock = c /\ lock' = Nobody /\ port' = port
  BY DEF TransmitFails, LockInv
<1>2. \A d \in Callers \ {c} : call'[d] = call[d] /\ call[d].at # "transmit"
  BY <1>1 DEF TransmitFails, LockInv
<1>3. /\ call'[c].at \in {"lock", "mark"} /\ call'[c].req = call[c].req /\ call'[c].kind = call[c].kind
  BY <1>1 DEF TransmitFails, CallType
<1>4. state' = port
  BY <1>1 DEF TransmitFails, Restored, LockInv
<1>5. QED
  BY <1>1, <1>2, <1>3, <1>4, OutputsAssumption DEF LockInv

LEMMA LockStep == OutputsTypeOK /\ LockInv /\ [Next]_vars => LockInv'
<1> SUFFICES ASSUME OutputsTypeOK, LockInv, [Next]_vars PROVE LockInv'
  OBVIOUS
<1>1. ASSUME NEW c \in Callers, NEW r \in Requests, Call(c, r) PROVE LockInv'
  <2>1. r \in Masks
    BY OutputsAssumption DEF Masks
  <2>2. QED
    BY <1>1, <2>1, LockOutside, ModifyType DEF Call
<1>2. CASE Connect
  <2>1. 0 \in 0 .. 1 /\ Mqtt \in Callers
    BY OutputsAssumption
  <2>2. QED
    BY <1>2, <2>1, LockOutside, ReapplyType DEF Connect
<1>3. ASSUME NEW i \in Outs, SaveConfig(i) PROVE LockInv'
  <2>1. 1 \in 0 .. 1 /\ Http \in Callers
    BY OutputsAssumption
  <2>2. QED
    BY <1>3, <2>1, LockOutside, ReapplyType DEF SaveConfig
<1>4. ASSUME NEW c \in Callers, Mark(c) PROVE LockInv'
  <2> DEFINE k == IF call[c].again > 0 THEN ReapplyCall(call[c].again - 1) ELSE IdleCall
  <2>1. call[c] \in CallType /\ call \in [Callers -> CallType]
    BY DEF OutputsTypeOK
  <2>2. k.at \in {"lock", "idle"} /\ (k.kind = "reapply" => k.req = NoChange)
        /\ ((k.kind = "modify") => k.at = "idle")
    <3>1. CASE call[c].again > 0
      <4>1. call[c].again - 1 \in 0 .. 1
        BY <2>1, <3>1 DEF CallType
      <4>2. QED
        BY <3>1, <4>1, ReapplyType
    <3>2. CASE ~(call[c].again > 0)
      BY <3>2, IdleType
    <3>3. QED
      BY <3>1, <3>2
  <2>3. call' = [call EXCEPT ![c] = k] /\ call[c].at # "transmit" /\ UNCHANGED <<lock, state, port>>
    BY <1>4, <2>1 DEF Mark
  <2> HIDE DEF k
  <2>4. QED
    BY <2>2, <2>3, LockOutside
<1>5. ASSUME UNCHANGED <<lock, state, port, call>> PROVE LockInv'
  BY <1>5 DEF LockInv
<1>6. CASE Disconnect
  BY <1>5, <1>6 DEF Disconnect
<1>7. CASE PubStep
  BY <1>5, <1>7 DEF PubStep, PubWake, PubRead, PubSend
<1>8. CASE UNCHANGED vars
  BY <1>5, <1>8 DEF vars
<1>9. ASSUME NEW c \in Callers, CallStep(c) PROVE LockInv'
  BY <1>4, <1>9, LockAcquire, LockTransmitOk, LockTransmitFails DEF CallStep
<1>10. CASE ReadRequest
  <2>1. 0 \in 0 .. 1 /\ Mqtt \in Callers
    BY OutputsAssumption
  <2>2. QED
    BY <1>10, <2>1, LockOutside, ReapplyType DEF ReadRequest
<1>11. QED
  BY <1>1, <1>2, <1>10, <1>3, <1>6, <1>7, <1>8, <1>9 DEF Next, Session

\* s_state and s_port agree whenever nobody switches, and who does holds the
\* lock and works on s_port as it is.
THEOREM LockHolds == Spec => []LockInv
<1>1. OutputsTypeOK /\ LockInv /\ OutputsTypeOK' /\ [Next]_vars => LockInv'
  BY LockStep
<1>2. QED
  BY <1>1, LockInit, TypeCorrect, PTL DEF Spec

-----------------------------------------------------------------------------
(* Refinement.                                                             *)

\* The outputs AtomicOutputs sees, in one place.
asked == [c \in Callers |-> Asked(c)]

\* A step that leaves s_port and every caller's request alone is a stutter.
LEMMA SameAsked ==
    ASSUME NEW c \in Callers, call \in [Callers -> CallType], NEW k,
           call' = [call EXCEPT ![c] = k], Asked(c)' = Asked(c)
    PROVE  asked' = asked
<1>1. \A d \in Callers : Asked(d)' = Asked(d)
  BY DEF Asked, NoRequest
<1>2. QED
  BY <1>1 DEF asked

LEMMA AnsweredOne ==
    ASSUME NEW c \in Callers, Asked(c) # NoRequest, Asked(c)' = NoRequest,
           \A d \in Callers \ {c} : Asked(d)' = Asked(d)
    PROVE  Atomic!Answered(c)
<1>1. \A d \in Callers : Asked(d)' = IF d = c THEN NoRequest ELSE Asked(d)
  OBVIOUS
<1>2. [d \in Callers |-> Asked(d)]' = [d \in Callers |-> Asked(d)']
  OBVIOUS
<1>3. [d \in Callers |-> Asked(d)'] = [[d \in Callers |-> Asked(d)] EXCEPT ![c] = NoRequest]
  BY <1>1
<1>4. QED
  BY <1>2, <1>3 DEF Atomic!Answered

LEMMA RefinesCall ==
    ASSUME OutputsTypeOK, NEW c \in Callers, NEW r \in Requests, Call(c, r)
    PROVE  Atomic!Ask(c, r)
<1> call \in [Callers -> CallType]
  BY DEF OutputsTypeOK
<1>0. r \in Masks
  BY OutputsAssumption DEF Masks
<1>1. call'[c] = ModifyCall(r) /\ call[c].at = "idle" /\ port' = port
      /\ \A d \in Callers \ {c} : call'[d] = call[d]
  BY DEF Call
<1>2. Asked(c) = NoRequest /\ Asked(c)' = r
  BY <1>0, <1>1, ModifyType DEF Asked, NoRequest
<1>3. \A d \in Callers \ {c} : Asked(d)' = Asked(d)
  BY <1>1 DEF Asked, NoRequest
<1>4. QED
  BY <1>1, <1>2, <1>3 DEF Atomic!Ask

\* The end of a transfer answers the caller, and the whole request is applied
\* to s_port, or it leaves s_port as it was.
LEMMA RefinesTransmitOk ==
    ASSUME OutputsTypeOK, LockInv, NEW c \in Callers, TransmitOk(c)
    PROVE  Atomic!Apply(c) \/ (port' = port /\ asked' = asked)
<1> call \in [Callers -> CallType] /\ port \in SUBSET Outs
  BY DEF OutputsTypeOK
<1>1. call[c] \in CallType /\ call[c].at = "transmit"
      /\ call'[c].at = "mark" /\ call'[c].kind = call[c].kind
      /\ \A d \in Callers \ {c} : call'[d] = call[d]
  BY DEF TransmitOk, CallType
<1>2. Asked(c)' = NoRequest /\ \A d \in Callers \ {c} : Asked(d)' = Asked(d)
  BY <1>1 DEF Asked, NoRequest
<1>3. CASE call[c].kind = "modify"
  <2>1. Asked(c) = call[c].req /\ Asked(c) # NoRequest
    BY <1>1, <1>3, OutputsAssumption DEF Asked, NoRequest, LockInv
  <2>2. port' = Change(port, Asked(c))
    BY <1>1, <1>3, <2>1 DEF TransmitOk, LockInv
  <2>3. port' = Atomic!Change(port, Asked(c))
    BY <2>2 DEF Change, Flip, Atomic!Change
  <2>4. QED
    BY <1>2, <2>1, <2>3, AnsweredOne DEF Atomic!Apply
<1>4. CASE call[c].kind # "modify"
  <2>1. Asked(c) = NoRequest
    BY <1>4 DEF Asked
  <2>2. asked' = asked
    BY <1>2, <2>1 DEF asked
  <2>3. QED
    BY <1>4, <2>2 DEF TransmitOk
<1>5. QED
  BY <1>3, <1>4

LEMMA RefinesTransmitFails ==
    ASSUME OutputsTypeOK, LockInv, NEW c \in Callers, TransmitFails(c)
    PROVE  Atomic!Refuse(c) \/ (port' = port /\ asked' = asked)
<1> call \in [Callers -> CallType]
  BY DEF OutputsTypeOK
<1>1. call[c] \in CallType /\ call[c].at = "transmit" /\ call'[c].kind = call[c].kind
      /\ call'[c].at = (IF TriesAgain(c) THEN "lock" ELSE "mark") /\ port' = port
      /\ \A d \in Callers \ {c} : call'[d] = call[d]
  BY DEF TransmitFails, CallType
<1>2. \A d \in Callers \ {c} : Asked(d)' = Asked(d)
  BY <1>1 DEF Asked, NoRequest
<1>3. CASE call[c].kind = "modify"
  <2>1. Asked(c) = call[c].req /\ Asked(c) # NoRequest
    BY <1>1, <1>3, OutputsAssumption DEF Asked, NoRequest, LockInv
  <2>2. Asked(c)' = NoRequest
    BY <1>1, <1>3 DEF Asked, NoRequest, TriesAgain
  <2>3. QED
    BY <1>1, <1>2, <2>1, <2>2, AnsweredOne DEF Atomic!Refuse
<1>4. CASE call[c].kind # "modify"
  <2>1. Asked(c) = NoRequest /\ Asked(c)' = NoRequest
    BY <1>1, <1>4 DEF Asked, NoRequest
  <2>2. asked' = asked
    BY <1>2, <2>1 DEF asked
  <2>3. QED
    BY <1>1, <2>2
<1>5. QED
  BY <1>3, <1>4

LEMMA RefinesNext ==
    ASSUME OutputsTypeOK, LockInv, [Next]_vars
    PROVE  [Atomic!Next]_<<port, asked>>
<1> call \in [Callers -> CallType]
  BY DEF OutputsTypeOK
<1>1. ASSUME NEW c \in Callers, NEW r \in Requests, Call(c, r) PROVE Atomic!Next
  BY <1>1, RefinesCall DEF Atomic!Next
<1>2. CASE Connect
  <2>1. Mqtt \in Callers /\ 0 \in 0 .. 1
    BY OutputsAssumption
  <2>2. call'[Mqtt] = ReapplyCall(0) /\ call[Mqtt].at = "idle"
    BY <1>2, <2>1 DEF Connect
  <2>3. Asked(Mqtt)' = Asked(Mqtt)
    BY <2>1, <2>2, ReapplyType DEF Asked, NoRequest
  <2>4. asked' = asked
    BY <1>2, <2>1, <2>3, SameAsked DEF Connect
  <2>5. QED
    BY <1>2, <2>4 DEF Connect
<1>3. ASSUME NEW i \in Outs, SaveConfig(i) PROVE port' = port /\ asked' = asked
  <2>1. Http \in Callers /\ 1 \in 0 .. 1
    BY OutputsAssumption
  <2>2. call'[Http] = ReapplyCall(1) /\ call[Http].at = "idle"
    BY <1>3, <2>1 DEF SaveConfig
  <2>3. Asked(Http)' = Asked(Http)
    BY <2>1, <2>2, ReapplyType DEF Asked, NoRequest
  <2>4. asked' = asked
    BY <1>3, <2>1, <2>3, SameAsked DEF SaveConfig
  <2>5. QED
    BY <1>3, <2>4 DEF SaveConfig
<1>4. ASSUME NEW c \in Callers, Acquire(c) PROVE port' = port /\ asked' = asked
  <2>1. call[c] \in CallType /\ call[c].at = "lock" /\ call'[c].at = "transmit"
        /\ call'[c].kind = call[c].kind /\ call'[c].req = call[c].req
        /\ \A d \in Callers \ {c} : call'[d] = call[d]
    BY <1>4 DEF Acquire, CallType
  <2>2. \A d \in Callers : Asked(d)' = Asked(d)
    BY <2>1 DEF Asked, NoRequest
  <2>3. QED
    BY <1>4, <2>2 DEF Acquire, asked
<1>5. ASSUME NEW c \in Callers, Mark(c) PROVE port' = port /\ asked' = asked
  <2>1. call[c] \in CallType /\ call[c].at = "mark"
        /\ call'[c] = (IF call[c].again > 0 THEN ReapplyCall(call[c].again - 1) ELSE IdleCall)
        /\ \A d \in Callers \ {c} : call'[d] = call[d]
    BY <1>5 DEF Mark
  <2>2. Asked(c) = NoRequest
    BY <2>1 DEF Asked
  <2>3. Asked(c)' = NoRequest
    <3>1. CASE call[c].again > 0
      <4>1. call[c].again - 1 \in 0 .. 1
        BY <2>1, <3>1 DEF CallType
      <4>2. call'[c].kind = "reapply"
        BY <2>1, <3>1, <4>1, ReapplyType
      <4>3. QED
        BY <4>2 DEF Asked, NoRequest
    <3>2. CASE ~(call[c].again > 0)
      BY <2>1, <3>2, IdleType DEF Asked, NoRequest
    <3>3. QED
      BY <3>1, <3>2
  <2>4. \A d \in Callers : Asked(d)' = Asked(d)
    BY <2>1, <2>2, <2>3 DEF Asked, NoRequest
  <2>5. QED
    BY <1>5, <2>4 DEF Mark, asked
<1>6. ASSUME UNCHANGED <<port, call>> PROVE port' = port /\ asked' = asked
  BY <1>6 DEF asked, Asked, NoRequest
<1>7. CASE Disconnect
  BY <1>6, <1>7 DEF Disconnect
<1>8. CASE PubStep
  BY <1>6, <1>8 DEF PubStep, PubWake, PubRead, PubSend
<1>9. CASE UNCHANGED vars
  BY <1>6, <1>9 DEF vars
<1>10. ASSUME NEW c \in Callers, CallStep(c) PROVE Atomic!Next \/ (port' = port /\ asked' = asked)
  BY <1>4, <1>5, <1>10, RefinesTransmitOk, RefinesTransmitFails DEF CallStep, Atomic!Next
<1>11. CASE ReadRequest
  <2>1. Mqtt \in Callers /\ 0 \in 0 .. 1
    BY OutputsAssumption
  <2>2. call'[Mqtt] = ReapplyCall(0) /\ call[Mqtt].at = "idle"
    BY <1>11, <2>1 DEF ReadRequest
  <2>3. Asked(Mqtt)' = Asked(Mqtt)
    BY <2>1, <2>2, ReapplyType DEF Asked, NoRequest
  <2>4. asked' = asked
    BY <1>11, <2>1, <2>3, SameAsked DEF ReadRequest
  <2>5. QED
    BY <1>11, <2>4 DEF ReadRequest
<1>12. QED
  BY <1>1, <1>2, <1>11, <1>3, <1>7, <1>8, <1>9, <1>10 DEF Next, Session

\* However the tasks interleave and whichever transfers fail, dout_modify()
\* is one atomic request on the outputs: no update is lost or half carried out.
THEOREM ImplementsAtomic == Spec => OneAtATime
<1>1. Init => Atomic!Init
  BY IdleType DEF Init, Atomic!Init, Asked, NoRequest
<1>2. OutputsTypeOK /\ LockInv /\ [Next]_vars => [Atomic!Next]_<<port, asked>>
  BY RefinesNext
<1>3. OutputsTypeOK /\ LockInv /\ [Next]_vars => [Atomic!Next]_<<port, [c \in Callers |-> Asked(c)]>>
  BY <1>2 DEF asked
<1>4. QED
  BY <1>1, <1>3, TypeCorrect, LockHolds, PTL DEF Spec, OneAtATime, Atomic!Spec

-----------------------------------------------------------------------------
(* The relays.  Between the save of an invert setting and the end of the    *)
(* transfer that re-applies it, the expander and transfers begun before the *)
(* save may hold the old one; RelayInv says that this is the only time.     *)

\* The web server's task has saved settings it has not yet re-applied.
HttpOwes == call[Http].kind = "reapply" /\ call[Http].again = 1 /\ call[Http].at \in {"lock", "transmit"}

RelayInv ==
    /\ (~gaveUp /\ ~HttpOwes) => relays = Flip(port, invert)
    /\ \A c \in Callers : (call[c].at = "transmit" /\ (~HttpOwes \/ c = Http))
                             => call[c].byte = Flip(call[c].after, invert)

LEMMA RelayInit == Init => RelayInv
<1>1. \A s \in SUBSET Outs : Flip({}, s) = s
  BY DEF Flip
<1>2. QED
  BY <1>1, IdleType, OutputsAssumption DEF Init, RelayInv, HttpOwes, IdleCall, NewCall

\* A caller that starts or ends a call, HttpOwes left as it is.
LEMMA RelayOutside ==
    ASSUME OutputsTypeOK, RelayInv, NEW c \in Callers, NEW k,
           k.at # "transmit", call' = [call EXCEPT ![c] = k],
           HttpOwes' = HttpOwes, UNCHANGED <<relays, port, invert, gaveUp>>
    PROVE  RelayInv'
<1> call \in [Callers -> CallType]
  BY DEF OutputsTypeOK
<1>1. call'[c] = k /\ \A d \in Callers \ {c} : call'[d] = call[d]
  OBVIOUS
<1>2. QED
  BY <1>1 DEF RelayInv

LEMMA RelayAcquire ==
    ASSUME OutputsTypeOK, RelayInv, NEW c \in Callers, Acquire(c)
    PROVE  RelayInv'
<1> call \in [Callers -> CallType]
  BY DEF OutputsTypeOK
<1>1. call[c] \in CallType /\ call[c].at = "lock" /\ UNCHANGED <<relays, port, invert, gaveUp>>
  BY DEF Acquire
<1>2. /\ call'[c].at = "transmit" /\ call'[c].byte = Flip(call'[c].after, invert)
      /\ call'[c].kind = call[c].kind /\ call'[c].again = call[c].again
      /\ \A d \in Callers \ {c} : call'[d] = call[d]
  BY <1>1 DEF Acquire, CallType, Byte
<1>3. HttpOwes' = HttpOwes
  BY <1>1, <1>2, OutputsAssumption DEF HttpOwes
<1>4. QED
  BY <1>1, <1>2, <1>3 DEF RelayInv

LEMMA RelayTransmitOk ==
    ASSUME OutputsTypeOK, LockInv, RelayInv, NEW c \in Callers, TransmitOk(c)
    PROVE  RelayInv'
<1> call \in [Callers -> CallType]
  BY DEF OutputsTypeOK
<1>1. call[c] \in CallType /\ call[c].at = "transmit" /\ lock = c /\ invert' = invert
      /\ relays' = call[c].byte
  BY DEF TransmitOk, LockInv
<1>2. call'[c].at = "mark" /\ \A d \in Callers \ {c} : call'[d] = call[d] /\ call[d].at # "transmit"
  BY <1>1 DEF TransmitOk, CallType, LockInv
<1>3. \A d \in Callers : call'[d].at # "transmit"
  BY <1>2
<1>4. port' = call[c].after
  <2>1. CASE call[c].kind = "modify"
    BY <2>1 DEF TransmitOk
  <2>2. CASE call[c].kind # "modify"
    <3>1. call[c].kind = "reapply" /\ port \in SUBSET Outs
      BY <1>1, <2>2 DEF CallType, OutputsTypeOK
    <3>2. call[c].req = NoChange /\ state = Change(port, call[c].req) /\ call[c].after = state
      BY <1>1, <3>1 DEF LockInv
    <3>3. QED
      BY <2>2, <3>1, <3>2, ChangeNothing DEF TransmitOk
  <2>3. QED
    BY <2>1, <2>2
<1>5. ASSUME ~HttpOwes' PROVE ~HttpOwes \/ c = Http
  BY <1>2, <1>5, OutputsAssumption DEF HttpOwes
<1>6. ~HttpOwes' => relays' = Flip(port', invert')
  BY <1>1, <1>4, <1>5 DEF RelayInv
<1>7. QED
  BY <1>3, <1>6 DEF RelayInv

LEMMA RelayTransmitFails ==
    ASSUME OutputsTypeOK, LockInv, RelayInv, NEW c \in Callers, TransmitFails(c)
    PROVE  RelayInv'
<1> call \in [Callers -> CallType]
  BY DEF OutputsTypeOK
<1>1. call[c] \in CallType /\ call[c].at = "transmit" /\ lock = c /\ UNCHANGED <<relays, port, invert>>
  BY DEF TransmitFails, LockInv
<1>2. /\ call'[c].at = (IF TriesAgain(c) THEN "lock" ELSE "mark")
      /\ call'[c].kind = call[c].kind /\ call'[c].again = call[c].again
      /\ \A d \in Callers \ {c} : call'[d] = call[d] /\ call[d].at # "transmit"
  BY <1>1 DEF TransmitFails, CallType, LockInv
<1>3. \A d \in Callers : call'[d].at # "transmit"
  BY <1>2
<1>4. gaveUp' = (gaveUp \/ (call[c].again = 1 /\ ~TriesAgain(c)))
  BY DEF TransmitFails
<1>5. ASSUME ~gaveUp', ~HttpOwes' PROVE ~HttpOwes
  <2>1. CASE c # Http
    BY <1>2, <1>5, <2>1, OutputsAssumption DEF HttpOwes
  <2>2. CASE c = Http
    <3>1. call[c].again = 1 => TriesAgain(c)
      BY <1>4, <1>5
    <3>2. call[c].again = 1 => call'[c].at = "lock"
      BY <1>2, <3>1
    <3>3. QED
      BY <1>2, <1>5, <2>2, <3>2 DEF HttpOwes
  <2>3. QED
    BY <2>1, <2>2
<1>6. (~gaveUp' /\ ~HttpOwes') => relays' = Flip(port', invert')
  BY <1>1, <1>4, <1>5 DEF RelayInv
<1>7. QED
  BY <1>3, <1>6 DEF RelayInv

LEMMA RelayMark ==
    ASSUME OutputsTypeOK, RelayInv, NEW c \in Callers, Mark(c)
    PROVE  RelayInv'
<1> DEFINE k == IF call[c].again > 0 THEN ReapplyCall(call[c].again - 1) ELSE IdleCall
<1> call \in [Callers -> CallType]
  BY DEF OutputsTypeOK
<1>1. call[c] \in CallType /\ call[c].at = "mark"
      /\ call' = [call EXCEPT ![c] = k] /\ UNCHANGED <<relays, port, invert, gaveUp>>
  BY DEF Mark
<1>2. k.at # "transmit" /\ ~(k.kind = "reapply" /\ k.again = 1 /\ k.at = "lock")
  <2>1. CASE call[c].again > 0
    <3>1. call[c].again = 1 /\ 0 \in 0 .. 1
      BY <1>1, <2>1 DEF CallType
    <3>2. k = ReapplyCall(0)
      BY <2>1, <3>1
    <3>3. QED
      BY <3>1, <3>2, ReapplyType
  <2>2. CASE ~(call[c].again > 0)
    BY <2>2, IdleType
  <2>3. QED
    BY <2>1, <2>2
<1> HIDE DEF k
<1>3. HttpOwes' = HttpOwes
  BY <1>1, <1>2, OutputsAssumption DEF HttpOwes
<1>4. QED
  BY <1>1, <1>2, <1>3, RelayOutside

\* The save changes the settings and owes the re-apply in one step.
LEMMA RelaySaveConfig ==
    ASSUME OutputsTypeOK, RelayInv, NEW i \in Outs, SaveConfig(i)
    PROVE  RelayInv'
<1> call \in [Callers -> CallType] /\ Http \in Callers
  BY OutputsAssumption DEF OutputsTypeOK
<1>1. call'[Http] = ReapplyCall(1) /\ 1 \in 0 .. 1
  BY DEF SaveConfig
<1>2. HttpOwes' /\ call'[Http].at # "transmit"
  BY <1>1, ReapplyType DEF HttpOwes
<1>3. QED
  BY <1>2 DEF RelayInv

LEMMA RelayStep == OutputsTypeOK /\ LockInv /\ RelayInv /\ [Next]_vars => RelayInv'
<1> SUFFICES ASSUME OutputsTypeOK, LockInv, RelayInv, [Next]_vars PROVE RelayInv'
  OBVIOUS
<1> call \in [Callers -> CallType] /\ Mqtt \in Callers /\ Http \in Callers
  BY OutputsAssumption DEF OutputsTypeOK
<1>1. ASSUME NEW c \in Callers, NEW r \in Requests, Call(c, r) PROVE RelayInv'
  <2>1. r \in Masks
    BY OutputsAssumption DEF Masks
  <2>2. HttpOwes' = HttpOwes
    BY <1>1, <2>1, ModifyType DEF Call, HttpOwes
  <2>3. QED
    BY <1>1, <2>1, <2>2, RelayOutside, ModifyType DEF Call
<1>2. CASE Connect
  <2>1. 0 \in 0 .. 1
    OBVIOUS
  <2>2. HttpOwes' = HttpOwes
    BY <1>2, <2>1, ReapplyType DEF Connect, HttpOwes
  <2>3. QED
    BY <1>2, <2>1, <2>2, RelayOutside, ReapplyType DEF Connect
<1>3. ASSUME UNCHANGED <<relays, port, invert, gaveUp, call>> PROVE RelayInv'
  BY <1>3 DEF RelayInv, HttpOwes
<1>4. CASE Disconnect
  BY <1>3, <1>4 DEF Disconnect
<1>5. CASE PubStep
  BY <1>3, <1>5 DEF PubStep, PubWake, PubRead, PubSend
<1>6. CASE UNCHANGED vars
  BY <1>3, <1>6 DEF vars
<1>7. ASSUME NEW c \in Callers, CallStep(c) PROVE RelayInv'
  BY <1>7, RelayAcquire, RelayTransmitOk, RelayTransmitFails, RelayMark DEF CallStep
<1>8. CASE ReadRequest
  <2>1. 0 \in 0 .. 1
    OBVIOUS
  <2>2. HttpOwes' = HttpOwes
    BY <1>8, <2>1, ReapplyType DEF ReadRequest, HttpOwes
  <2>3. QED
    BY <1>8, <2>1, <2>2, RelayOutside, ReapplyType DEF ReadRequest
<1>9. QED
  BY <1>1, <1>2, <1>8, <1>4, <1>5, <1>6, <1>7, RelaySaveConfig DEF Next, Session

\* The expander holds what dout_get_all() answers, whatever the order of the
\* transfers, the saves and the failures, unless re-applying gave up.
THEOREM RelaysHold == Spec => []RelaysAsReported
<1>1. OutputsTypeOK /\ LockInv /\ RelayInv /\ [Next]_vars => RelayInv'
  BY RelayStep
<1>2. RelayInv => RelaysAsReported
  BY DEF RelayInv, RelaysAsReported, HttpOwes
<1>3. QED
  BY <1>1, <1>2, RelayInit, TypeCorrect, LockHolds, PTL DEF Spec

-----------------------------------------------------------------------------
(* The coils: the writes in a queue that are for one, counted.             *)

Waits(s, i) == {k \in DOMAIN s : i \in s[k].mask}

LEMMA WaitsFew ==
    ASSUME NEW s \in Seq(CoilWrites), NEW i
    PROVE  /\ IsFiniteSet(Waits(s, i)) /\ Cardinality(Waits(s, i)) \in 0 .. Len(s)
           /\ Waits(s, i) \subseteq 1 .. Len(s) /\ Len(s) \in Nat
<1>1. Len(s) \in Nat /\ DOMAIN s = 1 .. Len(s)
  BY LenProperties
<1>2. IsFiniteSet(1 .. Len(s)) /\ Cardinality(1 .. Len(s)) = Len(s)
  BY <1>1, FS_Interval
<1>3. Waits(s, i) \subseteq 1 .. Len(s)
  BY <1>1 DEF Waits
<1>4. IsFiniteSet(Waits(s, i)) /\ Cardinality(Waits(s, i)) <= Len(s)
  BY <1>2, <1>3, FS_Subset
<1>5. Cardinality(Waits(s, i)) \in Nat
  BY <1>4, FS_CardinalityType
<1>6. QED
  BY <1>1, <1>3, <1>4, <1>5

LEMMA WaitsAppend ==
    ASSUME NEW s \in Seq(CoilWrites), NEW w \in CoilWrites, NEW i
    PROVE  /\ Append(s, w) \in Seq(CoilWrites) /\ Len(Append(s, w)) = Len(s) + 1
           /\ \A k \in DOMAIN s : Append(s, w)[k] = s[k]
           /\ Append(s, w)[Len(s) + 1] = w
           /\ Waits(Append(s, w), i) = IF i \in w.mask THEN Waits(s, i) \union {Len(s) + 1} ELSE Waits(s, i)
           /\ Cardinality(Waits(Append(s, w), i)) =
                 IF i \in w.mask THEN Cardinality(Waits(s, i)) + 1 ELSE Cardinality(Waits(s, i))
<1> DEFINE t == Append(s, w)
<1>1. Len(s) \in Nat /\ DOMAIN s = 1 .. Len(s)
  BY LenProperties
<1>2. t \in Seq(CoilWrites) /\ Len(t) = Len(s) + 1 /\ t[Len(s) + 1] = w /\ \A k \in 1 .. Len(s) : t[k] = s[k]
  BY AppendProperties
<1> HIDE DEF t
<1>3. DOMAIN t = 1 .. Len(s) + 1
  BY <1>2, LenProperties
<1>4. Waits(t, i) = IF i \in w.mask THEN Waits(s, i) \union {Len(s) + 1} ELSE Waits(s, i)
  BY <1>1, <1>2, <1>3 DEF Waits
<1>5. Len(s) + 1 \notin Waits(s, i) /\ IsFiniteSet(Waits(s, i))
  BY <1>1, WaitsFew
<1>6. Cardinality(Waits(s, i) \union {Len(s) + 1}) = Cardinality(Waits(s, i)) + 1
  BY <1>5, FS_AddElement
<1>7. QED
  BY <1>1, <1>2, <1>4, <1>6 DEF t

LEMMA WaitsTail ==
    ASSUME NEW s \in Seq(CoilWrites), s # <<>>, NEW i
    PROVE  /\ Tail(s) \in Seq(CoilWrites) /\ Len(Tail(s)) = Len(s) - 1
           /\ Head(s) = s[1] /\ Head(s) \in CoilWrites
           /\ Waits(s, i) = {k + 1 : k \in Waits(Tail(s), i)} \union (IF i \in Head(s).mask THEN {1} ELSE {})
           /\ \A k \in Waits(Tail(s), i) : Tail(s)[k] = s[k + 1]
           /\ Cardinality(Waits(s, i)) =
                 Cardinality(Waits(Tail(s), i)) + IF i \in Head(s).mask THEN 1 ELSE 0
<1> DEFINE t == Tail(s)
           up == {k + 1 : k \in Waits(t, i)}
           f == [k \in Waits(t, i) |-> k + 1]
<1>1. /\ Head(s) \in CoilWrites /\ t \in Seq(CoilWrites) /\ Len(t) = Len(s) - 1
      /\ \A k \in 1 .. Len(t) : t[k] = s[k + 1]
  BY HeadTailProperties
<1>2. Head(s) = s[1]
  OBVIOUS
<1>3. Len(s) \in Nat /\ DOMAIN s = 1 .. Len(s) /\ Len(s) # 0
  BY LenProperties, EmptySeq
<1> HIDE DEF t
<1>4. DOMAIN t = 1 .. Len(s) - 1
  BY <1>1, LenProperties
<1>5. Waits(t, i) \subseteq Nat /\ IsFiniteSet(Waits(t, i))
  BY <1>1, WaitsFew
<1>6. ASSUME NEW k PROVE k \in Waits(s, i) <=> k \in up \union (IF i \in Head(s).mask THEN {1} ELSE {})
  <2>1. ASSUME k \in Waits(s, i), k # 1 PROVE k \in up
    <3>1. k - 1 \in 1 .. Len(s) - 1 /\ (k - 1) + 1 = k /\ k \in 1 .. Len(s) /\ i \in s[k].mask
      BY <2>1, <1>3 DEF Waits
    <3>2. k - 1 \in Waits(t, i)
      BY <3>1, <1>1, <1>4 DEF Waits
    <3>3. QED
      BY <3>1, <3>2
  <2>2. ASSUME k \in up PROVE k \in Waits(s, i)
    <3>1. PICK m \in Waits(t, i) : k = m + 1
      BY <2>2
    <3>2. m \in 1 .. Len(s) - 1 /\ t[m] = s[m + 1] /\ i \in t[m].mask
      BY <3>1, <1>1, <1>4 DEF Waits
    <3>3. QED
      BY <3>1, <3>2, <1>3 DEF Waits
  <2>3. 1 \in Waits(s, i) <=> i \in Head(s).mask
    BY <1>2, <1>3 DEF Waits
  <2>4. QED
    BY <2>1, <2>2, <2>3
<1>7. f \in Bijection(Waits(t, i), up)
  <2>1. f \in [Waits(t, i) -> up]
    OBVIOUS
  <2>2. \A a, b \in Waits(t, i) : f[a] = f[b] => a = b
    BY <1>5
  <2>3. \A u \in up : \E a \in Waits(t, i) : f[a] = u
    OBVIOUS
  <2> HIDE DEF f, up
  <2>4. QED
    BY <2>1, <2>2, <2>3 DEF Bijection, Injection, IsInjective, Surjection
<1>8. IsFiniteSet(up) /\ Cardinality(up) = Cardinality(Waits(t, i))
  BY <1>5, <1>7, FS_Bijection DEF ExistsBijection
<1>9. 1 \notin up /\ Cardinality(Waits(t, i)) \in Nat
  BY <1>4, <1>5, FS_CardinalityType DEF Waits
<1>10. Cardinality(up \union {1}) = Cardinality(up) + 1
  BY <1>8, <1>9, FS_AddElement
<1>11. Waits(s, i) = up \union (IF i \in Head(s).mask THEN {1} ELSE {})
  BY <1>6
<1> HIDE DEF up
<1>12. Cardinality(Waits(s, i)) = Cardinality(Waits(t, i)) + IF i \in Head(s).mask THEN 1 ELSE 0
  <2>1. CASE i \in Head(s).mask
    BY <2>1, <1>8, <1>10, <1>11
  <2>2. CASE i \notin Head(s).mask
    <3>1. Waits(s, i) = up
      BY <2>2, <1>11
    <3>2. QED
      BY <2>2, <3>1, <1>8, <1>9
  <2>3. QED
    BY <2>1, <2>2
<1>13. \A k \in Waits(t, i) : t[k] = s[k + 1]
  BY <1>1, <1>4 DEF Waits
<1>14. QED
  BY <1>1, <1>2, <1>11, <1>12, <1>13 DEF t, up

-----------------------------------------------------------------------------
(* The invariant.                                                          *)

\* The command task is carrying out a write for coil i.
Runs(i) == running # Nobody /\ i \in running.mask

\* What the variables hold; the bounds of pending follow from CoilCounts.
CoilTypes ==
    /\ OutputsTypeOK
    /\ cmdQ \in Seq(CoilWrites) /\ Len(cmdQ) <= CmdDepth
    /\ running \in CoilWrites \union {Nobody}
    /\ shadow \in SUBSET Outs /\ live \in SUBSET Outs
    /\ pending \in [Outs -> Nat]
    /\ cmdMux \in Clients \union {Nobody}
    /\ writes \in 0 .. MaxWrites
    /\ acked \in [Outs -> {"none", "on", "off"}] /\ spoiled \in SUBSET Outs

\* Whose calls are under way: the command task's is the write it runs, and what the
\* others ask for is spoiled.
CoilCalls ==
    /\ \A c \in Callers : call[c].kind = "modify" /\ call[c].again = 0
    /\ running = Nobody => call[Cmd].at = "idle"
    /\ running # Nobody /\ call[Cmd].at \in {"lock", "transmit"} => call[Cmd].req = CoilRequest(running)
    /\ \A c \in Callers \ {Cmd} : call[c].at \in {"lock", "transmit"} =>
          call[c].req.set \union call[c].req.clear \union call[c].req.toggle \subseteq spoiled

\* s_do_pending counts the writes queued and the one that runs.
CoilCounts ==
    \A i \in Outs : pending[i] = Cardinality(Waits(cmdQ, i)) + IF Runs(i) THEN 1 ELSE 0

\* Coil i is owed the value last acknowledged: by the last write in the queue that is
\* for it, without one by the write that runs and then by the relay.
On(i) == acked[i] = "on"
LastQueued(i, k) == k \in Waits(cmdQ, i) /\ \A m \in Waits(cmdQ, i) : m <= k
CoilOwed(i) ==
    /\ i \in shadow <=> On(i)
    /\ \A k \in DOMAIN cmdQ : LastQueued(i, k) => (i \in cmdQ[k].bits <=> On(i))
    /\ Waits(cmdQ, i) = {} /\ Runs(i) => (i \in running.bits <=> On(i))
    /\ Waits(cmdQ, i) = {} /\ ~Runs(i) => (i \in port <=> On(i))
    /\ cmdMux # Nobody /\ Waits(cmdQ, i) = {} /\ ~Runs(i) => (i \in live <=> On(i))
CoilOrder == \A i \in Outs \ spoiled : acked[i] # "none" => CoilOwed(i)

\* The relay of the write that runs, once dout_modify() has done it.
CoilRan ==
    \A i \in Outs \ spoiled :
        Runs(i) /\ call[Cmd].at \in {"mark", "idle"} => (i \in port <=> i \in running.bits)

CoilIInv == CoilTypes /\ LockInv /\ CoilCalls /\ CoilCounts /\ CoilOrder /\ CoilRan

LEMMA PendingNone ==
    ASSUME CoilTypes, CoilCounts, NEW i \in Outs
    PROVE  pending[i] = 0 <=> (Waits(cmdQ, i) = {} /\ ~Runs(i))
<1>1. IsFiniteSet(Waits(cmdQ, i)) /\ Cardinality(Waits(cmdQ, i)) \in Nat
  BY WaitsFew DEF CoilTypes
<1>2. Cardinality(Waits(cmdQ, i)) = 0 <=> Waits(cmdQ, i) = {}
  BY <1>1, FS_EmptySet
<1>3. QED
  BY <1>1, <1>2 DEF CoilCounts

LEMMA CoilInvFollows == CoilIInv => CoilInv
<1> SUFFICES ASSUME CoilIInv PROVE CoilInv
  OBVIOUS
<1> USE DEF CoilIInv
<1>1. TypeOK
  <2>1. ASSUME NEW i \in Outs PROVE pending[i] \in 0 .. CmdDepth + 1
    <3>1. Cardinality(Waits(cmdQ, i)) \in 0 .. Len(cmdQ) /\ Len(cmdQ) \in Nat
      BY WaitsFew DEF CoilTypes
    <3>2. Cardinality(Waits(cmdQ, i)) \in 0 .. CmdDepth
      BY <3>1, ModbusCoilsAssumption DEF CoilTypes
    <3>3. QED
      BY <3>2, ModbusCoilsAssumption DEF CoilCounts
  <2>2. pending \in [Outs -> 0 .. CmdDepth + 1]
    BY <2>1 DEF CoilTypes
  <2>3. QED
    BY <2>2 DEF CoilTypes, TypeOK
<1>2. ReadsOwnWrite
  <2>1. SUFFICES ASSUME cmdMux # Nobody, NEW i \in Outs \ spoiled, acked[i] # "none"
                 PROVE  Answer(i) <=> acked[i] = "on"
    BY DEF ReadsOwnWrite, Answer
  <2>2. CoilOwed(i)
    BY <2>1 DEF CoilOrder
  <2>3. CASE pending[i] > 0
    BY <2>2, <2>3 DEF CoilOwed, Answer, On
  <2>4. CASE pending[i] = 0
    <3>1. Waits(cmdQ, i) = {} /\ ~Runs(i)
      BY <2>4, PendingNone
    <3>2. QED
      BY <2>1, <2>2, <2>4, <3>1 DEF CoilOwed, Answer, On
  <2>5. QED
    BY <2>3, <2>4 DEF CoilTypes
<1>3. CoilsSettle
  <2>1. SUFFICES ASSUME NEW i \in Outs \ spoiled, acked[i] # "none", pending[i] = 0
                 PROVE  i \in port <=> acked[i] = "on"
    BY DEF CoilsSettle
  <2>2. CoilOwed(i) /\ Waits(cmdQ, i) = {} /\ ~Runs(i)
    BY <2>1, PendingNone DEF CoilOrder
  <2>3. QED
    BY <2>2 DEF CoilOwed, On
<1>4. QED
  BY <1>1, <1>2, <1>3 DEF CoilInv

-----------------------------------------------------------------------------
(* A write is queued, read back and taken.                                 *)

LEMMA CoilsAtRest ==
    ASSUME CoilIInv, UNCHANGED vars
    PROVE  OutputsTypeOK' /\ LockInv'
  BY DEF CoilIInv, CoilTypes, OutputsTypeOK, LockInv, vars

LEMMA WriteKeeps == ASSUME CoilIInv, NEW w \in CoilWrites, WriteCoils(w) PROVE CoilIInv'
<1>1. /\ cmdMux = Nobody /\ UNCHANGED <<running, cmdMux, live, spoiled, call, port>> /\ UNCHANGED vars
      /\ writes' \in 0 .. MaxWrites
  BY ModbusCoilsAssumption DEF WriteCoils, vars, CoilIInv, CoilTypes
<1>2. OutputsTypeOK' /\ LockInv' /\ CoilCalls' /\ CoilRan'
  BY <1>1, CoilsAtRest DEF CoilIInv, CoilCalls, CoilRan, Runs
<1>3. CASE QueueFull
  <2>1. UNCHANGED <<cmdQ, shadow, pending, acked>>
    BY <1>3 DEF WriteCoils
  <2>2. QED
    BY <1>1, <1>2, <2>1 DEF CoilIInv, CoilTypes, CoilCounts, CoilOrder, CoilOwed, LastQueued, Runs, On
<1>4. CASE ~QueueFull
  <2>1. /\ cmdQ' = Append(cmdQ, w)
        /\ shadow' = (shadow \ w.mask) \union (w.bits \intersect w.mask)
        /\ pending' = [i \in Outs |-> IF i \in w.mask THEN pending[i] + 1 ELSE pending[i]]
        /\ acked' = [i \in Outs |-> IF i \notin w.mask THEN acked[i]
                                    ELSE IF i \in w.bits THEN "on" ELSE "off"]
    BY <1>4 DEF WriteCoils, Counted
  <2>2. w.mask \in SUBSET Outs /\ w.bits \in SUBSET Outs
    BY ModbusCoilsAssumption
  <2>3. cmdQ \in Seq(CoilWrites) /\ Len(cmdQ) \in Nat /\ DOMAIN cmdQ = 1 .. Len(cmdQ)
    BY LenProperties DEF CoilIInv, CoilTypes
  <2>4. /\ cmdQ' \in Seq(CoilWrites) /\ Len(cmdQ') = Len(cmdQ) + 1 /\ cmdQ'[Len(cmdQ) + 1] = w
        /\ \A k \in DOMAIN cmdQ : cmdQ'[k] = cmdQ[k]
    BY <2>1, <2>3, WaitsAppend
  <2>5. DOMAIN cmdQ' = 1 .. Len(cmdQ) + 1
    BY <2>4, LenProperties
  <2>6. ASSUME NEW i
        PROVE  /\ Waits(cmdQ', i) = IF i \in w.mask THEN Waits(cmdQ, i) \union {Len(cmdQ) + 1} ELSE Waits(cmdQ, i)
               /\ Cardinality(Waits(cmdQ', i)) =
                     IF i \in w.mask THEN Cardinality(Waits(cmdQ, i)) + 1 ELSE Cardinality(Waits(cmdQ, i))
               /\ Waits(cmdQ, i) \subseteq 1 .. Len(cmdQ) /\ Cardinality(Waits(cmdQ, i)) \in Nat
    BY <2>1, <2>3, WaitsAppend, WaitsFew
  <2>7. CoilTypes'
    <3>1. Len(cmdQ') <= CmdDepth
      BY <1>4, <2>3, <2>4, ModbusCoilsAssumption DEF QueueFull
    <3>2. QED
      BY <1>1, <1>2, <2>1, <2>2, <2>4, <3>1 DEF CoilIInv, CoilTypes
  <2>8. CoilCounts'
    <3>1. ASSUME NEW i \in Outs
          PROVE  pending'[i] = Cardinality(Waits(cmdQ', i)) + IF Runs(i)' THEN 1 ELSE 0
      <4>1. pending[i] = Cardinality(Waits(cmdQ, i)) + IF Runs(i) THEN 1 ELSE 0
        BY DEF CoilIInv, CoilCounts
      <4>2. Runs(i)' <=> Runs(i)
        BY <1>1 DEF Runs
      <4>3. QED
        BY <2>1, <2>6, <4>1, <4>2
    <3>2. QED
      BY <3>1 DEF CoilCounts
  <2>9. CoilOrder'
    <3>1. SUFFICES ASSUME NEW i \in Outs \ spoiled, acked'[i] # "none" PROVE CoilOwed(i)'
      BY <1>1 DEF CoilOrder
    <3>2. Runs(i)' <=> Runs(i)
      BY <1>1 DEF Runs
    <3>3. CASE i \notin w.mask
      <4>1. acked'[i] = acked[i] /\ CoilOwed(i) /\ (i \in shadow' <=> i \in shadow)
        BY <2>1, <3>1, <3>3 DEF CoilIInv, CoilOrder
      <4>2. Waits(cmdQ', i) = Waits(cmdQ, i)
        BY <2>6, <3>3
      <4>3. \A k \in DOMAIN cmdQ' : LastQueued(i, k)' => LastQueued(i, k) /\ k \in DOMAIN cmdQ /\ cmdQ'[k] = cmdQ[k]
        BY <2>3, <2>4, <2>6, <4>2 DEF LastQueued
      <4>4. QED
        BY <1>1, <3>2, <4>1, <4>2, <4>3 DEF CoilOwed, On
    <3>4. CASE i \in w.mask
      <4>1. Waits(cmdQ', i) # {} /\ \A k \in DOMAIN cmdQ' : LastQueued(i, k)' => k = Len(cmdQ) + 1
        BY <2>3, <2>5, <2>6, <3>4 DEF LastQueued
      <4>2. acked'[i] = IF i \in w.bits THEN "on" ELSE "off"
        BY <2>1, <3>4
      <4>3. i \in shadow' <=> i \in w.bits
        BY <2>1, <3>4
      <4>4. QED
        BY <1>1, <2>4, <3>2, <4>1, <4>2, <4>3 DEF CoilOwed, On
    <3>5. QED
      BY <3>3, <3>4
  <2>10. QED
    BY <1>2, <2>7, <2>8, <2>9 DEF CoilIInv
<1>5. QED
  BY <1>3, <1>4

\* The reads and what leaves the coils and the driver alone
LEMMA ReadKeeps ==
    ASSUME CoilIInv, NEW cl \in Clients, ReadBegin(cl) \/ ReadEnd(cl)
    PROVE  CoilIInv'
<1>1. UNCHANGED vars /\ UNCHANGED <<call, port, cmdQ, running, shadow, pending, writes, acked, spoiled>>
  BY DEF ReadBegin, ReadEnd, vars
<1>2. OutputsTypeOK' /\ LockInv' /\ CoilCalls' /\ CoilRan' /\ CoilCounts'
  BY <1>1, CoilsAtRest DEF CoilIInv, CoilCalls, CoilRan, CoilCounts, Runs
<1>3. (cmdMux' = cl /\ live' = port) \/ (cmdMux' = Nobody /\ live' = {})
  BY DEF ReadBegin, ReadEnd
<1>4. port \in SUBSET Outs
  BY DEF CoilIInv, CoilTypes, OutputsTypeOK
<1>5. CoilTypes'
  BY <1>1, <1>2, <1>3, <1>4 DEF CoilIInv, CoilTypes
<1>6. CoilOrder'
  BY <1>1, <1>3 DEF CoilIInv, CoilOrder, CoilOwed, LastQueued, Runs, On
<1>7. QED
  BY <1>2, <1>5, <1>6 DEF CoilIInv

\* What dout_modify() is asked by the command task is a request of its.
LEMMA CoilRequestType ==
    ASSUME NEW w \in CoilWrites
    PROVE  CoilRequest(w) \in Masks /\ CoilRequest(w) \in Requests
  BY ModbusCoilsAssumption, OutputsAssumption DEF Masks

LEMMA TakeKeeps == ASSUME CoilIInv, TakeCommand PROVE CoilIInv'
<1> DEFINE w == Head(cmdQ)
<1>1. cmdQ \in Seq(CoilWrites) /\ cmdQ # <<>> /\ Cmd \in Callers /\ Len(cmdQ) \in Nat
  BY ModbusCoilsAssumption, LenProperties DEF TakeCommand, CoilIInv, CoilTypes
<1>2. /\ w \in CoilWrites /\ w = cmdQ[1] /\ Tail(cmdQ) \in Seq(CoilWrites)
      /\ Len(Tail(cmdQ)) = Len(cmdQ) - 1
  BY <1>1, WaitsTail
<1>3. ASSUME NEW i
      PROVE  /\ Waits(cmdQ, i) = {k + 1 : k \in Waits(Tail(cmdQ), i)} \union (IF i \in w.mask THEN {1} ELSE {})
             /\ \A k \in Waits(Tail(cmdQ), i) : Tail(cmdQ)[k] = cmdQ[k + 1]
             /\ Cardinality(Waits(cmdQ, i)) =
                   Cardinality(Waits(Tail(cmdQ), i)) + IF i \in w.mask THEN 1 ELSE 0
             /\ Cardinality(Waits(Tail(cmdQ), i)) \in Nat /\ Waits(Tail(cmdQ), i) \subseteq Nat
  <2>1. Waits(Tail(cmdQ), i) \subseteq 1 .. Len(Tail(cmdQ)) /\ Cardinality(Waits(Tail(cmdQ), i)) \in 0 .. Len(Tail(cmdQ))
    BY <1>2, WaitsFew
  <2>2. Waits(Tail(cmdQ), i) \subseteq Nat /\ Cardinality(Waits(Tail(cmdQ), i)) \in Nat
    BY <1>1, <1>2, <2>1
  <2>3. QED
    BY <1>1, <2>2, WaitsTail
<1>4. /\ running = Nobody /\ call[Cmd].at = "idle" /\ running' = w /\ cmdQ' = Tail(cmdQ)
      /\ call' = [call EXCEPT ![Cmd] = ModifyCall(CoilRequest(w))]
      /\ UNCHANGED <<state, port, relays, invert, lock, dirty, notified, pub, connected,
                     published, gaveUp, used>>
      /\ UNCHANGED <<shadow, pending, cmdMux, live, writes, acked, spoiled>>
  BY DEF TakeCommand
<1> HIDE DEF w
<1>5. w # Nobody
  BY <1>2, ModbusCoilsAssumption
<1>6. CoilRequest(w) \in Masks /\ CoilRequest(w) \in Requests
  BY <1>2, CoilRequestType
<1>7. /\ ModifyCall(CoilRequest(w)) \in CallType /\ ModifyCall(CoilRequest(w)).kind = "modify"
      /\ ModifyCall(CoilRequest(w)).at = "lock" /\ ModifyCall(CoilRequest(w)).req = CoilRequest(w)
      /\ ModifyCall(CoilRequest(w)).again = 0
  BY <1>6, ModifyType
<1>8. OutputsTypeOK /\ LockInv
  BY DEF CoilIInv, CoilTypes
<1>9. OutputsTypeOK'
  <2>1. CallsTyped'
    BY <1>1, <1>4, <1>7, <1>8, CallsFrom
  <2>2. QED
    BY <1>4, <1>8, <2>1 DEF OutputsTypeOK, CallsTyped
<1>10. LockInv'
  BY <1>1, <1>4, <1>6, <1>7, <1>8, LockOutside
<1>11. /\ call'[Cmd] = ModifyCall(CoilRequest(w)) /\ \A c \in Callers \ {Cmd} : call'[c] = call[c]
  BY <1>1, <1>4, <1>8 DEF OutputsTypeOK
<1>12. CoilCalls'
  BY <1>1, <1>4, <1>5, <1>7, <1>11 DEF CoilCalls, CoilIInv
<1>13. CoilTypes'
  <2>1. Len(cmdQ') <= CmdDepth
    BY <1>1, <1>2, <1>4, ModbusCoilsAssumption DEF CoilTypes, CoilIInv
  <2>2. QED
    BY <1>2, <1>4, <1>9, <2>1 DEF CoilTypes, CoilIInv
<1>14. ASSUME NEW i PROVE ~Runs(i) /\ (Runs(i)' <=> i \in w.mask)
  BY <1>4, <1>5 DEF Runs
<1>15. CoilCounts'
  <2>1. ASSUME NEW i \in Outs
        PROVE  pending'[i] = Cardinality(Waits(cmdQ', i)) + IF Runs(i)' THEN 1 ELSE 0
    <3>1. pending[i] = Cardinality(Waits(cmdQ, i)) + 0
      BY <1>14 DEF CoilIInv, CoilCounts
    <3>2. QED
      BY <1>3, <1>4, <1>14, <3>1
  <2>2. QED
    BY <2>1 DEF CoilCounts
<1>16. CoilRan'
  BY <1>7, <1>11 DEF CoilRan
<1>17. CoilOrder'
  <2>1. SUFFICES ASSUME NEW i \in Outs \ spoiled, acked[i] # "none" PROVE CoilOwed(i)'
    BY <1>4 DEF CoilOrder
  <2>2. CoilOwed(i)
    BY <2>1 DEF CoilIInv, CoilOrder
  <2>3. ASSUME NEW k \in DOMAIN cmdQ', LastQueued(i, k)' PROVE i \in cmdQ'[k].bits <=> On(i)
    <3>1. k \in Waits(Tail(cmdQ), i) /\ \A m \in Waits(Tail(cmdQ), i) : m <= k
      BY <1>4, <2>3 DEF LastQueued
    <3>2. k + 1 \in Waits(cmdQ, i) /\ k \in Nat
      BY <1>3, <3>1
    <3>3. \A m \in Waits(cmdQ, i) : m <= k + 1
      BY <1>3, <3>1, <3>2
    <3>4. k + 1 \in DOMAIN cmdQ /\ LastQueued(i, k + 1)
      BY <3>2, <3>3 DEF LastQueued, Waits
    <3>5. cmdQ'[k] = cmdQ[k + 1]
      BY <1>3, <1>4, <3>1
    <3>6. QED
      BY <2>2, <3>4, <3>5 DEF CoilOwed
  <2>4. ASSUME Waits(cmdQ', i) = {}, i \in w.mask PROVE i \in w.bits <=> On(i)
    <3>1. Waits(cmdQ, i) = {1}
      BY <1>3, <1>4, <2>4
    <3>2. 1 \in DOMAIN cmdQ /\ LastQueued(i, 1)
      BY <3>1 DEF LastQueued, Waits
    <3>3. QED
      BY <1>2, <2>2, <3>2 DEF CoilOwed
  <2>5. ASSUME Waits(cmdQ', i) = {}, i \notin w.mask PROVE Waits(cmdQ, i) = {}
    BY <1>3, <1>4, <2>5
  <2>6. QED
    BY <1>4, <1>14, <2>2, <2>3, <2>4, <2>5 DEF CoilOwed, On
<1>18. QED
  BY <1>10, <1>12, <1>13, <1>15, <1>16, <1>17 DEF CoilIInv

\* The write that ran is counted down, and a coil no write waits for shows its relay.
LEMMA FinishKeeps == ASSUME CoilIInv, FinishCommand PROVE CoilIInv'
<1>1. /\ running # Nobody /\ call[Cmd].at = "idle" /\ cmdMux = Nobody /\ running' = Nobody
      /\ UNCHANGED vars /\ UNCHANGED <<call, port, cmdQ, cmdMux, live, writes, acked, spoiled>>
  BY DEF FinishCommand, vars
<1> DEFINE left == [i \in Outs |-> IF i \in running.mask /\ pending[i] > 0 THEN pending[i] - 1 ELSE pending[i]]
           synced == {i \in running.mask : left[i] = 0}
<1>2. pending' = left /\ shadow' = (shadow \ synced) \union (port \intersect synced)
  BY DEF FinishCommand, Waiting
<1>3. running \in CoilWrites /\ running.mask \in SUBSET Outs /\ \A i : Runs(i) <=> i \in running.mask
  BY <1>1, ModbusCoilsAssumption DEF CoilIInv, CoilTypes, Runs
<1>4. ASSUME NEW i \in Outs
      PROVE  /\ left[i] = Cardinality(Waits(cmdQ, i)) /\ left[i] \in Nat
             /\ left[i] = 0 <=> Waits(cmdQ, i) = {}
  <2>1. Cardinality(Waits(cmdQ, i)) \in Nat /\ (Cardinality(Waits(cmdQ, i)) = 0 <=> Waits(cmdQ, i) = {})
    <3>1. IsFiniteSet(Waits(cmdQ, i))
      BY WaitsFew DEF CoilIInv, CoilTypes
    <3>2. QED
      BY <3>1, FS_CardinalityType, FS_EmptySet
  <2>2. pending[i] = Cardinality(Waits(cmdQ, i)) + IF i \in running.mask THEN 1 ELSE 0
    BY <1>3 DEF CoilIInv, CoilCounts
  <2>3. left[i] = Cardinality(Waits(cmdQ, i))
    BY <2>1, <2>2
  <2>4. QED
    BY <2>1, <2>3
<1>5. left \in [Outs -> Nat]
  <2>1. left \in [Outs -> {left[i] : i \in Outs}]
    OBVIOUS
  <2> HIDE DEF left
  <2>2. QED
    BY <1>4, <2>1
<1>6. \A i \in Outs : i \in synced <=> i \in running.mask /\ Waits(cmdQ, i) = {}
  BY <1>3, <1>4
<1> HIDE DEF left, synced
<1>7. OutputsTypeOK' /\ LockInv'
  BY <1>1, CoilsAtRest
<1>8. CoilTypes'
  <2>1. port \in SUBSET Outs
    BY DEF CoilIInv, CoilTypes, OutputsTypeOK
  <2>2. QED
    BY <1>1, <1>2, <1>5, <1>7, <2>1 DEF CoilIInv, CoilTypes
<1>9. CoilCalls' /\ CoilRan'
  BY <1>1 DEF CoilIInv, CoilCalls, CoilRan, Runs
<1>10. \A i : ~Runs(i)'
  BY <1>1 DEF Runs
<1>11. CoilCounts'
  <2>1. ASSUME NEW i \in Outs
        PROVE  pending'[i] = Cardinality(Waits(cmdQ', i)) + IF Runs(i)' THEN 1 ELSE 0
    BY <1>1, <1>2, <1>4, <1>10
  <2>2. QED
    BY <2>1 DEF CoilCounts
<1>12. CoilOrder'
  <2>1. SUFFICES ASSUME NEW i \in Outs \ spoiled, acked[i] # "none" PROVE CoilOwed(i)'
    BY <1>1 DEF CoilOrder
  <2>2. CoilOwed(i)
    BY <2>1 DEF CoilIInv, CoilOrder
  <2>3. \A k : LastQueued(i, k)' <=> LastQueued(i, k)
    BY <1>1 DEF LastQueued
  <2>4. CASE i \in running.mask /\ Waits(cmdQ, i) = {}
    <3>1. (i \in port <=> i \in running.bits) /\ (i \in running.bits <=> On(i))
      BY <1>1, <1>3, <2>2, <2>4 DEF CoilIInv, CoilRan, CoilOwed
    <3>2. i \in shadow' <=> i \in port
      BY <1>2, <1>6, <2>4
    <3>3. QED
      BY <1>1, <1>10, <2>2, <2>3, <2>4, <3>1, <3>2 DEF CoilOwed, On
  <2>5. CASE ~(i \in running.mask /\ Waits(cmdQ, i) = {})
    <3>1. i \in shadow' <=> i \in shadow
      BY <1>2, <1>6, <2>5
    <3>2. Waits(cmdQ, i) = {} => ~Runs(i)
      BY <1>3, <2>5
    <3>3. QED
      BY <1>1, <1>10, <2>2, <2>3, <3>1, <3>2 DEF CoilOwed, On
  <2>6. QED
    BY <2>4, <2>5
<1>13. QED
  BY <1>7, <1>8, <1>9, <1>11, <1>12 DEF CoilIInv

-----------------------------------------------------------------------------
(* The driver's steps, in the command task and in others.                  *)

CoilTask == <<cmdQ, running, shadow, pending, cmdMux, live, writes, acked>>

\* A relay moves as the write that runs says, or is spoiled.
LEMMA DriverKeeps ==
    ASSUME CoilIInv, OutputsTypeOK', LockInv', CoilCalls', UNCHANGED CoilTask,
           spoiled \subseteq spoiled', spoiled' \in SUBSET Outs,
           \A i \in Outs \ spoiled' :
              /\ ~Runs(i) => (i \in port' <=> i \in port)
              /\ Runs(i) /\ call'[Cmd].at \in {"mark", "idle"} => (i \in port' <=> i \in running.bits)
    PROVE  CoilIInv'
<1>1. UNCHANGED <<cmdQ, running, shadow, pending, cmdMux, live, writes, acked>>
  BY DEF CoilTask
<1>2. CoilTypes' /\ CoilCounts'
  BY <1>1 DEF CoilIInv, CoilTypes, CoilCounts, Runs
<1>3. CoilRan'
  BY <1>1 DEF CoilRan, Runs
<1>4. CoilOrder'
  <2>1. SUFFICES ASSUME NEW i \in Outs \ spoiled', acked[i] # "none" PROVE CoilOwed(i)'
    BY <1>1 DEF CoilOrder
  <2>2. CoilOwed(i) /\ (~Runs(i) => (i \in port' <=> i \in port))
    BY <2>1 DEF CoilIInv, CoilOrder
  <2>3. QED
    BY <1>1, <2>2 DEF CoilOwed, LastQueued, Runs, On
<1>5. QED
  BY <1>2, <1>3, <1>4 DEF CoilIInv

\* No call here is repeated and none is of dout_publish_all(): one task moves on.
LEMMA CallMoves ==
    ASSUME CoilIInv, NEW c \in Callers, CallStep(c)
    PROVE  /\ call[c].at # "idle" /\ \A d \in Callers \ {c} : call'[d] = call[d]
           /\ call'[c].kind = "modify" /\ call'[c].again = 0
           /\ call'[c].at \in {"lock", "transmit"} => call[c].at = "lock" /\ call'[c].req = call[c].req
<1>1. call \in [Callers -> CallType] /\ call[c] \in CallType /\ call[c].kind = "modify" /\ call[c].again = 0
  BY DEF CoilIInv, CoilTypes, CoilCalls, OutputsTypeOK
<1>2. CASE Acquire(c)
  BY <1>1, <1>2 DEF Acquire, CallType
<1>3. CASE TransmitOk(c)
  BY <1>1, <1>3 DEF TransmitOk, CallType
<1>4. CASE TransmitFails(c)
  BY <1>1, <1>4 DEF TransmitFails, TriesAgain, CallType
<1>5. CASE Mark(c)
  <2>1. call' = [call EXCEPT ![c] = IdleCall] /\ call[c].at = "mark"
    BY <1>1, <1>5 DEF Mark
  <2>2. QED
    BY <1>1, <2>1, IdleType
<1>6. QED
  BY <1>2, <1>3, <1>4, <1>5 DEF CallStep

\* What a driver's step does to the relays: a transfer carries out its request.
LEMMA RelaysMove ==
    ASSUME CoilIInv, NEW c \in Callers, CallStep(c)
    PROVE  \/ port' = port /\ ~TransmitOk(c)
           \/ TransmitOk(c) /\ call[c].at = "transmit" /\ port' = Change(port, call[c].req)
<1>1. call \in [Callers -> CallType] /\ call[c].kind = "modify"
  BY DEF CoilIInv, CoilTypes, CoilCalls, OutputsTypeOK
<1>2. CASE TransmitOk(c)
  BY <1>1, <1>2 DEF TransmitOk, CoilIInv, LockInv
<1>3. CASE ~TransmitOk(c)
  BY <1>3 DEF CallStep, Acquire, TransmitFails, Mark
<1>4. QED
  BY <1>2, <1>3

LEMMA StepTyped ==
    ASSUME CoilIInv, NEW c \in Callers, CallStep(c)
    PROVE  OutputsTypeOK' /\ LockInv'
<1>1. OutputsTypeOK /\ LockInv /\ [Next]_vars
  BY DEF CoilIInv, CoilTypes, Next
<1>2. QED
  BY <1>1, TypeStep, LockStep

LEMMA OtherKeeps == ASSUME CoilIInv, NEW c \in Callers \ {Cmd}, OtherStep(c) PROVE CoilIInv'
<1>1. CallStep(c) /\ UNCHANGED CoilTask /\ spoiled' = spoiled /\ c \in Callers /\ Cmd \in Callers
  BY ModbusCoilsAssumption DEF OtherStep, coilVars, CoilTask
<1>2. CoilCalls'
  BY <1>1, CallMoves DEF CoilIInv, CoilCalls, CoilTask
<1>3. ASSUME NEW i \in Outs \ spoiled PROVE i \in port' <=> i \in port
  <2>1. CASE port' = port
    BY <2>1
  <2>2. CASE call[c].at = "transmit" /\ port' = Change(port, call[c].req)
    <3>1. i \notin call[c].req.set \union call[c].req.clear \union call[c].req.toggle
      BY <1>3, <2>2 DEF CoilIInv, CoilCalls
    <3>2. QED
      BY <2>2, <3>1 DEF Change, Flip
  <2>3. QED
    BY <1>1, <2>1, <2>2, RelaysMove
<1>4. call'[Cmd] = call[Cmd]
  BY <1>1, CallMoves
<1>5. \A i \in Outs \ spoiled : Runs(i) /\ call'[Cmd].at \in {"mark", "idle"} => (i \in port' <=> i \in running.bits)
  BY <1>3, <1>4 DEF CoilIInv, CoilRan
<1>6. QED
  BY <1>1, <1>2, <1>3, <1>5, StepTyped, DriverKeeps DEF CoilIInv, CoilTypes

LEMMA CmdKeeps == ASSUME CoilIInv, CmdStep PROVE CoilIInv'
<1>1. CallStep(Cmd) /\ UNCHANGED CoilTask /\ Cmd \in Callers
  BY ModbusCoilsAssumption DEF CmdStep, CoilTask
<1>2. spoiled' = IF used'.fails > used.fails THEN spoiled \union running.mask ELSE spoiled
  BY DEF CmdStep
<1>3. running # Nobody /\ running \in CoilWrites /\ running.mask \in SUBSET Outs
  BY <1>1, CallMoves, ModbusCoilsAssumption DEF CoilIInv, CoilTypes, CoilCalls
<1>4. spoiled \subseteq spoiled' /\ spoiled' \in SUBSET Outs
  BY <1>2, <1>3 DEF CoilIInv, CoilTypes
<1>5. CoilCalls'
  BY <1>1, <1>3, <1>4, CallMoves DEF CoilIInv, CoilCalls, CoilTask
<1>6. ASSUME NEW i \in Outs \ spoiled'
      PROVE  /\ ~Runs(i) => (i \in port' <=> i \in port)
             /\ Runs(i) /\ call'[Cmd].at \in {"mark", "idle"} => (i \in port' <=> i \in running.bits)
  <2>1. CASE TransmitOk(Cmd)
    <3>1. port' = Change(port, CoilRequest(running))
      BY <1>1, <1>3, <2>1, RelaysMove DEF CoilIInv, CoilCalls
    <3>2. QED
      BY <1>3, <3>1 DEF Change, Flip, CoilRequest, Runs
  <2>2. CASE TransmitFails(Cmd)
    <3>1. used'.fails > used.fails
      BY <2>2, OutputsAssumption DEF TransmitFails, CoilIInv, CoilTypes, OutputsTypeOK
    <3>2. ~Runs(i) /\ port' = port
      BY <1>2, <2>2, <3>1 DEF Runs, TransmitFails
    <3>3. QED
      BY <3>2
  <2>3. CASE Acquire(Cmd)
    <3>1. port' = port /\ call'[Cmd].at = "transmit"
      BY <1>1, <2>3 DEF Acquire, CoilIInv, CoilTypes, OutputsTypeOK, CallType
    <3>2. QED
      BY <3>1
  <2>4. CASE Mark(Cmd)
    <3>1. port' = port /\ call[Cmd].at = "mark"
      BY <2>4 DEF Mark
    <3>2. i \in Outs \ spoiled
      BY <1>4, <1>6
    <3>3. QED
      BY <3>1, <3>2 DEF CoilIInv, CoilRan
  <2>5. QED
    BY <1>1, <2>1, <2>2, <2>3, <2>4 DEF CallStep
<1>7. QED
  BY <1>1, <1>4, <1>5, <1>6, StepTyped, DriverKeeps

LEMMA CallsKeep == ASSUME CoilIInv, OtherCalls PROVE CoilIInv'
<1>1. PICK c \in Callers \ {Cmd}, r \in Requests :
         Call(c, r) /\ spoiled' = spoiled \union r.set \union r.clear \union r.toggle
  BY DEF OtherCalls
<1>2. UNCHANGED CoilTask /\ Cmd \in Callers
  BY ModbusCoilsAssumption DEF OtherCalls, CoilTask
<1>3. r \in Masks
  BY OutputsAssumption DEF Masks
<1>4. spoiled \subseteq spoiled' /\ spoiled' \in SUBSET Outs
  BY <1>1, <1>3 DEF Masks, CoilIInv, CoilTypes
<1>5. OutputsTypeOK' /\ LockInv'
  <2>1. OutputsTypeOK /\ LockInv /\ [Next]_vars
    BY <1>1 DEF CoilIInv, CoilTypes, Next
  <2>2. QED
    BY <2>1, TypeStep, LockStep
<1>6. port' = port /\ call' = [call EXCEPT ![c] = ModifyCall(r)]
  BY <1>1 DEF Call
<1>7. /\ call'[c] = ModifyCall(r) /\ \A d \in Callers \ {c} : call'[d] = call[d]
      /\ ModifyCall(r).kind = "modify" /\ ModifyCall(r).again = 0 /\ ModifyCall(r).req = r
  <2>1. call \in [Callers -> CallType]
    BY DEF CoilIInv, CoilTypes, OutputsTypeOK
  <2>2. QED
    BY <1>3, <1>6, <2>1, ModifyType
<1>8. CoilCalls'
  BY <1>1, <1>2, <1>4, <1>7 DEF CoilIInv, CoilCalls, CoilTask
<1>9. \A i \in Outs \ spoiled' :
         Runs(i) /\ call'[Cmd].at \in {"mark", "idle"} => (i \in port' <=> i \in running.bits)
  BY <1>2, <1>4, <1>6, <1>7 DEF CoilIInv, CoilRan
<1>10. QED
  BY <1>2, <1>4, <1>5, <1>6, <1>8, <1>9, DriverKeeps

-----------------------------------------------------------------------------
LEMMA CoilInit == CInit => CoilIInv
<1> SUFFICES ASSUME CInit PROVE CoilIInv
  OBVIOUS
<1>1. OutputsTypeOK /\ LockInv
  BY TypeInit, LockInit DEF CInit
<1>2. cmdQ \in Seq(CoilWrites) /\ Len(cmdQ) = 0 /\ cmdQ = <<>> /\ running = Nobody
  BY EmptySeq DEF CInit
<1>3. CoilTypes
  BY <1>1, <1>2, ModbusCoilsAssumption DEF CInit, CoilTypes, OutputsTypeOK
<1>4. \A c \in Callers : call[c] = IdleCall
  BY DEF CInit, Init
<1>5. CoilCalls
  BY <1>2, <1>4, IdleType, ModbusCoilsAssumption DEF CoilCalls
<1>6. \A i : Waits(cmdQ, i) = {} /\ ~Runs(i)
  <2>1. DOMAIN cmdQ = {}
    BY <1>2, LenProperties
  <2>2. QED
    BY <1>2, <2>1 DEF Waits, Runs
<1>7. CoilCounts
  BY <1>6, FS_EmptySet DEF CInit, CoilCounts
<1>8. CoilOrder /\ CoilRan
  BY <1>6 DEF CInit, CoilOrder, CoilRan
<1>9. QED
  BY <1>1, <1>3, <1>5, <1>7, <1>8 DEF CoilIInv

LEMMA CoilStep == CoilIInv /\ [CNext]_cvars => CoilIInv'
<1> SUFFICES ASSUME CoilIInv, [CNext]_cvars PROVE CoilIInv'
  OBVIOUS
<1>1. ASSUME NEW w \in CoilWrites, WriteCoils(w) PROVE CoilIInv'
  BY <1>1, WriteKeeps
<1>2. ASSUME NEW cl \in Clients, ReadBegin(cl) \/ ReadEnd(cl) PROVE CoilIInv'
  BY <1>2, ReadKeeps
<1>3. ASSUME NEW c \in Callers, OtherStep(c) PROVE CoilIInv'
  BY <1>3, OtherKeeps DEF OtherStep
<1>4. CASE UNCHANGED cvars
  <2>1. OutputsTypeOK' /\ LockInv'
    BY <1>4, CoilsAtRest DEF cvars
  <2>2. UNCHANGED CoilTask /\ UNCHANGED <<call, port, spoiled>>
    BY <1>4 DEF cvars, vars, coilVars, CoilTask
  <2>3. CoilCalls'
    BY <2>2 DEF CoilIInv, CoilCalls, CoilTask
  <2>4. QED
    BY <2>1, <2>2, <2>3, DriverKeeps DEF CoilIInv, CoilRan, CoilTypes
<1>5. QED
  BY <1>1, <1>2, <1>3, <1>4, TakeKeeps, CmdKeeps, FinishKeeps, CallsKeep DEF CNext

\* A master reads back what was last acknowledged and the relays end there, for any
\* number of outputs, tasks, clients and writes and any depth of the queue, for coils
\* nobody else switched and no transfer failed for (s_do_shadow, s_do_pending).
THEOREM ReadsBackWrites == CSpec => []CoilInv
<1>1. CSpec => []CoilIInv
  BY CoilInit, CoilStep, PTL DEF CSpec
<1>2. QED
  BY <1>1, CoilInvFollows, PTL
=============================================================================
