------------------------------ MODULE Auth_proofs ------------------------------
(***************************************************************************)
(* Proofs about Auth for any passwords, flows, presses, failures and       *)
(* restarts.                                                               *)
(***************************************************************************)
EXTENDS Auth, TLAPS

\* The step that can put two pieces of the state out of step with each other,
\* one name per disjunct of Next that changes any.
LEMMA Steps ==
    ASSUME [Next]_vars
    PROVE  \/ Elapse \/ TimeoutDue \/ BlinkDue \/ OnTimeout \/ OnBlink
           \/ ReadCallback \/ ClearCallback \/ CallCallback
           \/ StoreFlash \/ StoreFails \/ (\E ok \in BOOLEAN : StoreMemory(ok))
           \/ Begin \/ PressDown \/ Reboot
           \/ (\E p \in Passwords : Login(p) \/ LoginNoFast(p) \/ \E t \in 1 .. MaxFlows : Consume(t, p))
           \/ UNCHANGED vars
  BY DEF Next, TimerStep, StoreStep, ButtonStep

-----------------------------------------------------------------------------
(* Typing.                                                                 *)

LEMMA TypeInit == Init => TypeOK
<1> SUFFICES ASSUME Init PROVE TypeOK
  OBVIOUS
<1>1. used \in [flows : 0 .. MaxFlows, presses : 0 .. MaxPresses, fails : 0 .. MaxFails,
                reboots : 0 .. MaxReboots]
  BY AuthAssumption DEF Init
<1>2. flash \in Creds /\ flow \in 0 .. MaxFlows
  BY AuthAssumption DEF Init
<1>3. time \in [armed : (0 .. MaxFlows) \X {"idle", "waiting", "ready"},
                over : (0 .. MaxFlows) \X {"idle", "waiting", "ready"}]
  BY AuthAssumption DEF Init, NoTime
<1>4. QED
  BY <1>1, <1>2, <1>3 DEF Init, TypeOK, Pending, IdleWeb

LEMMA TypeReboot == TypeOK /\ Reboot => TypeOK'
<1> SUFFICES ASSUME TypeOK, Reboot PROVE TypeOK'
  OBVIOUS
<1>1. used' \in [flows : 0 .. MaxFlows, presses : 0 .. MaxPresses, fails : 0 .. MaxFails,
                 reboots : 0 .. MaxReboots]
  BY AuthAssumption DEF Reboot, TypeOK
<1>2. 0 \in 0 .. MaxFlows /\ flash \in Creds
  BY AuthAssumption DEF TypeOK
<1>3. time' \in [armed : (0 .. MaxFlows) \X {"idle", "waiting", "ready"},
                 over : (0 .. MaxFlows) \X {"idle", "waiting", "ready"}]
  BY <1>2 DEF Reboot, Boot, NoTime
<1>4. QED
  BY <1>1, <1>2, <1>3 DEF Reboot, Boot, TypeOK, Pending, IdleWeb

LEMMA TypeTimers ==
    ASSUME TypeOK, Elapse \/ TimeoutDue \/ BlinkDue \/ OnTimeout \/ OnBlink
    PROVE  TypeOK'
<1>1. CASE Elapse
  BY <1>1 DEF Elapse, TypeOK, Pending, credVars
<1>2. CASE TimeoutDue
  <2>1. /\ due' = "timeout" /\ timer' = FALSE
        /\ UNCHANGED <<tok, flow, token, deadline, blink, forced, handler, button, credVars, raced, time, used>>
    BY <1>2 DEF TimeoutDue
  <2>2. timer' \in BOOLEAN /\ blink' \in BOOLEAN /\ forced' \in BOOLEAN /\ handler' \in BOOLEAN /\ raced' \in BOOLEAN
    BY <2>1 DEF TypeOK
  <2>3. QED
    BY <2>1, <2>2 DEF TypeOK, Pending, credVars
<1>3. CASE BlinkDue
  BY <1>3 DEF BlinkDue, TypeOK, Pending, tokVars, credVars
<1>4. CASE OnTimeout
  <2>1. handler' \in BOOLEAN
    BY <1>4 DEF OnTimeout, TypeOK
  <2>2. CASE Mine /\ Expires
    <3>1. tok' = "timeout" /\ token' = 0
      BY <1>4, <2>2 DEF OnTimeout, Wiped
    <3>2. QED
      BY <1>4, <2>1, <2>2, <3>1 DEF OnTimeout, TypeOK, Pending, StopTimeout, StopBlink, credVars
  <2>3. CASE Mine /\ ~Expires
    <3>1. /\ due' = "none" /\ tok' = tok /\ token' = token /\ deadline' = "none" /\ timer' = FALSE
          /\ blink' = FALSE /\ forced' = FALSE /\ UNCHANGED <<flow, button, credVars, raced, time, used>>
      BY <1>4, <2>3 DEF OnTimeout, StopTimeout, StopBlink
    <3>2. tok' = tok /\ token' = (IF Pending THEN flow ELSE 0) /\ flow' = flow
      BY <3>1 DEF TypeOK
    <3>3. timer' \in BOOLEAN /\ blink' \in BOOLEAN /\ forced' \in BOOLEAN /\ raced' \in BOOLEAN
      BY <3>1 DEF TypeOK
    <3>4. QED
      BY <2>1, <3>1, <3>2, <3>3 DEF TypeOK, Pending, credVars
  <2>4. CASE ~Mine
    BY <1>4, <2>1, <2>4 DEF OnTimeout, TypeOK, Pending, credVars
  <2>5. QED
    BY <2>2, <2>3, <2>4
<1>5. CASE OnBlink
  <2>1. forced' \in BOOLEAN
    BY <1>5 DEF OnBlink, TypeOK
  <2>2. QED
    BY <1>5, <2>1 DEF OnBlink, TypeOK, Pending, credVars
<1>6. QED
  BY <1>1, <1>2, <1>3, <1>4, <1>5

LEMMA TypeButton ==
    ASSUME TypeOK, ReadCallback \/ ClearCallback \/ CallCallback \/ PressDown
    PROVE  TypeOK'
<1>1. CASE ReadCallback
  <2>1. button' \in [at : {"up", "down", "clear", "call"}, cb : BOOLEAN]
    BY <1>1 DEF ReadCallback, TypeOK
  <2>2. QED
    BY <1>1, <2>1 DEF ReadCallback, TypeOK, Pending, tokVars, credVars
<1>2. CASE ClearCallback
  <2>1. button' \in [at : {"up", "down", "clear", "call"}, cb : BOOLEAN]
    BY <1>2 DEF ClearCallback, TypeOK
  <2>2. /\ handler' = FALSE
        /\ UNCHANGED <<tok, flow, token, deadline, timer, blink, forced, due, credVars, raced, time, used>>
    BY <1>2 DEF ClearCallback
  <2>3. timer' \in BOOLEAN /\ blink' \in BOOLEAN /\ forced' \in BOOLEAN /\ handler' \in BOOLEAN /\ raced' \in BOOLEAN
    BY <2>2 DEF TypeOK
  <2>4. QED
    BY <2>1, <2>2, <2>3 DEF TypeOK, Pending, credVars
<1>3. CASE CallCallback
  <2>1. CASE tok = "waiting"
    <3>1. time' \in [armed : (0 .. MaxFlows) \X {"idle", "waiting", "ready"},
                     over : (0 .. MaxFlows) \X {"idle", "waiting", "ready"}]
      BY <1>3, <2>1 DEF CallCallback, ArmTimeout, TypeOK
    <3>2. QED
      BY <1>3, <2>1, <3>1 DEF CallCallback, TypeOK, Pending, StopBlink, ArmTimeout, credVars
  <2>2. CASE tok # "waiting"
    BY <1>3, <2>2 DEF CallCallback, TypeOK, Pending, credVars
  <2>3. QED
    BY <2>1, <2>2
<1>4. CASE PressDown
  <2>1. used' \in [flows : 0 .. MaxFlows, presses : 0 .. MaxPresses, fails : 0 .. MaxFails,
                   reboots : 0 .. MaxReboots]
    BY <1>4, AuthAssumption DEF PressDown, TypeOK
  <2>2. QED
    BY <1>4, <2>1 DEF PressDown, TypeOK, Pending, tokVars, credVars
<1>5. QED
  BY <1>1, <1>2, <1>3, <1>4

LEMMA TypeWeb ==
    ASSUME TypeOK,
           \/ Begin \/ StoreFlash \/ StoreFails \/ (\E ok \in BOOLEAN : StoreMemory(ok))
           \/ (\E p \in Passwords : Login(p) \/ LoginNoFast(p) \/ \E t \in 1 .. MaxFlows : Consume(t, p))
    PROVE  TypeOK'
<1> DEFINE Used == [flows : 0 .. MaxFlows, presses : 0 .. MaxPresses, fails : 0 .. MaxFails,
                    reboots : 0 .. MaxReboots]
<1>1. CASE Begin
  <2>1. used' \in Used /\ used.flows + 1 \in 0 .. MaxFlows
    BY <1>1, AuthAssumption DEF Begin, TypeOK
  <2>2. QED
    BY <1>1, <2>1 DEF Begin, TypeOK, Pending, ArmTimeout, credVars
<1>2. CASE StoreFlash
  <2>1. flash' \in Creds /\ web' \in [at : {"idle", "store", "stored"}, pw : Passwords \union {NoPassword},
                for : {"none", "set", "login"}]
    BY <1>2 DEF StoreFlash, TypeOK, Creds
  <2>2. QED
    BY <1>2, <2>1 DEF StoreFlash, TypeOK, Pending, tokVars
<1>3. CASE StoreFails
  <2>1. used' \in Used
    BY <1>3, AuthAssumption DEF StoreFails, TypeOK
  <2>2. fast' \in Passwords \union {NoPassword} /\ web' = IdleWeb
    BY <1>3 DEF StoreFails, TypeOK
  <2>3. QED
    BY <1>3, <2>1, <2>2 DEF StoreFails, TypeOK, Pending, tokVars, IdleWeb
<1>4. ASSUME NEW ok \in BOOLEAN, StoreMemory(ok) PROVE TypeOK'
  <2>1. used' \in Used
    BY <1>4, AuthAssumption DEF StoreMemory, TypeOK
  <2>2. fast' \in Passwords \union {NoPassword} /\ web' = IdleWeb
    BY <1>4 DEF StoreMemory, Remembered, TypeOK
  <2>3. QED
    BY <1>4, <2>1, <2>2 DEF StoreMemory, TypeOK, Pending, tokVars, IdleWeb
<1>5. ASSUME NEW p \in Passwords, Login(p) PROVE TypeOK'
  <2>1. CASE mem.old
    BY <1>5, <2>1 DEF Login, TypeOK, Pending, tokVars
  <2>2. CASE ~mem.old
    BY <1>5, <2>2 DEF Login, TypeOK, Pending, tokVars
  <2>3. QED
    BY <2>1, <2>2
<1>6. ASSUME NEW p \in Passwords, LoginNoFast(p) PROVE TypeOK'
  <2>1. used' \in Used
    BY <1>6, AuthAssumption DEF LoginNoFast, TypeOK
  <2>2. QED
    BY <1>6, <2>1 DEF LoginNoFast, TypeOK, Pending, tokVars
<1>7. ASSUME NEW p \in Passwords, NEW t \in 1 .. MaxFlows, Consume(t, p) PROVE TypeOK'
  BY <1>7 DEF Consume, TypeOK, Pending, StopTimeout, StopBlink
<1>8. QED
  BY <1>1, <1>2, <1>3, <1>4, <1>5, <1>6, <1>7

\* Every reachable state is well typed, and a token exists exactly while its
\* flow is pending.
THEOREM TypeCorrect == Spec => []TypeOK
<1>1. TypeOK /\ [Next]_vars => TypeOK'
  <2> SUFFICES ASSUME TypeOK, [Next]_vars PROVE TypeOK'
    OBVIOUS
  <2>1. CASE UNCHANGED vars
    BY <2>1 DEF TypeOK, Pending, vars, tokVars, credVars
  <2>2. QED
    BY <2>1, Steps, TypeReboot, TypeTimers, TypeButton, TypeWeb
<1>2. QED
  BY <1>1, TypeInit, PTL DEF Spec

-----------------------------------------------------------------------------
(* The password.  OnePassword is not inductive while a request stores: then *)
(* the flash is ahead of the memory, and the web server's task knows it.    *)

CredInv ==
    /\ web.at \in {"idle", "store"} => (mem = flash /\ fast \in {mem.pw, NoPassword})
    /\ (web.at = "store" /\ web.for = "login") => web.pw = mem.pw
    /\ web.at = "stored" => flash.pw = web.pw

LEMMA CredStep == TypeOK /\ CredInv /\ [Next]_vars => CredInv'
<1> SUFFICES ASSUME TypeOK, CredInv, [Next]_vars PROVE CredInv'
  OBVIOUS
<1>1. CASE UNCHANGED credVars
  BY <1>1 DEF CredInv, credVars
<1>2. CASE Reboot
  BY <1>2 DEF CredInv, Reboot, Boot, IdleWeb
<1>3. CASE StoreFlash
  <2>1. web'.at = "stored" /\ web'.pw = web.pw /\ flash'.pw = web.pw
    BY <1>3 DEF StoreFlash, TypeOK
  <2>2. QED
    BY <2>1 DEF CredInv
<1>4. CASE StoreFails
  <2>1. web'.at = "idle" /\ web'.for = "none" /\ mem' = mem /\ flash' = flash /\ mem = flash
    BY <1>4 DEF StoreFails, IdleWeb, CredInv
  <2>2. fast' \in {mem.pw, NoPassword}
    BY <1>4 DEF StoreFails, CredInv
  <2>3. QED
    BY <2>1, <2>2 DEF CredInv
<1>5. ASSUME NEW ok \in BOOLEAN, StoreMemory(ok) PROVE CredInv'
  <2>1. web'.at = "idle" /\ mem' = flash' /\ flash.pw = web.pw /\ flash' = flash
    BY <1>5 DEF StoreMemory, IdleWeb, CredInv
  <2>2. fast' \in {web.pw, NoPassword}
    BY <1>5 DEF StoreMemory, Remembered
  <2>3. QED
    BY <2>1, <2>2 DEF CredInv
<1>6. ASSUME NEW p \in Passwords, Login(p) PROVE CredInv'
  <2>1. CASE mem.old
    BY <1>6, <2>1 DEF Login, CredInv
  <2>2. CASE ~mem.old
    BY <1>6, <2>2 DEF Login, CredInv
  <2>3. QED
    BY <2>1, <2>2
<1>7. ASSUME NEW p \in Passwords, LoginNoFast(p) PROVE CredInv'
  BY <1>7 DEF LoginNoFast, CredInv
<1>8. ASSUME NEW p \in Passwords, NEW t \in 1 .. MaxFlows, Consume(t, p) PROVE CredInv'
  BY <1>8 DEF Consume, CredInv
<1>9. ASSUME \/ Elapse \/ TimeoutDue \/ BlinkDue \/ OnTimeout \/ OnBlink
             \/ ReadCallback \/ ClearCallback \/ CallCallback \/ Begin \/ PressDown
      PROVE  UNCHANGED credVars
  BY <1>9 DEF Elapse, TimeoutDue, BlinkDue, OnTimeout, OnBlink, ReadCallback, ClearCallback,
              CallCallback, Begin, PressDown
<1>10. UNCHANGED vars => UNCHANGED credVars
  BY DEF vars
<1>11. QED
  BY <1>1, <1>2, <1>3, <1>4, <1>5, <1>6, <1>7, <1>8, <1>9, <1>10, Steps

\* Memory, flash and the fast verifier agree on one password after every
\* request, whatever failed and wherever the power was cut.
THEOREM PasswordAgrees == Spec => []OnePassword
<1>1. Init => CredInv
  BY DEF Init, CredInv, IdleWeb
<1>2. CredInv => OnePassword
  BY DEF CredInv, OnePassword
<1>3. QED
  BY <1>1, <1>2, CredStep, TypeCorrect, PTL DEF Spec

-----------------------------------------------------------------------------
(* The flow.                                                               *)

\* A press being handled for a flow that waits has read that flow's callback.
ListenInv ==
    /\ ListensUnlessRaced
    /\ (tok = "waiting" /\ button.at = "clear" /\ ~raced) => button.cb

LEMMA ListenStep == TypeOK /\ ListenInv /\ [Next]_vars => ListenInv'
<1> SUFFICES ASSUME TypeOK, ListenInv, [Next]_vars PROVE ListenInv'
  OBVIOUS
<1> USE DEF ListenInv, ListensUnlessRaced
<1>1. ASSUME UNCHANGED <<tok, handler, button, raced>> PROVE ListenInv'
  BY <1>1
<1>2. CASE Reboot
  BY <1>2 DEF Reboot, Boot
<1>3. CASE OnTimeout
  <2>1. CASE Mine /\ Expires
    BY <1>3, <2>1 DEF OnTimeout
  <2>2. CASE ~(Mine /\ Expires)
    BY <1>3, <2>2 DEF OnTimeout, Unregisters, TypeOK
  <2>3. QED
    BY <2>1, <2>2
<1>4. CASE Begin
  BY <1>4 DEF Begin, TypeOK
<1>5. CASE ReadCallback
  BY <1>5 DEF ReadCallback, tokVars, TypeOK
<1>6. CASE ClearCallback
  BY <1>6 DEF ClearCallback, TypeOK
<1>7. CASE CallCallback
  BY <1>7 DEF CallCallback, TypeOK
<1>8. CASE PressDown
  BY <1>8 DEF PressDown, tokVars, TypeOK
<1>9. ASSUME NEW p \in Passwords, NEW t \in 1 .. MaxFlows, Consume(t, p) PROVE ListenInv'
  BY <1>9 DEF Consume
<1>10. ASSUME \/ Elapse \/ TimeoutDue \/ BlinkDue \/ OnBlink \/ StoreFlash \/ StoreFails
              \/ (\E ok \in BOOLEAN : StoreMemory(ok))
              \/ (\E p \in Passwords : Login(p) \/ LoginNoFast(p)) \/ UNCHANGED vars
       PROVE  UNCHANGED <<tok, handler, button, raced>>
  BY <1>10 DEF Elapse, TimeoutDue, BlinkDue, OnBlink, StoreFlash, StoreFails, StoreMemory,
               Login, LoginNoFast, vars, tokVars
<1>11. QED
  BY <1>1, <1>2, <1>3, <1>4, <1>5, <1>6, <1>7, <1>8, <1>9, <1>10, Steps

\* The next press belongs to the flow that waits, unless that flow was begun
\* between the button task's read and its clear.
THEOREM PressIsHeard == Spec => []ListensUnlessRaced
<1>1. Init => ListenInv
  BY DEF Init, ListenInv, ListensUnlessRaced
<1>2. ListenInv => ListensUnlessRaced
  BY DEF ListenInv
<1>3. QED
  BY <1>1, <1>2, ListenStep, TypeCorrect, PTL DEF Spec

\* While a flow is pending the timeout is armed, and for that flow in its state:
\* a deadline that has passed is that flow's own.
ClockInv ==
    /\ Pending => (deadline # "none" /\ time.armed = <<flow, tok>>)
    /\ deadline = "passed" => time.over = time.armed

LEMMA ClockStep == TypeOK /\ ClockInv /\ [Next]_vars => ClockInv'
<1> SUFFICES ASSUME TypeOK, ClockInv, [Next]_vars PROVE ClockInv'
  OBVIOUS
<1> USE DEF ClockInv, Pending
<1>1. ASSUME UNCHANGED <<tok, flow, deadline, time>> PROVE ClockInv'
  BY <1>1
<1>2. CASE Reboot
  BY <1>2 DEF Reboot, Boot
<1>3. CASE Elapse
  BY <1>3 DEF Elapse, TypeOK
<1>4. CASE OnTimeout
  <2>1. CASE Mine
    BY <1>4, <2>1 DEF OnTimeout, StopTimeout, Expires
  <2>2. CASE ~Mine
    BY <1>4, <2>2, <1>1 DEF OnTimeout
  <2>3. QED
    BY <2>1, <2>2
<1>5. CASE Begin
  BY <1>5 DEF Begin, ArmTimeout, TypeOK
<1>6. CASE CallCallback
  <2>1. CASE tok = "waiting"
    BY <1>6, <2>1 DEF CallCallback, ArmTimeout, TypeOK
  <2>2. CASE tok # "waiting"
    BY <1>6, <2>2, <1>1 DEF CallCallback
  <2>3. QED
    BY <2>1, <2>2
<1>7. ASSUME NEW p \in Passwords, NEW t \in 1 .. MaxFlows, Consume(t, p) PROVE ClockInv'
  BY <1>7 DEF Consume, StopTimeout
<1>8. ASSUME \/ TimeoutDue \/ BlinkDue \/ OnBlink \/ StoreFlash \/ StoreFails
             \/ (\E ok \in BOOLEAN : StoreMemory(ok))
             \/ (\E p \in Passwords : Login(p) \/ LoginNoFast(p)) \/ UNCHANGED vars
             \/ ReadCallback \/ ClearCallback \/ PressDown
      PROVE  UNCHANGED <<tok, flow, deadline, time>>
  BY <1>8 DEF TimeoutDue, BlinkDue, OnBlink, StoreFlash, StoreFails, StoreMemory,
              Login, LoginNoFast, vars, tokVars, ReadCallback, ClearCallback, PressDown
<1>9. QED
  BY <1>1, <1>2, <1>3, <1>4, <1>5, <1>6, <1>7, <1>8, Steps

\* A pending flow ends by its press, redeemed, or when the time of its own
\* arming has run out: a callback of an earlier arming, late by any number of
\* flows and presses, another begin and a further press do not end it.
THEOREM FlowsKeepTheirTime == Spec => KeepsItsTime
<1> DEFINE Ends == Confirmed \/ Redeemed \/ RanOut \/ Restarts
           Lasts == (Pending /\ <<flow, tok>>' # <<flow, tok>>) => Ends
<1>1. TypeOK /\ ClockInv /\ [Next]_vars => [Lasts]_vars
  <2> SUFFICES ASSUME TypeOK, ClockInv, [Next]_vars, Pending, <<flow, tok>>' # <<flow, tok>>
               PROVE  Ends
    OBVIOUS
  <2>1. CASE Reboot
    <3>1. used'.reboots # used.reboots
      BY <2>1 DEF Reboot, TypeOK
    <3>2. QED
      BY <3>1 DEF Restarts
  <2>2. CASE OnTimeout
    <3>1. deadline = "passed"
      BY <2>2 DEF OnTimeout, Mine
    <3>2. tok' = "timeout"
      BY <2>2 DEF OnTimeout
    <3>3. QED
      BY <3>1, <3>2 DEF RanOut, ClockInv
  <2>3. CASE Begin
    BY <2>3 DEF Begin
  <2>4. CASE CallCallback
    BY <2>4 DEF CallCallback, Confirmed
  <2>5. ASSUME NEW p \in Passwords, NEW t \in 1 .. MaxFlows, Consume(t, p) PROVE Ends
    BY <2>5 DEF Consume, Redeemed
  <2>6. ASSUME \/ Elapse \/ TimeoutDue \/ BlinkDue \/ OnBlink \/ StoreFlash \/ StoreFails
               \/ (\E ok \in BOOLEAN : StoreMemory(ok))
               \/ (\E p \in Passwords : Login(p) \/ LoginNoFast(p)) \/ UNCHANGED vars
               \/ ReadCallback \/ ClearCallback \/ PressDown
        PROVE  FALSE
    BY <2>6 DEF Elapse, TimeoutDue, BlinkDue, OnBlink, StoreFlash, StoreFails, StoreMemory,
                Login, LoginNoFast, vars, tokVars, ReadCallback, ClearCallback, PressDown
  <2>7. QED
    BY <2>1, <2>2, <2>3, <2>4, <2>5, <2>6, Steps
<1>2. Init => ClockInv
  BY DEF Init, ClockInv, Pending
<1>3. QED
  BY <1>1, <1>2, ClockStep, TypeCorrect, PTL DEF Spec, KeepsItsTime

LEMMA LedStep == LedGivenBack /\ [Next]_vars => LedGivenBack'
<1> SUFFICES ASSUME LedGivenBack, [Next]_vars PROVE LedGivenBack'
  OBVIOUS
<1> USE DEF LedGivenBack
<1>1. CASE OnBlink
  BY <1>1 DEF OnBlink, MayLight
<1>2. CASE OnTimeout
  <2>1. CASE Mine
    BY <1>2, <2>1 DEF OnTimeout, StopBlink
  <2>2. CASE ~Mine
    BY <1>2, <2>2 DEF OnTimeout
  <2>3. QED
    BY <2>1, <2>2
<1>3. CASE Begin \/ Reboot
  BY <1>3 DEF Begin, Reboot, Boot
<1>4. ASSUME NEW p \in Passwords, NEW t \in 1 .. MaxFlows, Consume(t, p) PROVE LedGivenBack'
  BY <1>4 DEF Consume, StopBlink
<1>5. CASE CallCallback
  <2>1. CASE tok = "waiting"
    BY <1>5, <2>1 DEF CallCallback, StopBlink
  <2>2. CASE tok # "waiting"
    BY <1>5, <2>2 DEF CallCallback
  <2>3. QED
    BY <2>1, <2>2
<1>6. ASSUME \/ Elapse \/ TimeoutDue \/ BlinkDue \/ StoreFlash \/ StoreFails
             \/ (\E ok \in BOOLEAN : StoreMemory(ok))
             \/ (\E p \in Passwords : Login(p) \/ LoginNoFast(p)) \/ UNCHANGED vars
             \/ ReadCallback \/ ClearCallback \/ PressDown
      PROVE  UNCHANGED <<tok, forced>>
  BY <1>6 DEF Elapse, TimeoutDue, BlinkDue, StoreFlash, StoreFails, StoreMemory,
              Login, LoginNoFast, vars, tokVars, ReadCallback, ClearCallback, PressDown
<1>7. QED
  BY <1>1, <1>2, <1>3, <1>4, <1>5, <1>6, Steps

\* A tick of the blinking that comes late never lights the LED for a flow that has
\* stopped waiting (on_blink(), the state looked at under s_tok_lock).
THEOREM LedComesBack == Spec => []LedGivenBack
<1>1. Init => LedGivenBack
  BY DEF Init, LedGivenBack
<1>2. QED
  BY <1>1, LedStep, PTL DEF Spec
=============================================================================
