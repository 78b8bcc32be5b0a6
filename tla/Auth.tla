-------------------------------- MODULE Auth --------------------------------
(***************************************************************************)
(* The password of the web page and the button flow that sets it           *)
(* (components/board/auth.c, button.c, the handlers in web_common.c).       *)
(*                                                                         *)
(* A client begins a flow; the LED blinks and a press of the button within *)
(* 30 s makes the flow's token ready; the token, good for 120 s, buys one  *)
(* new password.  Four tasks take part: the web server's, which handles    *)
(* one request at a time, the button's, and esp_timer's, which runs the    *)
(* timeout and the blinking one after the other.  They meet under          *)
(* s_tok_lock, held for the whole of each handler, so that a handler is    *)
(* one step here; the registration of the button's callback is the one     *)
(* thing the button task touches without it.                               *)
(*                                                                         *)
(* Time is what the current arming of the timeout has seen of it: its      *)
(* deadline lies ahead or has passed.  A session and its token are the     *)
(* number of the flow.  Not here: hashing, random numbers, HTTP, the five  *)
(* second press, which ends in a reboot; auth_token_cancel() has no caller. *)
(***************************************************************************)
EXTENDS Naturals

CONSTANTS
    Passwords,     \* the passwords that pass the length checks
    NoPassword,    \* none
    StartCreds,    \* what the flash may hold at the first boot
    MaxFlows,      \* bound: flows begun
    MaxPresses,    \* bound: short presses
    MaxFails,      \* bound: hashes and flash writes that fail
    MaxReboots     \* bound: power cuts and restarts

\* A stored password; old: by an earlier firmware or with another iteration count.
Creds == [pw : Passwords \union {NoPassword}, old : BOOLEAN]

ASSUME AuthAssumption ==
    /\ NoPassword \notin Passwords
    /\ StartCreds \subseteq Creds
    /\ MaxFlows \in Nat /\ MaxPresses \in Nat /\ MaxFails \in Nat /\ MaxReboots \in Nat

VARIABLES
    tok,        \* s_state
    flow,       \* s_session: the flow begun last, 0 for none
    token,      \* s_token: the flow whose token it is, 0 when wiped
    deadline,   \* s_deadline
    timer,      \* the timeout timer is running
    blink,      \* the blink timer is running
    due,        \* the callback esp_timer's task is about to run
    forced,     \* the LED shows the forced colour
    handler,    \* s_short_press_cb is set
    button,     \* the button task: where it is, what it read
    web,        \* the web server's task: what it is storing, and for whom
    flash,      \* the credential blob
    mem,        \* s_pw_*: the credential in memory
    fast,       \* s_fast_*: the password of the fast verifier, or none
    raced,      \* history: the flow was begun while a press cleared the registration
    time,       \* history: flow and state the timeout is armed for, and had run out for last
    used        \* environment: presses, failures and reboots so far

tokVars  == <<tok, flow, token, deadline, timer, blink, forced, handler>>
credVars == <<web, flash, mem, fast>>
vars == <<tokVars, due, button, credVars, raced, time, used>>

-----------------------------------------------------------------------------
Pending == tok \in {"waiting", "ready"}

NoTime == [armed |-> <<0, "idle">>, over |-> <<0, "idle">>]

IdleWeb == [at |-> "idle", pw |-> NoPassword, for |-> "none"]

Boot(cred) ==
    /\ tok' = "idle" /\ flow' = 0 /\ token' = 0 /\ deadline' = "none"
    /\ timer' = FALSE /\ blink' = FALSE /\ due' = "none" /\ forced' = FALSE
    /\ handler' = FALSE /\ button' = [at |-> "up", cb |-> FALSE]
    /\ web' = IdleWeb /\ flash' = cred /\ mem' = cred /\ fast' = NoPassword
    /\ raced' = FALSE /\ time' = NoTime

Init ==
    /\ tok = "idle" /\ flow = 0 /\ token = 0 /\ deadline = "none"
    /\ timer = FALSE /\ blink = FALSE /\ due = "none" /\ forced = FALSE
    /\ handler = FALSE /\ button = [at |-> "up", cb |-> FALSE]
    /\ web = IdleWeb /\ flash \in StartCreds /\ mem = flash /\ fast = NoPassword
    /\ raced = FALSE /\ time = NoTime
    /\ used = [flows |-> 0, presses |-> 0, fails |-> 0, reboots |-> 0]

\* Power cut or restart: auth_init() takes the blob from the flash.
Reboot ==
    /\ used.reboots < MaxReboots
    /\ Boot(flash)
    /\ used' = [used EXCEPT !.reboots = @ + 1]

-----------------------------------------------------------------------------
(* The timers.  Stopping one leaves a callback already due on its way.     *)

\* arm_timeout(), for the flow f in state s.
ArmTimeout(f, s) ==
    /\ deadline' = "ahead" /\ timer' = TRUE
    /\ time' = [time EXCEPT !.armed = <<f, s>>]

StopTimeout == deadline' = "none" /\ timer' = FALSE
StopBlink   == blink' = FALSE /\ forced' = FALSE

\* The time of the current arming runs out.
Elapse ==
    /\ deadline = "ahead"
    /\ deadline' = "passed"
    /\ time' = [time EXCEPT !.over = time.armed]
    /\ UNCHANGED <<tok, flow, token, timer, blink, forced, handler, due, button,
                   credVars, raced, used>>

\* esp_timer's task takes the next callback.
TimeoutDue ==
    /\ due = "none" /\ timer /\ deadline = "passed"
    /\ due' = "timeout" /\ timer' = FALSE
    /\ UNCHANGED <<tok, flow, token, deadline, blink, forced, handler, button,
                   credVars, raced, time, used>>

BlinkDue ==
    /\ due = "none" /\ blink
    /\ due' = "blink"
    /\ UNCHANGED <<tokVars, button, credVars, raced, time, used>>

Mine_bug == TRUE                          \* s_deadline not looked at
\* The arming the callback was started for is still the current one, or the
\* current one has run out as well.
Mine == deadline = "passed"

Expires_bug == tok = "waiting"            \* a READY token never expires
Expires == Pending

Wiped(t) == 0

Unregisters_bug == TRUE                   \* before looking whose time it is
\* It takes the button's callback with it.
Unregisters == Mine /\ Expires

OnTimeout ==
    /\ due = "timeout"
    /\ due' = "none"
    /\ handler' = (handler /\ ~Unregisters)
    /\ IF Mine
       THEN /\ IF Expires THEN tok' = "timeout" /\ token' = Wiped(token)
                          ELSE UNCHANGED <<tok, token>>
            /\ StopTimeout /\ StopBlink
       ELSE UNCHANGED <<tok, token, deadline, timer, blink, forced>>
    /\ UNCHANGED <<flow, button, credVars, raced, time, used>>

MayLight_bug == TRUE                      \* a late tick lights the LED again
MayLight == tok = "waiting"

OnBlink ==
    /\ due = "blink"
    /\ due' = "none"
    /\ forced' = (forced \/ MayLight)
    /\ UNCHANGED <<tok, flow, token, deadline, timer, blink, handler, button,
                   credVars, raced, time, used>>

-----------------------------------------------------------------------------
(* The web server's task.                                                  *)

\* POST /api/auth/begin; while a flow is pending it answers 409.
Begin ==
    /\ web.at = "idle" /\ ~Pending /\ used.flows < MaxFlows
    /\ used' = [used EXCEPT !.flows = @ + 1]
    /\ flow' = used.flows + 1 /\ token' = used.flows + 1
    /\ tok' = "waiting"
    /\ ArmTimeout(used.flows + 1, "waiting")
    /\ blink' = TRUE /\ forced' = FALSE
    /\ handler' = TRUE
    /\ raced' = (button.at = "clear")
    /\ UNCHANGED <<due, button, credVars>>

\* POST /api/auth/set-password: the token is spent, then the password stored.
\* A wrong or late token changes nothing.
Consume(t, p) ==
    /\ web.at = "idle" /\ tok = "ready" /\ t = token
    /\ tok' = "idle" /\ token' = 0
    /\ StopTimeout /\ StopBlink
    /\ web' = [at |-> "store", pw |-> p, for |-> "set"]
    /\ UNCHANGED <<flow, handler, due, button, flash, mem, fast, raced, time, used>>

\* auth_check_password() by the fast verifier: nothing changes.  By the full
\* hash: a match is remembered, or stored anew when it was stored an old way.
Login(p) ==
    /\ web.at = "idle" /\ mem.pw # NoPassword /\ p = mem.pw /\ fast # p
    /\ IF mem.old THEN web' = [at |-> "store", pw |-> p, for |-> "login"] /\ UNCHANGED fast
                  ELSE fast' = p /\ UNCHANGED web
    /\ UNCHANGED <<tokVars, due, button, flash, mem, raced, time, used>>

\* compute_hash() failed: there is no fast verifier.
LoginNoFast(p) ==
    /\ web.at = "idle" /\ mem.pw # NoPassword /\ p = mem.pw /\ fast # p /\ ~mem.old
    /\ used.fails < MaxFails
    /\ used' = [used EXCEPT !.fails = @ + 1]
    /\ fast' = NoPassword
    /\ UNCHANGED <<tokVars, due, button, web, flash, mem, raced, time>>

\* store_password(): the blob, in one write, before the memory.
StoreFlash ==
    /\ web.at = "store"
    /\ flash' = [pw |-> web.pw, old |-> FALSE]
    /\ web' = [web EXCEPT !.at = "stored"]
    /\ UNCHANGED <<tokVars, due, button, mem, fast, raced, time, used>>

\* It failed; a login still counts and is remembered, if that hash succeeds.
StoreFails ==
    /\ web.at = "store" /\ used.fails < MaxFails
    /\ used' = [used EXCEPT !.fails = @ + 1]
    /\ web' = IdleWeb
    /\ fast' \in IF web.for = "login" THEN {web.pw, NoPassword} ELSE {fast}
    /\ UNCHANGED <<tokVars, due, button, flash, mem, raced, time>>

Remembered_bug(ok) == IF ok /\ fast = NoPassword THEN web.pw ELSE fast   \* the old one stays
Remembered(ok) == IF ok THEN web.pw ELSE NoPassword

StoreMemory(ok) ==
    /\ web.at = "stored"
    /\ ~ok => used.fails < MaxFails
    /\ used' = IF ok THEN used ELSE [used EXCEPT !.fails = @ + 1]
    /\ mem' = flash /\ fast' = Remembered(ok)
    /\ web' = IdleWeb
    /\ UNCHANGED <<tokVars, due, button, flash, raced, time>>

-----------------------------------------------------------------------------
(* The button task.                                                        *)

PressDown ==
    /\ button.at = "up" /\ used.presses < MaxPresses
    /\ button' = [button EXCEPT !.at = "down"]
    /\ used' = [used EXCEPT !.presses = @ + 1]
    /\ UNCHANGED <<tokVars, due, credVars, raced, time>>

\* Released in time: cb = s_short_press_cb, ...
ReadCallback ==
    /\ button.at = "down"
    /\ button' = [at |-> "clear", cb |-> handler]
    /\ UNCHANGED <<tokVars, due, credVars, raced, time, used>>

\* ... s_short_press_cb = NULL, ...
ClearCallback ==
    /\ button.at = "clear"
    /\ handler' = FALSE
    /\ button' = [button EXCEPT !.at = IF button.cb THEN "call" ELSE "up"]
    /\ UNCHANGED <<tok, flow, token, deadline, timer, blink, forced, due, credVars, raced, time, used>>

\* ... and the callback, auth_on_button_press().
CallCallback ==
    /\ button.at = "call"
    /\ button' = [at |-> "up", cb |-> FALSE]
    /\ IF tok = "waiting"
       THEN tok' = "ready" /\ StopBlink /\ ArmTimeout(flow, "ready")
       ELSE UNCHANGED <<tok, blink, forced, deadline, timer, time>>
    /\ UNCHANGED <<flow, token, handler, due, credVars, raced, used>>

-----------------------------------------------------------------------------
TimerStep  == Elapse \/ TimeoutDue \/ BlinkDue \/ OnTimeout \/ OnBlink
StoreStep  == StoreFlash \/ StoreFails \/ \E ok \in BOOLEAN : StoreMemory(ok)
ButtonStep == ReadCallback \/ ClearCallback \/ CallCallback

Next ==
    \/ TimerStep \/ ButtonStep \/ StoreStep
    \/ Begin \/ PressDown \/ Reboot
    \/ \E p \in Passwords : Login(p) \/ LoginNoFast(p) \/ \E t \in 1 .. MaxFlows : Consume(t, p)

Spec == Init /\ [][Next]_vars

\* Time passes, esp_timer's task runs the callback it took and comes round
\* to a timer that stays due (a blink each 150 ms leaves it the time), a
\* request and a press once begun come to their end.
FairSpec ==
    /\ Spec
    /\ WF_vars(Elapse) /\ SF_vars(TimeoutDue) /\ WF_vars(OnTimeout) /\ WF_vars(OnBlink)
    /\ WF_vars(StoreStep) /\ WF_vars(ButtonStep)

-----------------------------------------------------------------------------
(* Properties.                                                             *)

\* Types; a token exists exactly while its flow is pending.
TypeOK ==
    /\ tok \in {"idle", "waiting", "ready", "timeout"}
    /\ flow \in 0 .. MaxFlows /\ token = IF Pending THEN flow ELSE 0
    /\ deadline \in {"none", "ahead", "passed"}
    /\ timer \in BOOLEAN /\ blink \in BOOLEAN /\ forced \in BOOLEAN /\ handler \in BOOLEAN
    /\ due \in {"none", "timeout", "blink"}
    /\ button \in [at : {"up", "down", "clear", "call"}, cb : BOOLEAN]
    /\ web \in [at : {"idle", "store", "stored"}, pw : Passwords \union {NoPassword},
                for : {"none", "set", "login"}]
    /\ flash \in Creds /\ mem \in Creds /\ fast \in Passwords \union {NoPassword}
    /\ raced \in BOOLEAN
    /\ time \in [armed : (0 .. MaxFlows) \X {"idle", "waiting", "ready"},
                 over : (0 .. MaxFlows) \X {"idle", "waiting", "ready"}]
    /\ used \in [flows : 0 .. MaxFlows, presses : 0 .. MaxPresses, fails : 0 .. MaxFails,
                 reboots : 0 .. MaxReboots]

\* A flow that waits ends by a press or once its own 30 s have run out, a token
\* that is ready ends redeemed or once its own 120 s have: never earlier, by a
\* callback on its way for another arming (an earlier flow's, or this flow's
\* before the press), by another client's begin or by a press (s_deadline,
\* comment at s_tok_lock).  Only a restart forgets it.
Restarts == used'.reboots # used.reboots
Confirmed == tok = "waiting" /\ tok' = "ready" /\ flow' = flow
Redeemed == tok = "ready" /\ tok' = "idle" /\ web'.at = "store" /\ web'.for = "set"
RanOut == tok' = "timeout" /\ time.over = <<flow, tok>>
KeepsItsTime ==
    [][(Pending /\ <<flow, tok>>' # <<flow, tok>>)
          => (Confirmed \/ Redeemed \/ RanOut \/ Restarts)]_vars

\* With no flow waiting the LED shows what its mode says: a tick on its way
\* when the blinking stopped does not light it again (comment in on_blink()).
LedGivenBack == tok # "waiting" => ~forced

\* While a flow waits and no press is being handled, the next press is its
\* own, unless the flow was begun inside the button task's read and clear.
ListensUnlessRaced ==
    (tok = "waiting" /\ button.at \in {"up", "down"} /\ ~raced) => handler

\* Once a request is over, memory, flash and the fast verifier agree on one
\* password, whichever writes and hashes failed and wherever power was cut.
OnePassword ==
    web.at = "idle" => (mem = flash /\ fast \in {mem.pw, NoPassword})

\* No flow stays pending: nobody is told "already pending" for ever.
EveryFlowEnds == Pending ~> ~Pending

\* What button.h promises the flow: the callback registered fires on the
\* next short press.
NextPressCounts ==
    (tok = "waiting" /\ button.at \in {"up", "down"}) => handler
=============================================================================
