---------------------------- MODULE AtomicOutputs ----------------------------
(***************************************************************************)
(* What the output driver (components/board/dout.c) promises its callers:  *)
(* the eight outputs are one byte, and a request to set, clear and toggle  *)
(* some of them happens at once and as a whole, on the outputs as they are *)
(* at that moment, or not at all.                                          *)
(***************************************************************************)
CONSTANTS Outs, Callers, Requests, NoRequest

VARIABLES
    out,    \* the outputs that are on
    asked   \* per caller: the request it waits on, or NoRequest

\* dout_modify()'s masks: clear, then set, then toggle.
Change(s, r) ==
    LET on == (s \ r.clear) \union r.set
    IN (on \ r.toggle) \union (r.toggle \ on)

Init == out = {} /\ asked = [c \in Callers |-> NoRequest]

Ask(c, r) ==
    /\ asked[c] = NoRequest
    /\ asked' = [asked EXCEPT ![c] = r]
    /\ out' = out

Answered(c) ==
    /\ asked[c] # NoRequest
    /\ asked' = [asked EXCEPT ![c] = NoRequest]

Apply(c)  == Answered(c) /\ out' = Change(out, asked[c])
Refuse(c) == Answered(c) /\ out' = out

Next == \E c \in Callers : (\E r \in Requests : Ask(c, r)) \/ Apply(c) \/ Refuse(c)

Spec == Init /\ [][Next]_<<out, asked>>
=============================================================================
