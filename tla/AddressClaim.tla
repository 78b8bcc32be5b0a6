----------------------------- MODULE AddressClaim -----------------------------
(***************************************************************************)
(* The claim of an NMEA 2000 address (n2k_handle_rx() and can_tick() of    *)
(* components/can/can_server.c), run by several boards on one bus: the     *)
(* lower NAME keeps a contested address, the others move up, and one that  *)
(* finds none left says so from the null address and is silent.  A claim   *)
(* waits in the sender's queue for the bus, and in each receiver's queue   *)
(* for its worker.  Left out: frames lost to a full queue or to bus-off.   *)
(***************************************************************************)
EXTENDS Integers, SequencesExt

CONSTANTS
    Boards,
    NameOf,        \* [Boards -> NAME], equal for boards that cannot tell
    Preferred,     \* [Boards -> address], can.n2k_addr
    LastAddr,      \* 251, the highest address a board may claim
    Null,          \* N2K_ADDR_NULL
    ClaimScenarios \* bound: [boards, requests], the boards that start in one behaviour and
                   \* how many times the claims are asked for

ASSUME AddressClaimAssumption ==
    /\ NameOf \in [Boards -> Nat] /\ Preferred \in [Boards -> 0 .. LastAddr]
    /\ LastAddr \in Nat /\ Null \notin 0 .. LastAddr
    /\ ClaimScenarios \subseteq [boards : SUBSET Boards, requests : Nat]

VARIABLES
    ac,          \* s_ac_state
    addr,        \* s_addr
    claimTx,     \* claims the driver has not sent yet
    claimRx,     \* s_rx_q
    claimUsed    \* environment: the scenario and the requests so far

claimVars == <<ac, addr, claimTx, claimRx, claimUsed>>

ClaimInit ==
    /\ \E s \in ClaimScenarios : claimUsed = [requests |-> 0, scenario |-> s]
    /\ ac = [b \in Boards |-> "uninit"] /\ addr = Preferred
    /\ claimTx = [b \in Boards |-> <<>>] /\ claimRx = [b \in Boards |-> <<>>]

-----------------------------------------------------------------------------
\* n2k_send_address_claim()
Claims(b, a) ==
    claimTx' = [claimTx EXCEPT ![b] = Append(@, [kind |-> "claim", src |-> a, name |-> NameOf[b]])]
Open(b, a) ==
    /\ addr' = [addr EXCEPT ![b] = a] /\ ac' = [ac EXCEPT ![b] = "claiming"]
    /\ Claims(b, a)

\* can_server_init()
StartClaim(b) ==
    /\ ac[b] = "uninit" /\ b \in claimUsed.scenario.boards /\ Open(b, Preferred[b])
    /\ UNCHANGED <<claimRx, claimUsed>>

\* The bus: a frame reaches every board that is up.
ClaimOnBus(b) ==
    /\ claimTx[b] # <<>> /\ claimTx' = [claimTx EXCEPT ![b] = Tail(@)]
    /\ claimRx' = [x \in Boards |-> IF x = b \/ ac[x] = "uninit" THEN claimRx[x]
                                    ELSE Append(claimRx[x], Head(claimTx[b]))]
    /\ UNCHANGED <<ac, addr, claimUsed>>

\* Another device asks who is there.
IsoRequest ==
    /\ claimUsed.requests < claimUsed.scenario.requests
    /\ claimUsed' = [claimUsed EXCEPT !.requests = @ + 1]
    /\ claimRx' = [x \in Boards |-> IF ac[x] = "uninit" THEN claimRx[x]
                                    ELSE Append(claimRx[x], [kind |-> "request"])]
    /\ UNCHANGED <<ac, addr, claimTx>>

Hears(b, k) == claimRx[b] # <<>> /\ Head(claimRx[b]).kind = k /\ claimRx' = [claimRx EXCEPT ![b] = Tail(@)]
Contested(b) == Head(claimRx[b]).src = addr[b] /\ ac[b] \in {"active", "claiming"}

\* Whether their NAME makes us move: an equal one has no winner.
Loses_bug(b) == NameOf[b] > Head(claimRx[b]).name
Loses(b) == NameOf[b] >= Head(claimRx[b]).name

HearClaim(b) ==
    /\ Hears(b, "claim")
    /\ IF ~Contested(b) THEN UNCHANGED <<ac, addr, claimTx>>
       ELSE IF ~Loses(b) THEN Claims(b, addr[b]) /\ UNCHANGED <<ac, addr>>
       ELSE IF addr[b] < LastAddr THEN Open(b, addr[b] + 1)
       ELSE /\ addr' = [addr EXCEPT ![b] = Null] /\ ac' = [ac EXCEPT ![b] = "failed"]
            /\ Claims(b, Null)
    /\ UNCHANGED claimUsed

\* A claim is answered in any state.
HearRequest(b) ==
    /\ Hears(b, "request") /\ Claims(b, addr[b])
    /\ UNCHANGED <<ac, addr, claimUsed>>

\* can_tick(): 250 ms have passed.
Claimed(b) ==
    /\ ac[b] = "claiming" /\ ac' = [ac EXCEPT ![b] = "active"]
    /\ UNCHANGED <<addr, claimTx, claimRx, claimUsed>>

ClaimNext ==
    \/ IsoRequest
    \/ \E b \in Boards : \/ StartClaim(b) \/ ClaimOnBus(b) \/ HearClaim(b) \/ HearRequest(b) \/ Claimed(b)

ClaimTasks ==
    \A b \in Boards : /\ WF_claimVars(ClaimOnBus(b)) /\ WF_claimVars(HearClaim(b) \/ HearRequest(b))
                      /\ WF_claimVars(Claimed(b))
ClaimSpec == ClaimInit /\ [][ClaimNext]_claimVars /\ ClaimTasks

-----------------------------------------------------------------------------
(* Properties *)

\* The boards come to rest, each with an address of its own or with none: "two devices
\* that both re-assert never settle" does not happen, whatever the order of starts and
\* claims (n2k_handle_rx()).  A board whose NAME is lower than all others has not moved.
AtRest == \A b \in Boards : claimTx[b] = <<>> /\ claimRx[b] = <<>> /\ ac[b] # "claiming"
Distinct == \A b, c \in Boards : b # c /\ ac[b] = "active" /\ ac[c] = "active" => addr[b] # addr[c]
LowestKeeps ==
    \A b \in Boards : (\A c \in Boards \ {b} : NameOf[b] < NameOf[c]) => addr[b] = Preferred[b]
AddressesSettle == <>[](AtRest /\ Distinct /\ LowestKeeps)
=============================================================================
