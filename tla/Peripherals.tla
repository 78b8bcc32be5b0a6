----------------------------- MODULE Peripherals -----------------------------
(***************************************************************************)
(* The board's small parts side by side: the LED, the buzzer, the inputs,  *)
(* CAN and the RS-485 segment share no state.  Every one runs in every     *)
(* behaviour, but what happens outside happens to one of them, which takes *)
(* no order of their own steps away.                                       *)
(***************************************************************************)
EXTENDS Led, Buzzer, Inputs, CanServer, AddressClaim, Gateway

vars == <<ledVars, buzzerVars, inputVars, canVars, claimVars, gwVars>>

\* Something happens outside to one of them, in each behaviour.
Init == \E part \in {"led", "buzzer", "inputs", "can", "claim", "gateway"} :
    /\ LedInit /\ (part = "led" <=> ledUsed.scenario.max > 0)
    /\ BuzzerInit /\ (part = "buzzer" <=> commands > 0)
    /\ InputsInit /\ (part = "inputs" <=> inUsed.scenario.max > 0)
    /\ CanInit /\ (part = "can" <=> Mode # "off")
    /\ ClaimInit /\ (part = "claim" <=> claimUsed.scenario.boards # {})
    /\ GwInit /\ (part = "gateway" <=> gwUsed.scenario.requests > 0)

Next ==
    \/ LedNext /\ UNCHANGED <<buzzerVars, inputVars, canVars, claimVars, gwVars>>
    \/ BuzzerNext /\ UNCHANGED <<ledVars, inputVars, canVars, claimVars, gwVars>>
    \/ InputsNext /\ UNCHANGED <<ledVars, buzzerVars, canVars, claimVars, gwVars>>
    \/ CanNext /\ UNCHANGED <<ledVars, buzzerVars, inputVars, claimVars, gwVars>>
    \/ ClaimNext /\ UNCHANGED <<ledVars, buzzerVars, inputVars, canVars, gwVars>>
    \/ GwNext /\ UNCHANGED <<ledVars, buzzerVars, inputVars, canVars, claimVars>>

Spec == Init /\ [][Next]_vars /\ LedTasks /\ BuzzerTask /\ InputTasks /\ CanTasks /\ ClaimTasks

-----------------------------------------------------------------------------
\* The newest command wins, on the LED and on the buzzer: nothing queued before it
\* is seen or heard after it, and it need not wait for what it replaces.
NewestWins == InstantStays /\ WokenByNewer /\ ToneIsNewest

\* The LED shows and the inputs read what is there in the end.
DriversSettle == LedSettles /\ InputsSettle

\* On the bus, the last state is reported and every node has an address in the end.
BusSettles == ReportsSettle /\ AddressesSettle
=============================================================================
