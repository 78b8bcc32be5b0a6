------------------------------ MODULE MCOutputs ------------------------------
(* Outputs for model checking: two outputs, the MQTT task and the web        *)
(* server, for every task that switches outputs.                           *)
EXTENDS Outputs

CONSTANTS mqtt, http

MCCallers == {mqtt, http}
MCStartInverts == {{}}
MCRequests == {[set |-> {1}, clear |-> {2}, toggle |-> {}], [set |-> {}, clear |-> {}, toggle |-> {1, 2}]}
=============================================================================
