---------------------------- MODULE MCModbusCoils ----------------------------
(* Outputs and coils for model checking: two outputs, coil 1 written over  *)
(* Modbus, both switched by the MQTT task and the web server.              *)
EXTENDS ModbusCoils

CONSTANTS cmd, mqtt, http, tcp, rtu

MCCallers == {cmd, mqtt, http}
MCStartInverts == {{}}
MCClients == {tcp, rtu}
MCCoilWrites == {[mask |-> {1}, bits |-> {1}], [mask |-> {1}, bits |-> {}],
                 [mask |-> {1, 2}, bits |-> {2}]}
MCRequests ==
    {CoilRequest(w) : w \in MCCoilWrites}
    \union {[set |-> {}, clear |-> {}, toggle |-> {2}]}
=============================================================================
