----------------------------- MODULE MCTcpServer -----------------------------
(* TcpServer with two slots for three clients one of which may be slow, and *)
(* one worker, for TLC.                                                       *)
EXTENDS TcpServer

CONSTANT w1

MCConns == 1 .. 3
MCSlow == {1}
MCSlots == 0 .. 1
MCWorkers == {w1}
=============================================================================
