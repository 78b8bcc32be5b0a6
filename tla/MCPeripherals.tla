---------------------------- MODULE MCPeripherals ----------------------------
(* The parts for model checking.  A scenario bounds what happens outside.  *)
EXTENDS Peripherals
MCPrograms == {<<"red">>, <<"red", "white">>}
L(m, k, n) == [mode |-> m, kinds |-> k, max |-> n]
MCLedScenarios == {L("io", {}, 0),
   L("io", {"instant", "sequence"}, 3), L("io", {"instant", "sequence", "force"}, 2),
   L("status", {"network", "broker"}, 5), L("status", {"network", "portal"}, 3),
   L("status", {"network", "portal", "force"}, 3), L("status", {"network", "flash"}, 3)}
MCBeeps == {<<1>>, <<2, 1>>}
I(k, n) == [kinds |-> k, max |-> n]
MCInputScenarios == {I({}, 0),
   I({"pin", "session"}, 7), I({"pin", "pad"}, 4), I({"pad", "session"}, 4),
   I({"pin", "session", "read"}, 4)}
MCCanScenarios == {L("off", {}, 0),
   L("basic", {"input", "request"}, 3), L("basic", {"output", "write", "hb"}, 2),
   L("n2k", {"input", "output"}, 3), L("basic", {"input", "fault"}, 2),
   L("n2k", {"output", "request", "period"}, 2)}
MCNames == [b \in 1 .. 3 |-> IF b = 1 THEN 1 ELSE 2]
MCPreferred == [b \in 1 .. 3 |-> 250]
MCClaimScenarios == {[boards |-> {}, requests |-> 0], [boards |-> 1 .. 3, requests |-> 0], [boards |-> {2, 3}, requests |-> 1]}
MCGwScenarios == {[requests |-> 0, poll |-> 0], [requests |-> 3, poll |-> 1],
   [requests |-> 2, poll |-> 2]}
=============================================================================
