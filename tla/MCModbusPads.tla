---------------------------- MODULE MCModbusPads ----------------------------
(* Header pads and the Modbus requests to them for model checking: two     *)
(* pads, two frequencies that need different resolutions, a configuration  *)
(* for each kind of change.                                                *)
EXTENDS ModbusPads

CONSTANTS tcp, rtu, http

MCBits == [f \in {1, 2} |-> f]
S(f, d) == [freq |-> f, duty |-> d]
C(m, s, i) == [mode |-> m, set |-> s, inv |-> i]
Pwm2 == <<C("pwm", S(1, 1), FALSE), C("pwm", S(1, 1), FALSE)>>
Mixed == <<C("pwm", S(2, 1), FALSE), C("output", S(1, 1), FALSE)>>
Reading == <<C("analog", S(1, 1), FALSE), C("output", S(1, 1), TRUE)>>
MCConfigs == {Pwm2, Mixed, Reading}
MCBoth == <<[freq |-> 2, duty |-> Keep], [freq |-> 2, duty |-> Keep]>>
MCOne == <<[freq |-> Keep, duty |-> 2], [freq |-> Keep, duty |-> Keep]>>
MCPwmWrites == {MCBoth, MCOne}
R(w, o, b) == [pwm |-> w, outs |-> o, on |-> o, base |-> b]
\* What meets in the code, two kinds of events at a time.
MCScenarios ==
    [start : {Pwm2}, kinds : {{"request"}}, max : {3}]
    \union [start : {Pwm2, Mixed}, max : {2},
             kinds : {{"request", "save"}, {"request", "session"}, {"request", "call"}}]
    \union [start : {Mixed, Reading}, max : {2}, kinds : {{"save", "session"}, {"call", "session"}}]
    \union [start : {Reading}, max : {2},
             kinds : {{"save", "refuse"}, {"volt", "refuse"}, {"volt", "session"}}]
\* For AnalogTold: IO1 leaves analog and comes back while the session changes.
MCAnalogScenarios == [start : {Reading}, kinds : {{"save", "session"}}, max : {4}]
MCRequests == {R(MCBoth, {}, 1), R(NoPwm, {}, 2), R(NoPwm, {2}, 1)}
=============================================================================
