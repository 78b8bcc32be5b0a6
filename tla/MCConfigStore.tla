---------------------------- MODULE MCConfigStore ----------------------------
(* Three outputs, relays 1 and 2 and pad 9, on a new board, and on boards  *)
(* an older firmware has configured.                                       *)
EXTENDS ConfigStore
MCNumberOf == [i \in {1, 2, 9} |-> CASE i = 1 -> "1" [] i = 2 -> "2" [] i = 9 -> "9"]
MCFresh == [opened |-> FALSE, keys |-> [k \in KeySet |-> Missing]]
\* As an older firmware left it
MCOld(di, dout, aux, modbus) ==
    [opened |-> TRUE, keys |-> [k \in KeySet |->
        CASE k = "di" -> di [] k = "dout" -> dout [] k = "auxOut" -> aux [] k = "modbus" -> modbus
          [] k = "led" -> "status" [] OTHER -> Missing]]
MCNamed == {MCOld(8, d, a, Missing) : d \in [{1, 2} -> Names], a \in [{9} -> Names]}
MCMaster == {MCOld(n, Missing, Missing, [ver |-> 0, enable |-> e, role |-> r, tcp |-> t, gateway |-> FALSE]) :
                n \in {8, 11}, e \in BOOLEAN, r \in {"slave", "master"}, t \in BOOLEAN}
C(stored, changes, names, saves, faults) ==
    [stored |-> stored, changes |-> changes, names |-> names, saves |-> saves, faults |-> faults]
MCConfigScenarios == {C({MCFresh}, {}, {}, 0, 0),
    C(MCNamed, {"dout"}, {"2", "a"}, 1, 1),
    C({MCFresh}, {"both", "eth"}, {"", "9", "a"}, 1, 2),
    C(MCMaster, {"modbus", "auxMode", "led"}, {}, 2, 2),
    C({MCFresh}, {"mbm"}, {}, 1, 1)}
=============================================================================
