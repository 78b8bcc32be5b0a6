---------------------------- MODULE MCServices ------------------------------
(* A session with few filters and little room, faults of each kind in a   *)
(* behaviour of its own, and the boards of MCConfigStore.                  *)
EXTENDS Services, MCConfigStore
S(n, d, f, r, l, topics) ==
    [subs |-> n, drops |-> d, refusals |-> f, reloads |-> r, late |-> l, reads |-> topics]
MCScenarios == {S(0, 0, 0, 0, 0, {}), S(4, 1, 0, 1, 0, {"f"}), S(4, 1, 1, 1, 0, {}), S(1, 0, 0, 2, 0, {"b", "f"}),
                S(4, 0, 0, 3, 1, {"b"}), S(4, 0, 1, 2, 0, {"b", "f"})}
=============================================================================
