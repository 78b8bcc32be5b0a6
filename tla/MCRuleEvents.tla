----------------------------- MODULE MCRuleEvents -----------------------------
(* Model checking of RuleEvents, and the mutated forms of its definitions. *)
EXTENDS RuleEvents
=============================================================================
