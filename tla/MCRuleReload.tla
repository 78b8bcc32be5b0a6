--------------------------- MODULE MCRuleReload -----------------------------
(* Three uploads, two timer slots, one place for a reload in the queue.     *)
EXTENDS RuleReload
=============================================================================
