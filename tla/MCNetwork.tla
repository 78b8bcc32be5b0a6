------------------------------ MODULE MCNetwork ------------------------------
(* Network, for TLC; the bound is given in the configurations.                *)
EXTENDS Network
=============================================================================
