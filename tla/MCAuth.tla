------------------------------- MODULE MCAuth -------------------------------
(* Auth for model checking: two passwords, an old blob in the flash.       *)
EXTENDS Auth

CONSTANTS pw1, pw2

MCPasswords == {pw1, pw2}
MCStartCreds == {[pw |-> NoPassword, old |-> FALSE], [pw |-> pw1, old |-> TRUE]}
=============================================================================
