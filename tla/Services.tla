------------------------------ MODULE Services -------------------------------
(***************************************************************************)
(* What is saved and what is subscribed, side by side: a board that has no *)
(* broker, and is configured, or one that has, and whose configuration     *)
(* stays.                                                                  *)
(***************************************************************************)
EXTENDS RuleTopics, ConfigStore

vars == <<topicVars, configVars>>

Init ==
    /\ TopicsInit /\ ConfigInit
    /\ Configured <=> cfgUsed.changes = {}

Next ==
    \/ TopicsNext /\ UNCHANGED configVars
    \/ ConfigNext /\ UNCHANGED topicVars

Spec == Init /\ [][Next]_vars /\ TopicTasks
=============================================================================
