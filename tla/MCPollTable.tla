---------------------------- MODULE MCPollTable -----------------------------
(* A small poll table for TLC: two rows, of which the first table enables one,
   and a cache of one connection for two devices.                            *)
EXTENDS PollTable
CONSTANTS meter, pump
MCRows   == 1..2
MCTables == << <<Unused, Unused>>, <<meter, pump>>, <<Segment, meter>> >>
=============================================================================
