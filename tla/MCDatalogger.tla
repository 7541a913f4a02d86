---------------------------- MODULE MCDatalogger ----------------------------
(* Instances of Datalogger for TLC. *)
EXTENDS Datalogger

\* a tick is 60 s
MCPeriod == [x \in Timers |-> IF x = "heartbeat" THEN 2 ELSE 1]
=============================================================================
