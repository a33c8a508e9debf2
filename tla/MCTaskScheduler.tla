--------------------------- MODULE MCTaskScheduler ---------------------------
(* Instances of the scheduler for TLC.                                     *)
EXTENDS SchedulerProperties

CONSTANTS a, b, c, d

(* a and b are due together and differ in priority; c, which the callback  *)
(* of a adds, is due as soon as it is added, before or after b runs; d is  *)
(* due later, so that a timer is armed more than once.                     *)
MCExecuteAt == [t \in Tasks |-> IF t = c THEN 0 ELSE IF t = d THEN 2 ELSE 1]
MCPriority == [t \in Tasks |-> IF t = a THEN 0 ELSE 1]
MCParent == [t \in Tasks |-> IF t = c THEN a ELSE None]
=============================================================================
