-------------------------- MODULE MCMutexScheduling --------------------------
(* The main task, and the task of the ADDAC function generators that an      *)
(* interrupt wakes.                                                          *)
EXTENDS MutexScheduling

CONSTANTS taskMain, taskFg

MCTask     == {taskMain, taskFg}
MCSleeper  == {taskFg}
MCPriority == [t \in MCTask |-> IF t = taskFg THEN 3 ELSE 1]
=============================================================================
