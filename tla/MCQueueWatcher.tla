---------------------------- MODULE MCQueueWatcher ----------------------------
(***************************************************************************)
(* QueueWatcher with two queues and the ECA events.                        *)
(***************************************************************************)
EXTENDS QueueWatcher

CONSTANTS g_queueFg, g_queueMilFg, g_ecaEvent

MCQueue == {g_queueFg, g_queueMilFg}
MCEvent == {g_ecaEvent}
=============================================================================
