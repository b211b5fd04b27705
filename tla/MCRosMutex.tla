------------------------------ MODULE MCRosMutex ------------------------------
(***************************************************************************)
(* RosMutex with three tasks, of which two can wait for the third.         *)
(***************************************************************************)
EXTENDS RosMutex

CONSTANTS t1, t2, t3

MCTask == {t1, t2, t3}
=============================================================================
