------------------------------ MODULE MCSwQueue ------------------------------
(***************************************************************************)
(* SwQueue on a queue of three cells placed one cell into its buffer: large *)
(* enough for a wrapped content that has a hole, for every read position    *)
(* of a full queue and for the invalid write index.                         *)
(***************************************************************************)
EXTENDS SwQueue

CONSTANTS a, b, c

MCItem == {a, b, c}
=============================================================================
