-------------------------------- MODULE MCMmu --------------------------------
(***************************************************************************)
(* The LM32 that starts, the daemon of its log and mem-mon in a RAM that   *)
(* has room for the three areas, but not for every order of longer ones.   *)
(***************************************************************************)
EXTENDS Mmu, TLC

CONSTANTS lm32, logd, memmon

MCTag    == {1, 2, 3}   \* TAG_LM32_LOG, TAG_ADDAC_DAQ, TAG_MIL_DAQ
MCDaqTag == {2, 3}

Req(tag, len, create) == [tag |-> tag, len |-> len, create |-> create]

MCScript ==
  (lm32   :> <<Req(1, 2, TRUE), Req(2, 2, TRUE), Req(3, 1, TRUE)>>) @@
  (logd   :> <<Req(1, 3, TRUE)>>) @@
  (memmon :> <<Req(3, 1, FALSE), Req(2, 4, TRUE)>>)
=============================================================================
