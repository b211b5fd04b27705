------------------------------ MODULE DaqStream ------------------------------
(***************************************************************************)
(* What a DAQ ring in the DDR3-RAM promises to its client: items reach it  *)
(* in the order in which the firmware made them, each once, for as long as *)
(* the client keeps up.  Once the ring has overflowed nothing more is      *)
(* promised: the firmware then removes items to make place for new ones    *)
(* (scu_mil_fg_handler.c, lines 888-897; daq_ramBuffer_lm32.c, 227-234).   *)
(* An item is one of the MIL data in module MilDaqRing, and a block of the *)
(* ADDAC/ACU data in module SdaqRing; both rings with their handshake      *)
(* refine this one.                                                        *)
(***************************************************************************)
EXTENDS Naturals, Sequences

VARIABLES produced,   \* the number of items the firmware has published
          delivered,  \* the items that reached the client, in their order
          overflow    \* the firmware has had to remove an item

streamVars == <<produced, delivered, overflow>>

StreamInit == produced = 0 /\ delivered = << >> /\ overflow = FALSE

Produce ==
  /\ produced' = produced + 1
  /\ UNCHANGED <<delivered, overflow>>

\* The client gets the next items, at least one and at most all there are.
Deliver ==
  /\ ~overflow
  /\ \E n \in Len(delivered) + 1 .. produced :
        delivered' = delivered \o [i \in 1 .. n - Len(delivered) |-> Len(delivered) + i]
  /\ UNCHANGED <<produced, overflow>>

Overflow ==
  /\ overflow' = TRUE
  /\ UNCHANGED <<produced, delivered>>

DeliverAny ==
  /\ overflow
  /\ UNCHANGED <<produced, overflow>>

StreamNext == Produce \/ Deliver \/ Overflow \/ DeliverAny

StreamSpec == StreamInit /\ [][StreamNext]_streamVars
=============================================================================
