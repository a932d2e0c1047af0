---------------------------- MODULE AudioHandoff ----------------------------
(***************************************************************************)
(* What a pair send_audio / recv_audio promises: the receiver is handed    *)
(* the left channel and then the right channel of the sender's buffer,     *)
(* each one whole and unchanged.                                           *)
(***************************************************************************)
EXTENDS Integers, Sequences

CONSTANT Buffers   \* the stereo buffers that may be sent

VARIABLES samples,     \* the sender's buffer
          delivered    \* the channels the receiver has, in order

handoffVars == <<samples, delivered>>

HandoffInit == samples \in Buffers /\ delivered = <<>>

Deliver ==
  /\ Len(delivered) < 2
  /\ delivered' = Append(delivered, samples[Len(delivered) + 1])
  /\ UNCHANGED samples

HandoffSpec == HandoffInit /\ [][Deliver]_handoffVars
==============================================================================
