------------------------------- MODULE MCPipe -------------------------------
(***************************************************************************)
(* Small instances of Pipe: every stereo file of the lengths in Lengths,   *)
(* all samples distinct.                                                   *)
(***************************************************************************)
EXTENDS Pipe

CONSTANT Lengths

Left == <<"L1", "L2", "L3", "L4", "L5", "L6", "L7", "L8", "L9", "L10">>
Right == <<"R1", "R2", "R3", "R4", "R5", "R6", "R7", "R8", "R9", "R10">>

MCSample == {Left[i] : i \in DOMAIN Left} \cup {Right[i] : i \in DOMAIN Right}

MCBuffers ==
  {<<SubSeq(Left, 1, n), SubSeq(Right, 1, n)>> : n \in Lengths}
==============================================================================
