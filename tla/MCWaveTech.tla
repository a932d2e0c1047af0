----------------------------- MODULE MCWaveTech -----------------------------
(***************************************************************************)
(* Small instances of WaveTech: the user may load a stereo file of each of *)
(* the lengths in Lengths; all samples are distinct.                       *)
(***************************************************************************)
EXTENDS WaveTech

CONSTANT Lengths

Left == <<"L1", "L2", "L3", "L4", "L5">>
Right == <<"R1", "R2", "R3", "R4", "R5">>

MCSample == {Left[i] : i \in DOMAIN Left} \cup {Right[i] : i \in DOMAIN Right}

MCBuffers ==
  {<<SubSeq(Left, 1, n), SubSeq(Right, 1, n)>> : n \in Lengths}
==============================================================================
