------------------------------ MODULE MCStretch ------------------------------
(***************************************************************************)
(* Small instances of Stretch: the frame and the overlap of the code       *)
(* divided by 400, lengths from Shortest to Longest.                       *)
(***************************************************************************)
EXTENDS Stretch

CONSTANTS Shortest, Longest

MCLength == Shortest .. Longest

\* Inside, on and beyond both ends of the clamp, and no number at all.
MCRatio == {-100, 0, 50, 70, 100, 130, 200, 900, NaN}
==============================================================================
