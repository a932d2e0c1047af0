-------------------------------- MODULE MCGui --------------------------------
(***************************************************************************)
(* Small instances of Gui: two stereo files, a mono file, and a name that  *)
(* is not taken yet; the user types the names in Names.                    *)
(***************************************************************************)
EXTENDS Gui

CONSTANT Names

Recording(t, n) == [take |-> t, channels |-> n, backwards |-> FALSE]

Stored ==
  [a |-> Recording("A", 2), b |-> Recording("B", 2),
   mono |-> Recording("M", 1), new |-> NoFile]

MCStartDisk == [p \in Names |-> Stored[p]]
==============================================================================
