----------------------------- MODULE AudioEditor -----------------------------
(***************************************************************************)
(* What the program promises its user: the open file changes only when the *)
(* user loads another one, or when a reversal the user asked for has       *)
(* finished, and then every channel of it is played backwards.  Nothing is *)
(* promised of the reversal of a channel that has no samples.              *)
(***************************************************************************)
EXTENDS Sequences, SequencesExt

CONSTANT Buffers    \* the stereo files that can be loaded

VARIABLES file,     \* the samples of the open file
          editor    \* "idle", "busy" with a reversal, or "closed"

editorVars == <<file, editor>>

EditorInit == file = <<<<>>, <<>>>> /\ editor = "idle"

LoadFile == editor = "idle" /\ file' \in Buffers /\ UNCHANGED editor

StartReverse == editor = "idle" /\ editor' = "busy" /\ UNCHANGED file

FinishReverse ==
  /\ editor = "busy" /\ editor' = "idle"
  /\ \A c \in 1 .. 2 : file[c] # <<>> => file'[c] = Reverse(file[c])

CloseEditor == editor # "closed" /\ editor' = "closed" /\ UNCHANGED file

ReopenEditor ==
  editor = "closed" /\ editor' = "idle" /\ file' = <<<<>>, <<>>>>

EditorNext ==
  LoadFile \/ StartReverse \/ FinishReverse \/ CloseEditor \/ ReopenEditor

EditorSpec == EditorInit /\ [][EditorNext]_editorVars
==============================================================================
