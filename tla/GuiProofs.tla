------------------------------ MODULE GuiProofs ------------------------------
(***************************************************************************)
(* Proofs about Gui, for every set of paths and recordings, every disk and *)
(* every user.                                                             *)
(***************************************************************************)
EXTENDS Gui, TLAPS

(***************************************************************************)
(* Operators                                                               *)
(***************************************************************************)

\* The menu functions only ever ask set_current_menu for a menu that is there,
\* so its loose clamp does no harm.
LEMMA MenuOfType ==
  ASSUME NEW f \in Navigation
  PROVE  MenuOf(f) \in 0 .. num_menus - 1
<1>1. num_menus = 3
  BY DEF num_menus, Menus
<1> QED  BY <1>1 DEF Navigation, MenuOf, Clamped

\* Reversing keeps the channels.
LEMMA ReversedType ==
  ASSUME NEW a \in Audio
  PROVE  /\ Reversed(a).channels = a.channels
         /\ a # Blank => Reversed(a) \in Audio
BY DEF Reversed, Audio, Blank

(***************************************************************************)
(* The invariant                                                           *)
(***************************************************************************)

\* Only the samples of a load that ended are sent to be reversed.  A new
\* AudioFile has no recording that could be reversed, so TypeOK needs this.
ReverseLoaded == at = "reversing" => loaded

\* The inductive invariant.
GuiInv == TypeOK /\ LoadedIsStereo /\ ReverseLoaded

\* What an answer at a prompt for a number leaves.
LEMMA ReadIntType ==
  ASSUME NEW choice \in Number, ReadInt(choice)
  PROVE  /\ fresh' \in BOOLEAN
         /\ answer' \in Number \cup {NotANumber, EndOfInput}
BY DEF ReadInt

\* A menu function that is chosen reads an answer at a menu.
LEMMA ChosenType ==
  ASSUME NEW f, Chosen(f)
  PROVE  /\ at = "menu"
         /\ fresh' \in BOOLEAN
         /\ answer' \in Number \cup {NotANumber, EndOfInput}
BY ReadIntType DEF Chosen

\* A program that starts has no file, and claims none.
LEMMA GuiInit == Init => GuiInv
<1> SUFFICES ASSUME Init PROVE GuiInv
  OBVIOUS
<1>1. num_menus = 3
  BY DEF num_menus, Menus
<1>2. Blank \in Audio
  BY DEF Audio
<1>3. /\ alias \in [path : Path \cup {"", "No file loaded"}, star : BOOLEAN]
      /\ opened \in [path : Path \cup {""}, audio : Audio]
  BY <1>2 DEF Init
<1>4. disk \in [Path -> Content]
  BY GuiAssumption, Zenon DEF Init
<1>5. at \in Prompt /\ current_menu \in 0 .. num_menus - 1
  <2>1. at = "menu" /\ current_menu = 0
    BY Zenon DEF Init
  <2> QED  BY <1>1, <2>1 DEF Prompt
<1>6. /\ file \in Audio
      /\ loaded \in BOOLEAN /\ fresh \in BOOLEAN
      /\ answer \in Number \cup {NotANumber, EndOfInput}
      /\ path \in Path \cup {""}
  BY <1>2, Zenon DEF Init
<1>7. TypeOK
  BY <1>3, <1>4, <1>5, <1>6 DEF TypeOK
<1> QED  BY <1>7 DEF Init, GuiInv, LoadedIsStereo, ReverseLoaded

\* Every step of the program, of its user and of other programs keeps it.
LEMMA GuiNext == GuiInv /\ [Next]_vars => GuiInv'
<1> SUFFICES ASSUME GuiInv, [Next]_vars PROVE GuiInv'
  OBVIOUS
<1> USE DEF GuiInv
<1>1. ASSUME Discard PROVE GuiInv'
  BY <1>1 DEF Discard, TypeOK, LoadedIsStereo, ReverseLoaded
<1>2. ASSUME ReadUnset PROVE GuiInv'
  BY <1>2 DEF ReadUnset, TypeOK, LoadedIsStereo, ReverseLoaded
<1>3. ASSUME NEW n, AskAgain(n) PROVE GuiInv'
  <2>1. /\ fresh' \in BOOLEAN
        /\ answer' \in Number \cup {NotANumber, EndOfInput}
    BY <1>3, ReadIntType DEF AskAgain
  <2> QED  BY <1>3, <2>1 DEF AskAgain, TypeOK, LoadedIsStereo, ReverseLoaded
<1>4. ASSUME NEW f \in Navigation, Navigate(f) PROVE GuiInv'
  BY <1>4, ChosenType, MenuOfType
    DEF Navigate, TypeOK, LoadedIsStereo, ReverseLoaded
<1>5. ASSUME ExitProgram PROVE GuiInv'
  BY <1>5, ChosenType DEF ExitProgram, TypeOK, LoadedIsStereo, ReverseLoaded
<1>6. ASSUME StretchOrRepitch PROVE GuiInv'
  BY <1>6, ChosenType
    DEF StretchOrRepitch, TypeOK, LoadedIsStereo, ReverseLoaded, Prompt
<1>7. ASSUME StartReverse PROVE GuiInv'
  BY <1>7, ChosenType
    DEF StartReverse, TypeOK, LoadedIsStereo, ReverseLoaded, Prompt
<1>8. ASSUME FinishReverse PROVE GuiInv'
  <2>1. file \in Audio /\ file # Blank /\ file.channels = 2
    <3>1. at = "reversing" /\ file \in Audio
      BY <1>8 DEF FinishReverse, TypeOK
    <3>2. file.channels = 2
      BY <3>1 DEF LoadedIsStereo, ReverseLoaded
    <3>3. Blank.channels = 1
      BY DEF Blank
    <3> QED  BY <3>1, <3>2, <3>3
  <2>2. file' \in Audio /\ file'.channels = 2
    BY <1>8, <2>1, ReversedType DEF FinishReverse
  <2>3. alias' \in [path : Path \cup {"", "No file loaded"}, star : BOOLEAN]
    BY <1>8 DEF FinishReverse, TypeOK
  <2>4. at' \in {"menu", "crashed"}
    BY <1>8 DEF FinishReverse
  <2> QED  BY <1>8, <2>2, <2>3, <2>4
             DEF FinishReverse, TypeOK, LoadedIsStereo, ReverseLoaded, Prompt
<1>9. ASSUME LoseDsp PROVE GuiInv'
  BY <1>9 DEF LoseDsp, TypeOK, LoadedIsStereo, ReverseLoaded
<1>10. ASSUME NEW f, NEW prompt \in {"load", "save"}, AskPath(f, prompt)
       PROVE  GuiInv'
  BY <1>10, ChosenType
    DEF AskPath, TypeOK, LoadedIsStereo, ReverseLoaded, Prompt
<1>11. ASSUME NEW p \in Path \cup {""}, LoadPath(p) PROVE GuiInv'
  <2>1. file' \in Audio /\ opened' \in [path : Path \cup {""}, audio : Audio]
    BY <1>11 DEF LoadPath, AfterLoad, TypeOK
  <2>2. fresh' \in BOOLEAN
    BY <1>11 DEF LoadPath, ReadStr
  <2>3. CASE file'.channels = 2
    <3>1. at' = "menu" /\ loaded' = TRUE /\ alias' = [path |-> p, star |-> FALSE]
      BY <1>11, <2>3 DEF LoadPath
    <3>2. alias' \in [path : Path \cup {"", "No file loaded"}, star : BOOLEAN]
      BY <3>1
    <3>3. UNCHANGED <<current_menu, answer, path, disk>>
      BY <1>11 DEF LoadPath
    <3> QED  BY <2>1, <2>2, <2>3, <3>1, <3>2, <3>3
               DEF TypeOK, LoadedIsStereo, ReverseLoaded, Prompt
  <2>4. CASE file'.channels # 2
    BY <1>11, <2>1, <2>2, <2>4
      DEF LoadPath, TypeOK, LoadedIsStereo, ReverseLoaded, Prompt
  <2> QED  BY <2>3, <2>4
<1>12. ASSUME NEW p \in Path \cup {""}, SavePath(p) PROVE GuiInv'
  <2>1. fresh' \in BOOLEAN
    BY <1>12 DEF SavePath, ReadStr
  <2> QED  BY <1>12, <2>1
             DEF SavePath, TypeOK, LoadedIsStereo, ReverseLoaded, Prompt
<1>13. ASSUME Save PROVE disk' \in [Path -> Content]
  BY <1>13 DEF Save, TypeOK, Content
<1>14. ASSUME WriteNew PROVE GuiInv'
  BY <1>13, <1>14
    DEF WriteNew, TypeOK, LoadedIsStereo, ReverseLoaded, Prompt
<1>15. ASSUME Overwrite PROVE GuiInv'
  <2>1. /\ fresh' \in BOOLEAN
        /\ answer' \in Number \cup {NotANumber, EndOfInput}
    BY <1>15, ReadIntType DEF Overwrite, Number
  <2>2. disk' \in [Path -> Content]
    BY <1>13, <1>15 DEF Overwrite, TypeOK
  <2> QED  BY <1>15, <2>1, <2>2
             DEF Overwrite, TypeOK, LoadedIsStereo, ReverseLoaded, Prompt
<1>16. ASSUME NEW p \in Path, OtherCreates(p) PROVE GuiInv'
  BY <1>16 DEF OtherCreates, TypeOK, LoadedIsStereo, ReverseLoaded, Content
<1>17. CASE UNCHANGED vars
  BY <1>17 DEF vars, TypeOK, LoadedIsStereo, ReverseLoaded
<1> QED
  BY <1>1, <1>2, <1>3, <1>4, <1>5, <1>6, <1>7, <1>8, <1>9, <1>10, <1>11,
     <1>12, <1>14, <1>15, <1>16, <1>17
  DEF Next, ChooseAgain, OverwriteAgain

\* The invariant holds in every session.
LEMMA SpecGui == Spec => []GuiInv
BY GuiInit, GuiNext, PTL DEF Spec

\* Whatever is typed, and even when the input ends: the menu index of
\* Gui::execute is good although set_current_menu would let a bad one through,
\* and the program always holds well-formed audio.
THEOREM GuiTypeCorrect == Spec => []TypeOK
BY SpecGui, PTL DEF GuiInv

\* load_audio_file is left with a stereo file only, whatever paths were tried
\* in it and whatever other programs do to the files: send_audio finds the two
\* channels it reads.
THEOREM StereoWhenLoaded == Spec => []LoadedIsStereo
BY SpecGui, PTL DEF GuiInv

(***************************************************************************)
(* The header                                                              *)
(***************************************************************************)

\* HeaderTruthful, made inductive: from the end of one load to the next, in
\* every prompt and call.
HeaderInv ==
  (loaded /\ at \notin {"load", "crashed"} /\ alias.path # "") =>
    /\ alias.path = opened.path
    /\ alias.star \/ file = opened.audio

\* With a user who does not type the names of unreadable files while a stereo
\* file is open, a file that the header names is the one the samples are from.
THEOREM HeaderTellsTheTruth ==
  ASSUME Careful
  PROVE  Spec => []HeaderTruthful
<1>1. Init => HeaderInv
  BY DEF Init, HeaderInv
<1>2. GuiInv /\ HeaderInv /\ [Next]_vars => HeaderInv'
  <2> SUFFICES ASSUME GuiInv, HeaderInv, [Next]_vars PROVE HeaderInv'
    OBVIOUS
  <2>1. ASSUME UNCHANGED <<file, loaded, alias, opened>>,
               at \notin {"load", "crashed"} \/ at' \in {"load", "crashed"}
        PROVE  HeaderInv'
    BY <2>1 DEF HeaderInv
  <2>2. CASE Discard \/ ReadUnset
    BY <2>1, <2>2 DEF Discard, ReadUnset, Prompt
  <2>3. CASE ChooseAgain \/ OverwriteAgain
    BY <2>1, <2>3 DEF ChooseAgain, OverwriteAgain, AskAgain
  <2>4. ASSUME NEW f, Navigate(f) PROVE HeaderInv'
    BY <2>1, <2>4, ChosenType DEF Navigate
  <2>5. CASE ExitProgram \/ StretchOrRepitch \/ StartReverse
    BY <2>1, <2>5, ChosenType DEF ExitProgram, StretchOrRepitch, StartReverse
  <2>6. CASE FinishReverse
    <3>1. at' = "menu" => alias' = [alias EXCEPT !.star = TRUE]
      BY <2>6 DEF FinishReverse
    <3>2. at' = "menu" => alias'.path = alias.path /\ alias'.star = TRUE
      BY <3>1 DEF GuiInv, TypeOK
    <3>3. at' \in {"menu", "crashed"} /\ opened' = opened /\ loaded' = loaded
      BY <2>6 DEF FinishReverse
    <3>4. at = "reversing"
      BY <2>6 DEF FinishReverse
    <3>5. loaded /\ alias.path # "" => alias.path = opened.path
      BY <3>4, Zenon DEF HeaderInv
    <3>6. at' = "menu" /\ loaded' /\ alias'.path # "" =>
            alias'.path = opened'.path /\ alias'.star
      BY <3>2, <3>3, <3>5, Zenon
    <3> QED  BY <3>3, <3>6, Zenon DEF HeaderInv
  <2>7. CASE LoseDsp
    BY <2>1, <2>7 DEF LoseDsp
  <2>8. ASSUME NEW f, NEW prompt, AskPath(f, prompt) PROVE HeaderInv'
    BY <2>1, <2>8, ChosenType DEF AskPath
  <2>9. ASSUME NEW p, LoadPath(p) PROVE HeaderInv'
    <3>1. CASE On(p) \in Audio
      <4>1. file' = On(p) /\ opened' = [path |-> p, audio |-> On(p)]
        BY <2>9, <3>1 DEF LoadPath, AfterLoad
      <4>2. CASE file'.channels = 2
        <5>1. alias' = [path |-> p, star |-> FALSE]
          BY <2>9, <4>2 DEF LoadPath
        <5>2. alias'.path = p
          BY <5>1
        <5>3. opened'.path = p /\ opened'.audio = file'
          BY <4>1
        <5> QED  BY <5>2, <5>3, Zenon DEF HeaderInv
      <4>3. CASE file'.channels # 2
        BY <2>9, <4>3 DEF LoadPath, HeaderInv
      <4> QED  BY <4>2, <4>3
    <3>2. CASE On(p) \notin Audio
      <4>1. CASE file'.channels # 2
        BY <2>9, <4>1 DEF LoadPath, HeaderInv
      <4>2. CASE file'.channels = 2
        <5>1. p = "" /\ alias' = [path |-> p, star |-> FALSE]
          BY <2>9, <3>2, <4>2 DEF LoadPath, AfterLoad
        <5>2. alias'.path = ""
          BY <5>1
        <5> QED  BY <5>2, Zenon DEF HeaderInv
      <4> QED  BY <4>1, <4>2
    <3> QED  BY <3>1, <3>2
  <2>10. ASSUME NEW p, SavePath(p) PROVE HeaderInv'
    BY <2>1, <2>10 DEF SavePath
  <2>11. CASE WriteNew \/ Overwrite
    BY <2>1, <2>11 DEF WriteNew, Overwrite
  <2>12. ASSUME NEW p, OtherCreates(p) PROVE HeaderInv'
    BY <2>12 DEF OtherCreates, HeaderInv
  <2>13. CASE UNCHANGED vars
    BY <2>13 DEF vars, HeaderInv
  <2> QED
    BY <2>2, <2>3, <2>4, <2>5, <2>6, <2>7, <2>8, <2>9, <2>10, <2>11, <2>12,
       <2>13
    DEF Next
<1>3. HeaderInv => HeaderTruthful
  BY DEF HeaderInv, HeaderTruthful
<1> QED  BY <1>1, <1>2, <1>3, SpecGui, PTL DEF Spec

(***************************************************************************)
(* Files on disk                                                           *)
(***************************************************************************)

\* Between the look at the path and the save, the path stays free.
FreeToWrite == (at = "write" /\ path \in Path) => disk[path] = NoFile

\* A file that exists is replaced only by the open samples and after the
\* question about it, provided no other program creates a file between the
\* look of save_audio_file at the path and the save (line 309 of Gui.hpp).
THEOREM OverwriteIsAsked ==
  ASSUME "write" \notin Others
  PROVE  Spec => OverwriteAsked
<1>1. Init => FreeToWrite
  BY DEF Init, FreeToWrite
<1>2. GuiInv /\ FreeToWrite /\ [Next]_vars => FreeToWrite'
  <2> SUFFICES ASSUME GuiInv, FreeToWrite, [Next]_vars PROVE FreeToWrite'
    OBVIOUS
  <2>1. CASE at' # "write"
    BY <2>1 DEF FreeToWrite
  <2>2. ASSUME NEW p \in Path \cup {""}, SavePath(p) PROVE FreeToWrite'
    BY <2>2 DEF SavePath, FreeToWrite, On
  <2>3. CASE UNCHANGED vars
    BY <2>3 DEF vars, FreeToWrite
  <2>4. ASSUME at' = "write", Next
        PROVE  \E p \in Path \cup {""} : SavePath(p)
    BY <2>4, ChosenType, Zenon
      DEF Next, Discard, ReadUnset, ChooseAgain, AskAgain, Navigate,
          ExitProgram, StretchOrRepitch, StartReverse, FinishReverse, LoseDsp,
          AskPath, LoadPath, WriteNew, Overwrite, OverwriteAgain,
          OtherCreates, Prompt
  <2> QED  BY <2>1, <2>2, <2>3, <2>4
<1>3. FreeToWrite /\ GuiInv /\ [Next]_vars =>
        [\A p \in Path :
           (disk[p] # NoFile /\ disk'[p] # disk[p]) =>
             /\ at = "overwrite" /\ path = p /\ answer' \in {1, EndOfInput}
             /\ disk'[p] = file]_vars
  <2> SUFFICES ASSUME FreeToWrite, GuiInv, [Next]_vars,
                      NEW p \in Path, disk[p] # NoFile, disk'[p] # disk[p]
               PROVE  /\ at = "overwrite" /\ path = p
                      /\ answer' \in {1, EndOfInput}
                      /\ disk'[p] = file
    OBVIOUS
  <2>1. WriteNew \/ Overwrite \/ \E q \in Path : OtherCreates(q)
    BY DEF Next, vars, Discard, ReadUnset, ChooseAgain, AskAgain, Navigate,
           ExitProgram, StretchOrRepitch, StartReverse, FinishReverse,
           LoseDsp, AskPath, LoadPath, SavePath, OverwriteAgain
  <2>2. CASE WriteNew
    BY <2>2 DEF WriteNew, Save, FreeToWrite, GuiInv, TypeOK
  <2>3. CASE Overwrite
    <3>1. ReadInt(1) /\ Save
      BY <2>3 DEF Overwrite
    <3>2. answer' \in {1, EndOfInput}
      BY <3>1 DEF ReadInt
    <3>3. path = p /\ disk'[p] = file
      BY <3>1 DEF Save, GuiInv, TypeOK
    <3> QED  BY <2>3, <3>2, <3>3 DEF Overwrite
  <2>4. ASSUME NEW q \in Path, OtherCreates(q) PROVE FALSE
    BY <2>4 DEF OtherCreates, GuiInv, TypeOK
  <2> QED  BY <2>1, <2>2, <2>3, <2>4
<1> QED  BY <1>1, <1>2, <1>3, SpecGui, PTL DEF Spec, OverwriteAsked
==============================================================================
