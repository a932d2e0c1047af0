--------------------------------- MODULE Gui ---------------------------------
(***************************************************************************)
(* gui.exe as its user sees it: the menus, the console, the open file and  *)
(* the files on disk.  What the dsp does for a reversal is taken from its  *)
(* promise (AudioEditor): the audio comes back reversed, or the connection *)
(* is lost and the program ends, since nothing catches the exception.      *)
(*                                                                         *)
(* Console.  get_int_from_user and get_str_from_user first discard the     *)
(* rest of the line that was read last, and then read one word.  When no   *)
(* such line is there (fresh), the discard waits for a line and throws it  *)
(* away whole.                                                             *)
(***************************************************************************)
EXTENDS Integers, Sequences, TLC

CONSTANTS
  Path,        \* the file names the user types, without spaces
  Take,        \* recordings: what the samples of a file are
  StartDisk,   \* the files that exist when the program starts
  NoFile,      \* there is no such file
  NotAudio,    \* a file that AudioFile cannot read
  NotANumber,  \* a line that does not start with a number
  EndOfInput,  \* the input ends, as with Ctrl+Z
  InputEnds,   \* may the input end?
  Careful,     \* does the user, once a stereo file is open, type only names
               \* of files that AudioFile can read?
  Others       \* the prompts and calls during which other programs may
               \* create files

\* The samples of a file: whose they are, their channels, and whether they
\* have been reversed.  Blank is a new AudioFile, with no samples.
Blank == [take |-> "none", channels |-> 1, backwards |-> FALSE]
Audio == [take : Take, channels : 1 .. 2, backwards : BOOLEAN] \cup {Blank}
Content == Audio \cup {NoFile, NotAudio}

ASSUME GuiAssumption ==
  /\ "" \notin Path
  /\ "none" \notin Take
  /\ StartDisk \in [Path -> Content]
  /\ {InputEnds, Careful} \subseteq BOOLEAN

VARIABLES
  at,            \* the prompt or call the program is in
  current_menu,
  file,          \* samples of the AudioFile
  loaded,        \* file_loaded_status
  alias,         \* filename_display_alias: a path, and a star once edited
  fresh,         \* no line is left over on the console
  answer,        \* the last line typed at a prompt for a number
  path,          \* the path save_audio_file was given
  disk,          \* what every path holds
  opened         \* the last file that was really read: its path and samples

vars == <<at, current_menu, file, loaded, alias, fresh, answer, path, disk,
          opened>>

Number == 0 .. 4    \* 4 is in no menu: it stands for every other number

Prompt == {"menu", "load", "save", "overwrite"}

-----------------------------------------------------------------------------
(***************************************************************************)
(* create_wavetech_gui: the functions of the three menus.                  *)
(***************************************************************************)
Menus == <<
  <<"main_menu_exit_program", "main_menu_file_options",
    "main_menu_audio_effects">>,
  <<"file_options_main_menu", "file_options_load_file",
    "file_options_save_file">>,
  <<"audio_effects_main_menu", "audio_effects_reverse",
    "audio_effects_stretch", "audio_effects_repitch">> >>

num_menus == Len(Menus)

\* set_current_menu: its clamp lets num_menus itself through.
Clamped(n) == IF n > num_menus THEN num_menus ELSE IF n < 0 THEN 0 ELSE n

MenuOfFromOne(function) == \* mutant: the menus counted from 1
  CASE function = "main_menu_file_options"  -> Clamped(2)
    [] function = "main_menu_audio_effects" -> Clamped(3)
    [] OTHER                                -> Clamped(0)

\* The menu a navigation function makes current.
MenuOf(function) ==
  CASE function = "main_menu_file_options"  -> Clamped(1)
    [] function = "main_menu_audio_effects" -> Clamped(2)
    [] OTHER                                -> Clamped(0)

Navigation ==
  {"main_menu_file_options", "main_menu_audio_effects",
   "file_options_main_menu", "audio_effects_main_menu"}

-----------------------------------------------------------------------------
(***************************************************************************)
(* The console                                                             *)
(***************************************************************************)

\* The first half of both input functions, when no line is left over.
Discard ==
  /\ at \in Prompt /\ fresh
  /\ fresh' = FALSE
  /\ UNCHANGED <<at, current_menu, file, loaded, alias, answer, path, disk,
                 opened>>

\* std::cin >> choice.  A line that is no number sets choice to 0.  At the
\* end of the input choice keeps what was on the stack.
ReadInt(choice) ==
  \/ /\ ~fresh /\ fresh' = FALSE
     /\ \/ answer' \in Number /\ choice = answer'
        \/ answer' = NotANumber /\ choice = 0
  \/ /\ InputEnds /\ fresh' = TRUE
     /\ answer' = EndOfInput

\* A build with run-time checks stops when it reads that choice.
ReadUnset ==
  /\ at \in {"menu", "overwrite"} /\ InputEnds
  /\ at' = "crashed" /\ fresh' = TRUE /\ answer' = EndOfInput
  /\ UNCHANGED <<current_menu, file, loaded, alias, path, disk, opened>>

\* std::cin >> user_input: one word, or nothing at the end of the input.
ReadStr(word) ==
  \/ ~fresh /\ fresh' = FALSE /\ word \in Path
  \/ InputEnds /\ fresh' = TRUE /\ word = ""

\* Out of bounds: get_int_from_user calls itself.
AskAgain(upperbound) ==
  /\ \E choice \in Number : choice > upperbound /\ ReadInt(choice)
  /\ UNCHANGED <<at, current_menu, file, loaded, alias, path, disk, opened>>

-----------------------------------------------------------------------------
(***************************************************************************)
(* Menu functions                                                          *)
(***************************************************************************)
Options == Menus[current_menu + 1]

\* Gui::execute with an answer that is in bounds.
Chosen(function) ==
  /\ at = "menu"
  /\ \E choice \in Number :
       /\ choice < Len(Options)
       /\ Options[choice + 1] = function
       /\ ReadInt(choice)

ChooseAgain == at = "menu" /\ AskAgain(Len(Options) - 1)

Navigate(function) ==
  /\ Chosen(function)
  /\ current_menu' = MenuOf(function)
  /\ UNCHANGED <<at, file, loaded, alias, path, disk, opened>>

\* send_message("exit") throws when the dsp is gone.
ExitProgram ==
  /\ Chosen("main_menu_exit_program")
  /\ at' \in {"exited", "crashed"}
  /\ UNCHANGED <<current_menu, file, loaded, alias, path, disk, opened>>

\* Stretch and repitch only send a message.
StretchOrRepitch ==
  /\ Chosen("audio_effects_stretch") \/ Chosen("audio_effects_repitch")
  /\ at' \in {"menu", "crashed"}
  /\ UNCHANGED <<current_menu, file, loaded, alias, path, disk, opened>>

StartReverse ==
  /\ Chosen("audio_effects_reverse")
  /\ at' = IF loaded THEN "reversing" ELSE "menu"
  /\ UNCHANGED <<current_menu, file, loaded, alias, path, disk, opened>>

Reversed(audio) == [audio EXCEPT !.backwards = ~@]

FinishReverseNoStar == \* mutant
  /\ at = "reversing"
  /\ file' = Reversed(file)
  /\ at' = "menu"
  /\ UNCHANGED <<current_menu, loaded, alias, fresh, answer, path, disk, opened>>

\* The audio is back and the alias gets its star.  Looking for one at
\* alias.length()-1 throws when the alias is empty.
FinishReverse ==
  /\ at = "reversing"
  /\ file' = Reversed(file)
  /\ IF alias = [path |-> "", star |-> FALSE]
     THEN at' = "crashed" /\ UNCHANGED alias
     ELSE at' = "menu" /\ alias' = [alias EXCEPT !.star = TRUE]
  /\ UNCHANGED <<current_menu, loaded, fresh, answer, path, disk, opened>>

LoseDsp ==
  /\ at = "reversing" /\ at' = "crashed"
  /\ UNCHANGED <<current_menu, file, loaded, alias, fresh, answer, path, disk,
                 opened>>

-----------------------------------------------------------------------------
(***************************************************************************)
(* Files                                                                   *)
(***************************************************************************)
On(p) == IF p \in Path THEN disk[p] ELSE NoFile

AskPath(function, prompt) ==
  /\ Chosen(function)
  /\ at' = prompt
  /\ UNCHANGED <<current_menu, file, loaded, alias, path, disk, opened>>

\* AudioFile::load: a file that cannot be read leaves the samples alone.
AfterLoad(p) == IF On(p) \in Audio THEN On(p) ELSE file

LoadPathAny(p) == \* mutant: the number of channels is not looked at
  /\ at = "load"
  /\ ReadStr(p)
  /\ Careful => p = "" \/ On(p) \in Audio \/ file.channels # 2
  /\ file' = AfterLoad(p)
  /\ opened' = IF On(p) \in Audio THEN [path |-> p, audio |-> On(p)] ELSE opened
  /\ at' = "menu"
  /\ alias' = [path |-> p, star |-> FALSE]
  /\ loaded' = TRUE
  /\ UNCHANGED <<current_menu, answer, path, disk>>

\* One iteration of load_audio_file.  The result of load is not looked at:
\* two channels count as success, whichever file they are from.
LoadPath(p) ==
  /\ at = "load"
  /\ ReadStr(p)
  /\ Careful => p = "" \/ On(p) \in Audio \/ file.channels # 2
  /\ file' = AfterLoad(p)
  /\ opened' = IF On(p) \in Audio THEN [path |-> p, audio |-> On(p)] ELSE opened
  /\ IF file'.channels = 2
     THEN /\ at' = "menu"
          /\ alias' = [path |-> p, star |-> FALSE]
          /\ loaded' = TRUE
     ELSE UNCHANGED <<at, alias, loaded>>
  /\ UNCHANGED <<current_menu, answer, path, disk>>

SavePathUnchecked(p) == \* mutant: no look at what is there
  /\ at = "save"
  /\ ReadStr(p)
  /\ path' = p
  /\ at' = "write"
  /\ UNCHANGED <<current_menu, file, loaded, alias, answer, disk, opened>>

\* save_audio_file up to its look at file_check.
SavePath(p) ==
  /\ at = "save"
  /\ ReadStr(p)
  /\ path' = p
  /\ at' = IF On(p) = NoFile THEN "write" ELSE "overwrite"
  /\ UNCHANGED <<current_menu, file, loaded, alias, answer, disk, opened>>

\* AudioFile::save writes the samples or fails, and nobody looks.
Save ==
  \/ path \in Path /\ disk' = [disk EXCEPT ![path] = file]
  \/ UNCHANGED disk

WriteNew ==
  /\ at = "write"
  /\ Save
  /\ at' = "menu"
  /\ UNCHANGED <<current_menu, file, loaded, alias, fresh, answer, path, opened>>

Overwrite ==
  /\ at = "overwrite"
  /\ \/ ReadInt(0) /\ UNCHANGED disk
     \/ ReadInt(1) /\ Save
  /\ at' = "menu"
  /\ UNCHANGED <<current_menu, file, loaded, alias, path, opened>>

OverwriteAgain == at = "overwrite" /\ AskAgain(1)

\* Some other program creates a file.
OtherCreates(p) ==
  /\ at \in Others
  /\ disk[p] = NoFile
  /\ disk' = [disk EXCEPT ![p] = NotAudio]
  /\ UNCHANGED <<at, current_menu, file, loaded, alias, fresh, answer, path,
                 opened>>

-----------------------------------------------------------------------------
\* After Gui::Gui and Gui::connect.
Init ==
  /\ at = "menu" /\ current_menu = 0
  /\ file = Blank /\ loaded = FALSE
  /\ alias = [path |-> "No file loaded", star |-> FALSE]
  /\ fresh = TRUE /\ answer = NotANumber
  /\ path = "" /\ disk = StartDisk
  /\ opened = [path |-> "", audio |-> Blank]

Next ==
  \/ Discard \/ ReadUnset
  \/ ChooseAgain
  \/ \E f \in Navigation : Navigate(f)
  \/ ExitProgram
  \/ StretchOrRepitch
  \/ StartReverse \/ FinishReverse \/ LoseDsp
  \/ AskPath("file_options_load_file", "load")
  \/ AskPath("file_options_save_file", "save")
  \/ \E p \in Path \cup {""} : LoadPath(p) \/ SavePath(p)
  \/ WriteNew \/ Overwrite \/ OverwriteAgain
  \/ \E p \in Path : OtherCreates(p)

Spec == Init /\ [][Next]_vars

-----------------------------------------------------------------------------
(***************************************************************************)
(* Properties                                                              *)
(***************************************************************************)

\* The current menu is one of the menus, although the clamp of
\* set_current_menu would let num_menus through.
TypeOK ==
  /\ at \in Prompt \cup {"reversing", "write", "exited", "crashed"}
  /\ current_menu \in 0 .. num_menus - 1
  /\ file \in Audio
  /\ loaded \in BOOLEAN /\ fresh \in BOOLEAN
  /\ alias \in [path : Path \cup {"", "No file loaded"}, star : BOOLEAN]
  /\ answer \in Number \cup {NotANumber, EndOfInput}
  /\ path \in Path \cup {""}
  /\ disk \in [Path -> Content]
  /\ opened \in [path : Path \cup {""}, audio : Audio]

\* Whatever was tried in between (mono files, unreadable files, the end of the
\* input), once load_audio_file is left the open file has the two channels
\* that send_audio reads.
LoadedIsStereo == (loaded /\ at # "load") => file.channels = 2

\* The header tells the user the truth: a file it names is the one the samples
\* are from, and without a star they are the samples of that file
\* (load_audio_file, "load an audio file").  It names none after a load at the
\* end of the input.
HeaderTruthful ==
  (loaded /\ at = "menu" /\ alias.path # "") =>
    /\ alias.path = opened.path
    /\ alias.star \/ file = opened.audio

\* A file that exists is replaced only by the open samples, and only when the
\* user has answered 1 to the question about this very file (save_audio_file,
\* "give warning and require confirmation").  When the input has ended nobody
\* answers, and choice may happen to be 1.
OverwriteAsked ==
  [][\A p \in Path :
       (disk[p] # NoFile /\ disk'[p] # disk[p]) =>
         /\ at = "overwrite" /\ path = p /\ answer' \in {1, EndOfInput}
         /\ disk'[p] = file]_vars
==============================================================================
