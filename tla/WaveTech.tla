------------------------------ MODULE WaveTech ------------------------------
(***************************************************************************)
(* The three WaveTech programs and the connections between them: gui.exe,  *)
(* dsp.exe (server of the gui on port 5500, client of the reverse service  *)
(* on port 8800) and reverse.exe.                                          *)
(*                                                                         *)
(* Each program is one thread of blocking calls.  A label of pc names the  *)
(* call a program is in; the tables below say, for each call of            *)
(* send_message, recv_message, send_audio and recv_audio, on which socket  *)
(* it is made and where the program goes next.  An asio call that throws   *)
(* ends its program, since nothing catches, and the operating system       *)
(* closes what the program had open.                                       *)
(***************************************************************************)
EXTENDS AudioStream, Tcp

CONSTANTS
  Buffers,      \* the stereo files the user may load
  Commands,     \* the menu choices the user makes: a subset of Command
  MaxCommands,  \* bound: menu choices and restarts
  Patience,     \* when the user acts: see below
  MayDie,       \* the programs that may be killed from outside
  MayRestart    \* the programs that are started again after that

Command == {"load", "reverse", "stretch", "shift", "exit"}
Program == {"gui", "dsp", "rev"}

\* The user acts at any moment; starts the gui only when both services are
\* up; or also waits, before each choice, until both services are at rest.
PatienceLevel == {"none", "startup", "always"}

ASSUME WaveTechAssumption ==
  /\ Buffers \subseteq [1 .. 2 -> Seq(Sample)]
  /\ Commands \subseteq Command
  /\ MaxCommands \in Nat
  /\ Patience \in PatienceLevel
  /\ MayDie \subseteq Program /\ MayRestart \subseteq Program

\* A byte is tagged with the text or the float it belongs to (AudioStream),
\* and no float is a text.
ASSUME TagAssumption == Float \cap Message = {}

VARIABLES
  pc,          \* the call each program is in, or how it ended
  stage,       \* how far its send_audio or recv_audio is
  buffer_idx,  \* its cursor in send_audio
  audio,       \* the buffer its last recv_audio has filled
  file,        \* the gui's AudioFile samples
  loaded,      \* the gui's file_loaded_status
  net,         \* the connections
  commands     \* menu choices and restarts so far: how many, any exit?

vars == <<pc, stage, buffer_idx, audio, file, loaded, net, commands>>

Empty == <<<<>>, <<>>>>

-----------------------------------------------------------------------------
(***************************************************************************)
(* The calls each program makes of its pipes, with the socket, the text of *)
(* a message that is sent, and the label that follows.  After a            *)
(* recv_message the text decides (AfterText).                              *)
(***************************************************************************)
Send(s, m, l)   == [call |-> "send_message", sock |-> s, text |-> m, next |-> l]
Recv(s)         == [call |-> "recv_message", sock |-> s]
SendAudio(s, l) == [call |-> "send_audio", sock |-> s, next |-> l]
RecvAudio(s, l) == [call |-> "recv_audio", sock |-> s, next |-> l]

GuiCalls ==
  [g_exit    |-> Send("gui", "exit", "g_quit"),
   g_stretch |-> Send("gui", "stretch", "menu"),
   g_shift   |-> Send("gui", "shift", "menu"),
   g_reverse |-> Send("gui", "reverse", "g_ready"),
   g_ready   |-> Recv("gui"),
   g_tx      |-> SendAudio("gui", "g_rx"),
   g_rx      |-> RecvAudio("gui", "g_set")]

DspCalls ==
  [d_loop    |-> Recv("dsp5500"),
   d_ready   |-> Send("dsp5500", "ready", "d_rxgui"),
   d_rxgui   |-> RecvAudio("dsp5500", "d_connect"),
   d_run     |-> Send("dsp8800", "run", "d_started"),
   d_started |-> Recv("dsp8800"),
   d_txrev   |-> SendAudio("dsp8800", "d_done"),
   d_done    |-> Recv("dsp8800"),
   d_fetch   |-> Send("dsp8800", "ready", "d_rxrev"),
   d_rxrev   |-> RecvAudio("dsp8800", "d_txgui"),
   d_txgui   |-> SendAudio("dsp5500", "d_loop"),
   d_stop    |-> Send("dsp8800", "exit", "d_disc")]

ReverseCalls ==
  [r_recv  |-> Recv("rev8800"),
   r_ready |-> Send("rev8800", "ready", "r_rx"),
   r_rx    |-> RecvAudio("rev8800", "r_reverse"),
   r_done  |-> Send("rev8800", "done", "r_fetch"),
   r_fetch |-> Recv("rev8800"),
   r_tx    |-> SendAudio("rev8800", "r_disc")]

Calls ==
  [l \in DOMAIN GuiCalls \cup DOMAIN DspCalls \cup DOMAIN ReverseCalls |->
     IF l \in DOMAIN GuiCalls THEN GuiCalls[l]
     ELSE IF l \in DOMAIN DspCalls THEN DspCalls[l] ELSE ReverseCalls[l]]

(***************************************************************************)
(* The string comparisons after each recv_message.  The dsp takes shift    *)
(* and stretch, prints them, and waits for the next message, as it does    *)
(* for any text it does not know.                                          *)
(***************************************************************************)
DspCommandAnswersStretch(text) == \* mutant
  IF text \in {TextBytes("reverse"), TextBytes("stretch")} THEN "d_ready"
  ELSE IF IsPrefix(TextBytes("exit"), text) THEN "d_xconnect" ELSE "d_loop"

DspCommandElseExit(text) == \* mutant
  IF text = TextBytes("reverse") THEN "d_ready"
  ELSE IF text = TextBytes("stretch") THEN "d_loop" ELSE "d_xconnect"

DspCommand(text) ==
  IF text = TextBytes("reverse") THEN "d_ready"
  ELSE IF IsPrefix(TextBytes("exit"), text) THEN "d_xconnect" ELSE "d_loop"

DspStartedTypo(text) == \* mutant
  IF text = TextBytes("run") THEN "d_txrev" ELSE "d_done"

DspStartedSkips(text) == \* mutant: neither the audio nor "done"
  IF text = TextBytes("ready") THEN "d_fetch" ELSE "d_done"

DspStarted(text) ==
  IF text = TextBytes("ready") THEN "d_txrev" ELSE "d_done"

ReverseCommandRunOnly(text) == \* mutant
  IF text = TextBytes("run") THEN "r_ready" ELSE "r_drop"

ReverseCommand(text) ==
  IF text = TextBytes("run") THEN "r_ready"
  ELSE IF text = TextBytes("exit") THEN "r_xdisc" ELSE "r_drop"

ReverseFetch(text) ==
  IF text = TextBytes("ready") THEN "r_tx" ELSE "r_disc"

AfterText(label, text) ==
  CASE label = "g_ready"   -> "g_tx"
    [] label = "d_loop"    -> DspCommand(text)
    [] label = "d_started" -> DspStarted(text)
    [] label = "d_done"    -> "d_fetch"
    [] label = "r_recv"    -> ReverseCommand(text)
    [] label = "r_fetch"   -> ReverseFetch(text)

\* The calls of each program, of its pipes and others, and how it may end.
EndLabel == {"exited", "crashed", "killed"}

GuiLabel ==
  {"g_exit", "g_stretch", "g_shift", "g_reverse", "g_ready", "g_tx", "g_rx",
   "g_connect", "menu", "g_set", "g_quit"} \cup EndLabel

DspLabel ==
  {"d_loop", "d_ready", "d_rxgui", "d_run", "d_started", "d_txrev", "d_done",
   "d_fetch", "d_rxrev", "d_txgui", "d_stop",
   "d_bind", "d_accept", "d_connect", "d_xconnect", "d_disc"} \cup EndLabel

ReverseLabel ==
  {"r_recv", "r_ready", "r_rx", "r_done", "r_fetch", "r_tx",
   "r_bind", "r_accept", "r_reverse", "r_disc", "r_drop", "r_xdisc"}
    \cup EndLabel

LabelsOf(p) ==
  IF p = "gui" THEN GuiLabel ELSE IF p = "dsp" THEN DspLabel ELSE ReverseLabel

\* Program p is in a call of this function, and what the table says of it.
In(p, call) == pc[p] \in DOMAIN Calls /\ Calls[pc[p]].call = call
Site(p) == Calls[pc[p]]

-----------------------------------------------------------------------------
(***************************************************************************)
(* A program ends: its sockets and its acceptor go.                        *)
(***************************************************************************)
CloseAll(n, p) ==
  CASE p = "gui" -> Close(n, "gui")
    [] p = "dsp" -> StopListening(Close(Close(n, "dsp8800"), "dsp5500"), 5500)
    [] p = "rev" -> StopListening(Close(n, "rev8800"), 8800)

Ended(p) == pc[p] \in {"exited", "crashed", "killed"}

\* The first call of each main.
Entry == [gui |-> "g_connect", dsp |-> "d_bind", rev |-> "r_bind"]

Goto(p, label) == pc' = [pc EXCEPT ![p] = label]

EndWith(p, how) ==
  /\ Goto(p, how)
  /\ net' = CloseAll(net, p)
  /\ UNCHANGED <<stage, buffer_idx, audio, file, loaded, commands>>

AdvanceKeepsCursor(p, st) == \* mutant: buffer_idx is not reset
  /\ stage' = [stage EXCEPT ![p] = st]
  /\ UNCHANGED buffer_idx

\* Leave a call of send_audio or recv_audio, or enter its next stage.
Advance(p, st) ==
  /\ stage' = [stage EXCEPT ![p] = st]
  /\ buffer_idx' = [buffer_idx EXCEPT ![p] = 0]

-----------------------------------------------------------------------------
(***************************************************************************)
(* Text messages                                                           *)
(***************************************************************************)
SendMessageTwice(p) == \* mutant: the write is repeated
  /\ In(p, "send_message")
  /\ LET site == Site(p)
         text == TextBytes(site.text) \o TextBytes(site.text)
     IN  /\ net' = Write(net, site.sock, text)
         /\ Goto(p, site.next)
         /\ UNCHANGED <<stage, buffer_idx, audio, file, loaded, commands>>

SendMessage(p) ==
  /\ In(p, "send_message")
  /\ LET site == Site(p) IN
     IF WriteFails(net, site.sock)
     THEN EndWith(p, "crashed")
     ELSE /\ net' = Write(net, site.sock, TextBytes(site.text))
          /\ Goto(p, site.next)
          /\ UNCHANGED <<stage, buffer_idx, audio, file, loaded, commands>>

RecvMessage(p) ==
  /\ In(p, "recv_message")
  /\ LET s == Site(p).sock IN
     \/ /\ ReadFails(net, s)
        /\ EndWith(p, "crashed")
     \/ \E n \in ReadSizes(Len(net.inbuf[s]), RECV_CAP) :
          /\ Goto(p, AfterText(pc[p], SubSeq(net.inbuf[s], 1, n)))
          /\ net' = Take(net, s, n)
          /\ UNCHANGED <<stage, buffer_idx, audio, file, loaded, commands>>

-----------------------------------------------------------------------------
(***************************************************************************)
(* send_audio: stage "left", then "confirm", then "right"                  *)
(***************************************************************************)
Outgoing(p) == IF p = "gui" THEN file ELSE audio[p]

ChannelOf(p) == IF stage[p] = "left" THEN 1 ELSE 2

\* One chunk.  A failed write is ignored.
SendChunk(p) ==
  /\ In(p, "send_audio") /\ stage[p] # "confirm"
  /\ LET site == Site(p)
         ch   == Outgoing(p)[ChannelOf(p)]
         idx  == buffer_idx[p]
     IN  /\ net' = IF Chunk(ch, idx) = <<>> THEN net
                   ELSE Write(net, site.sock, AudioBytes(Chunk(ch, idx)))
         /\ IF ~LastChunk(ch, idx)
            THEN /\ buffer_idx' = [buffer_idx EXCEPT ![p] = idx + CHUNK_SIZE]
                 /\ UNCHANGED <<pc, stage>>
            ELSE IF stage[p] = "left"
            THEN Advance(p, "confirm") /\ UNCHANGED pc
            ELSE Advance(p, "left") /\ Goto(p, site.next)
  /\ UNCHANGED <<audio, file, loaded, commands>>

\* An empty channel is read out of bounds: a checked build stops here.
SendAborts(p) ==
  /\ In(p, "send_audio") /\ stage[p] # "confirm"
  /\ Outgoing(p)[ChannelOf(p)] = <<>>
  /\ EndWith(p, "crashed")

\* Anything but CONFIRMED makes send_audio return false, which every caller
\* ignores: it goes on as if the right channel had been sent.
RecvConfirmation(p) ==
  /\ In(p, "send_audio") /\ stage[p] = "confirm"
  /\ LET site == Site(p)
         s    == site.sock
     IN  \/ /\ ReadFails(net, s)
            /\ EndWith(p, "crashed")
         \/ \E n \in ReadSizes(Len(net.inbuf[s]), RECV_CAP) :
              /\ net' = Take(net, s, n)
              /\ IF SubSeq(net.inbuf[s], 1, n) = TextBytes("CONFIRMED")
                 THEN Advance(p, "right") /\ UNCHANGED pc
                 ELSE Advance(p, "left") /\ Goto(p, site.next)
              /\ UNCHANGED <<audio, file, loaded, commands>>

-----------------------------------------------------------------------------
(***************************************************************************)
(* recv_audio: the same stages                                             *)
(***************************************************************************)

\* One read.  The container is a fresh one at the first read of the call.
RecvChunk(p) ==
  /\ In(p, "recv_audio") /\ stage[p] # "confirm"
  /\ LET site == Site(p)
         s    == site.sock
     IN  \/ /\ ReadFails(net, s)
            /\ EndWith(p, "crashed")
         \/ \E n \in ReadSizes(Len(net.inbuf[s]), CHUNK_SIZE * FLOAT_BYTES) :
              LET floats    == Floats(SubSeq(net.inbuf[s], 1, n))
                  first     == stage[p] = "left" /\ buffer_idx[p] = 0
                  container == IF first THEN Empty ELSE audio[p]
              IN
              /\ net' = Take(net, s, n)
              /\ audio' = [audio EXCEPT ![p] =
                             [container EXCEPT ![ChannelOf(p)] = @ \o floats]]
              /\ IF Len(floats) = CHUNK_SIZE
                 THEN /\ buffer_idx' = [buffer_idx EXCEPT ![p] = @ + CHUNK_SIZE]
                      /\ UNCHANGED <<pc, stage>>
                 ELSE IF stage[p] = "left"
                 THEN Advance(p, "confirm") /\ UNCHANGED pc
                 ELSE Advance(p, "left") /\ Goto(p, site.next)
              /\ UNCHANGED <<file, loaded, commands>>

SendConfirmation(p) ==
  /\ In(p, "recv_audio") /\ stage[p] = "confirm"
  /\ LET s == Site(p).sock IN
     IF WriteFails(net, s)
     THEN EndWith(p, "crashed")
     ELSE /\ net' = Write(net, s, TextBytes("CONFIRMED"))
          /\ Advance(p, "right")
          /\ UNCHANGED <<pc, audio, file, loaded, commands>>

-----------------------------------------------------------------------------
(***************************************************************************)
(* Connections                                                             *)
(***************************************************************************)

\* make_unique<DownstreamPipe>(port): a new acceptor.
Bind(p) ==
  /\ \/ pc[p] = "d_bind" /\ Goto(p, "d_accept") /\ net' = Listen(net, 5500)
     \/ pc[p] = "r_bind" /\ Goto(p, "r_accept") /\ net' = Listen(net, 8800)
  /\ UNCHANGED <<stage, buffer_idx, audio, file, loaded, commands>>

\* DownstreamPipe::connect
AcceptClient(p) ==
  /\ \/ /\ pc[p] = "d_accept" /\ CanAccept(net, 5500)
        /\ Goto(p, "d_loop") /\ net' = Accept(net, "dsp5500", 5500)
     \/ /\ pc[p] = "r_accept" /\ CanAccept(net, 8800)
        /\ Goto(p, "r_recv") /\ net' = Accept(net, "rev8800", 8800)
  /\ UNCHANGED <<stage, buffer_idx, audio, file, loaded, commands>>

\* UpstreamPipe::connect of the dsp: refused when nobody listens.
ConnectReverse(p) ==
  /\ pc[p] \in {"d_connect", "d_xconnect"}
  /\ BacklogFree(net, 8800)
  /\ IF ~net.listening[8800]
     THEN EndWith(p, "crashed")
     ELSE /\ net' = Connect(net, "dsp8800", 8800)
          /\ Goto(p, IF pc[p] = "d_connect" THEN "d_run" ELSE "d_stop")
          /\ UNCHANGED <<stage, buffer_idx, audio, file, loaded, commands>>

\* DownstreamPipe::disconnect: shutdown throws on a connection that was
\* reset.  In d_disc and r_xdisc the program returns from main right after.
Disconnect(p) ==
  /\ pc[p] \in {"d_disc", "r_disc", "r_xdisc"}
  /\ LET s == IF p = "dsp" THEN "dsp5500" ELSE "rev8800" IN
     IF net.status[s] = "reset"
     THEN EndWith(p, "crashed")
     ELSE IF pc[p] = "r_disc"
     THEN /\ net' = Close(net, s)
          /\ Goto(p, "r_drop")
          /\ UNCHANGED <<stage, buffer_idx, audio, file, loaded, commands>>
     ELSE EndWith(p, "exited")

\* Mutant: the pipe is made once and the loop goes on with recv_message.
DropPipeOnce(p) ==
  /\ pc[p] = "r_drop"
  /\ Goto(p, "r_recv")
  /\ UNCHANGED <<stage, buffer_idx, audio, file, loaded, net, commands>>

\* The end of the reverse service's loop body destroys its pipe, and with it
\* the acceptor and whatever connection is waiting to be accepted.
DropPipe(p) ==
  /\ pc[p] = "r_drop"
  /\ EndWith(p, "r_bind")

-----------------------------------------------------------------------------
(***************************************************************************)
(* The rest of the programs                                                *)
(***************************************************************************)

\* Mutant: the loop over the channels stops one short.
ReverseAudioLeftOnly(p) ==
  /\ pc[p] = "r_reverse"
  /\ audio' = [audio EXCEPT ![p][1] = Reverse(@)]
  /\ Goto(p, "r_done")
  /\ UNCHANGED <<stage, buffer_idx, file, loaded, net, commands>>

\* reverse() in reverse.cpp
ReverseAudio(p) ==
  /\ pc[p] = "r_reverse"
  /\ audio' = [audio EXCEPT ![p] = [c \in 1 .. 2 |-> Reverse(@[c])]]
  /\ Goto(p, "r_done")
  /\ UNCHANGED <<stage, buffer_idx, file, loaded, net, commands>>

\* AudioFile::setAudioBuffer asserts that the channels have one length.
SetAudioBuffer(p) ==
  /\ pc[p] = "g_set"
  /\ IF Len(audio[p][1]) # Len(audio[p][2])
     THEN EndWith(p, "crashed")
     ELSE /\ file' = audio[p]
          /\ Goto(p, "menu")
          /\ UNCHANGED <<stage, buffer_idx, audio, loaded, net, commands>>

\* set_exit_status(true), and main returns.
Quit(p) ==
  /\ pc[p] = "g_quit"
  /\ EndWith(p, "exited")

-----------------------------------------------------------------------------
(***************************************************************************)
(* The user                                                                *)
(***************************************************************************)

\* Nothing is under way.
AtRest ==
  /\ pc["gui"] = "menu"
  /\ pc["dsp"] = "d_loop" /\ pc["rev"] = "r_accept"
  /\ \A s \in Sock : net.inbuf[s] = <<>>

\* The gui is started.  It throws when the dsp is not listening yet.
StartGui ==
  /\ pc["gui"] = "g_connect"
  /\ Patience # "none" => \A port \in Port : net.listening[port]
  /\ BacklogFree(net, 5500)
  /\ IF net.listening[5500]
     THEN /\ net' = Connect(net, "gui", 5500)
          /\ Goto("gui", "menu")
          /\ UNCHANGED <<stage, buffer_idx, audio, file, loaded, commands>>
     ELSE EndWith("gui", "crashed")

\* load_audio_file with the path of a stereo file.
Load ==
  /\ "load" \in Commands
  /\ file' \in Buffers
  /\ loaded' = TRUE
  /\ UNCHANGED pc

\* The other menu functions.  Without a file there is nothing to reverse.
Choose(cmd) ==
  /\ cmd \in Commands \ {"load"}
  /\ cmd = "reverse" => loaded
  /\ Goto("gui", CASE cmd = "reverse" -> "g_reverse"
                   [] cmd = "stretch" -> "g_stretch"
                   [] cmd = "shift"   -> "g_shift"
                   [] cmd = "exit"    -> "g_exit")
  /\ UNCHANGED <<file, loaded>>

User ==
  /\ pc["gui"] = "menu"
  /\ commands.made < MaxCommands
  /\ Patience = "always" => AtRest
  /\ Load \/ \E cmd \in Command \ {"load"} : Choose(cmd)
  /\ commands' = [made |-> commands.made + 1,
                   exit |-> commands.exit \/ pc'["gui"] = "g_exit"]
  /\ UNCHANGED <<stage, buffer_idx, audio, net>>

\* A program is killed; a patient user does so only when nothing is going on.
Die(p) ==
  /\ p \in MayDie /\ ~Ended(p) /\ pc[p] # "g_connect"
  /\ Patience = "always" => AtRest
  /\ EndWith(p, "killed")

\* A program that was killed or has crashed is started again: main from its
\* first line.
Restart(p) ==
  /\ p \in MayRestart /\ pc[p] \in {"crashed", "killed"}
  /\ commands.made < MaxCommands
  /\ commands' = [commands EXCEPT !.made = @ + 1]
  /\ Goto(p, Entry[p])
  /\ Advance(p, "left")
  /\ audio' = [audio EXCEPT ![p] = Empty]
  /\ IF p = "gui" THEN file' = Empty /\ loaded' = FALSE
     ELSE UNCHANGED <<file, loaded>>
  /\ UNCHANGED net

-----------------------------------------------------------------------------
Init ==
  /\ pc = Entry
  /\ stage = [p \in Program |-> "left"]
  /\ buffer_idx = [p \in Program |-> 0]
  /\ audio = [p \in Program |-> Empty]
  /\ file = Empty /\ loaded = FALSE
  /\ net = NoNet
  /\ commands = [made |-> 0, exit |-> FALSE]

Step(p) ==
  \/ SendMessage(p) \/ RecvMessage(p)
  \/ SendChunk(p) \/ SendAborts(p) \/ RecvConfirmation(p)
  \/ RecvChunk(p) \/ SendConfirmation(p)
  \/ Bind(p) \/ AcceptClient(p) \/ ConnectReverse(p)
  \/ Disconnect(p) \/ DropPipe(p)
  \/ ReverseAudio(p) \/ SetAudioBuffer(p) \/ Quit(p)

Next ==
  \/ StartGui
  \/ User
  \/ \E p \in Program : Step(p) \/ Die(p) \/ Restart(p)

Spec == Init /\ [][Next]_vars

(***************************************************************************)
(* The operating system runs a program that is not blocked.  Nothing makes *)
(* the user act, and nothing makes a program die.                          *)
(***************************************************************************)
FairSpec == Spec /\ \A p \in Program : WF_vars(Step(p))

-----------------------------------------------------------------------------
(***************************************************************************)
(* Properties                                                              *)
(***************************************************************************)
\* Every program is in a call of its own, the containers hold floats and the
\* streams bytes; and the cursor of a send_audio is inside its channel, unless
\* the channel is empty.
TypeOK ==
  /\ DOMAIN pc = Program /\ \A p \in Program : pc[p] \in LabelsOf(p)
  /\ stage \in [Program -> {"left", "confirm", "right"}]
  /\ buffer_idx \in [Program -> Nat]
  /\ \A p \in Program :
       LET ch == Outgoing(p)[ChannelOf(p)] IN
       (In(p, "send_audio") /\ stage[p] # "confirm" /\ ch # <<>>) =>
         buffer_idx[p] < Len(ch)
  /\ \A p \in Program : \A c \in 1 .. 2 : audio[p][c] \in Seq(Float)
  /\ \A c \in 1 .. 2 : file[c] \in Seq(Float)
  /\ loaded \in BOOLEAN
  /\ \A s \in Sock : net.inbuf[s] \in Seq(Byte)
  /\ commands \in [made : 0 .. MaxCommands, exit : BOOLEAN]

\* What the user is promised, whatever the timing and whichever program dies:
\* the open file changes only when the user loads one, or when a reversal is
\* complete, and then into its exact reversal.  A transfer that breaks off
\* between the three programs never leaves a half-replaced file behind.
EditorStatus ==
  CASE Ended("gui") -> "closed"
    [] pc["gui"] \in {"g_reverse", "g_ready", "g_tx", "g_rx", "g_set"} -> "busy"
    [] OTHER -> "idle"

Editor == INSTANCE AudioEditor WITH editor <- EditorStatus

FileAsPromised == Editor!EditorSpec

\* Text and audio share each stream, and only the order of the calls in the
\* programs tells them apart: a recv_message never finds samples, and a
\* recv_audio never finds the bytes of a message.
IsText(s) == \A i \in DOMAIN net.inbuf[s] : net.inbuf[s][i][1] \in Message
IsAudio(s) == \A i \in DOMAIN net.inbuf[s] : net.inbuf[s][i][1] \in Float

StreamsInStep ==
  \A p \in Program :
    /\ In(p, "recv_message") \/ In(p, "send_audio") => IsText(Site(p).sock)
    /\ In(p, "recv_audio") => IsAudio(Site(p).sock)

\* When the gui is back at a menu nothing is left on its stream that the next
\* command could take for its answer.
NothingStaleAtPrompt == pc["gui"] = "menu" => net.inbuf["gui"] = <<>>

\* The services stop only because the user chose Exit Program, in this session
\* of the gui or an earlier one: the command goes down gui, dsp, reverse, and
\* no other traffic, and nothing that a killed program leaves behind, is taken
\* for it.
ExitTravelsDown ==
  (\/ pc["dsp"] \in {"d_xconnect", "d_stop", "d_disc", "exited"}
   \/ pc["rev"] \in {"r_xdisc", "exited"}) => commands.exit

\* With a user who waits for the services, no call of any program throws, even
\* when the reverse service has been killed and started again in between.
NobodyCrashes == \A p \in Program : pc[p] # "crashed"

\* Each recv_message returns exactly one message (README.md, "Sending/
\* Receiving Strings": one send_message, one recv_message).
OneMessagePerRead ==
  [][\A p \in Program :
       (In(p, "recv_message") /\ pc'[p] # "crashed") =>
         LET s == Site(p).sock
         IN  Len(net'.inbuf[s]) < Len(net.inbuf[s]) =>
               Len(net.inbuf[s]) - Len(net'.inbuf[s]) = MSG_BYTES]_vars

\* A reversal the user asks for comes back, and the menu with it: none of the
\* three programs waits for another one forever.
ReverseReturns == pc["gui"] = "g_reverse" ~> pc["gui"] = "menu"

\* Exit Program ends all three programs.
ExitStopsAll ==
  pc["gui"] = "g_exit" ~> \A p \in Program : pc[p] = "exited"
==============================================================================
