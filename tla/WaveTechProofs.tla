--------------------------- MODULE WaveTechProofs ---------------------------
(***************************************************************************)
(* Proofs about WaveTech, for every set of files, every size of chunks,    *)
(* floats and messages, every way TCP cuts the streams, and every number   *)
(* of commands, deaths and restarts.                                       *)
(***************************************************************************)
EXTENDS WaveTech, AudioStreamProofs

(***************************************************************************)
(* The network                                                             *)
(***************************************************************************)

\* The states of the network in which every byte on a stream is in B.
NetOf(B) ==
  [status : [Sock -> {"closed", "open", "reset"}],
   peer : [Sock -> Sock \cup {None}],
   inbuf : [Sock -> Seq(B)],
   listening : [Port -> BOOLEAN]]

\* The fields of such a state.
LEMMA NetFields ==
  ASSUME NEW B, NEW n \in NetOf(B)
  PROVE  /\ n.status \in [Sock -> {"closed", "open", "reset"}]
         /\ n.peer \in [Sock -> Sock \cup {None}]
         /\ n.inbuf \in [Sock -> Seq(B)]
         /\ n.listening \in [Port -> BOOLEAN]
BY DEF NetOf

\* A function with two new values.
LEMMA UpdateTwice ==
  ASSUME NEW S, NEW T, NEW f \in [S -> T], NEW x \in S, NEW v \in T,
         NEW y \in S, NEW w \in T
  PROVE  [f EXCEPT ![x] = v, ![y] = w] \in [S -> T]
OBVIOUS

\* A state with these fields.
LEMMA NetFrom ==
  ASSUME NEW B, NEW n \in NetOf(B),
         NEW st \in [Sock -> {"closed", "open", "reset"}],
         NEW pe \in [Sock -> Sock \cup {None}],
         NEW ib \in [Sock -> Seq(B)]
  PROVE  [n EXCEPT !.status = st, !.peer = pe, !.inbuf = ib] \in NetOf(B)
<1>1. [n EXCEPT !.status = st] \in NetOf(B)
  BY Zenon DEF NetOf
<1>2. [[n EXCEPT !.status = st] EXCEPT !.peer = pe] \in NetOf(B)
  BY <1>1, Zenon DEF NetOf
<1>3. [[[n EXCEPT !.status = st] EXCEPT !.peer = pe] EXCEPT !.inbuf = ib]
        \in NetOf(B)
  BY <1>2, Zenon DEF NetOf
<1> QED
  BY <1>3

\* A stream whose end goes away.
LEMMA GoneType ==
  ASSUME NEW B, NEW n \in NetOf(B), NEW s \in Sock, NEW abort \in BOOLEAN
  PROVE  Gone(n, s, abort) \in NetOf(B)
<1> DEFINE st == [t \in Sock |-> IF t = s THEN "closed"
                                 ELSE IF t = n.peer[s] /\ abort THEN "reset"
                                 ELSE n.status[t]]
           pe == [t \in Sock |-> IF t = s \/ t = n.peer[s] THEN None
                                 ELSE n.peer[t]]
           ib == [t \in Sock |-> IF t = s \/ (t = n.peer[s] /\ abort)
                                 THEN <<>> ELSE n.inbuf[t]]
<1>1. Gone(n, s, abort) = [n EXCEPT !.status = st, !.peer = pe, !.inbuf = ib]
  BY Zenon DEF Gone
<1>2. /\ st \in [Sock -> {"closed", "open", "reset"}]
      /\ pe \in [Sock -> Sock \cup {None}]
  BY NetFields
<1>3. ib \in [Sock -> Seq(B)]
  <2>1. <<>> \in Seq(B)
    OBVIOUS
  <2>2. \A t \in Sock : n.inbuf[t] \in Seq(B)
    BY NetFields
  <2> QED
    BY <2>1, <2>2, Zenon
<1> HIDE DEF st, pe, ib
<1>4. [n EXCEPT !.status = st, !.peer = pe, !.inbuf = ib] \in NetOf(B)
  BY <1>2, <1>3, NetFrom
<1> QED
  BY <1>1, <1>4, Zenon

\* socket::close
LEMMA CloseType ==
  ASSUME NEW B, NEW n \in NetOf(B), NEW s \in Sock
  PROVE  Close(n, s) \in NetOf(B)
<1>1. (n.inbuf[s] # <<>>) \in BOOLEAN
  OBVIOUS
<1> QED
  BY <1>1, GoneType DEF Close

\* An acceptor comes or goes.
LEMMA ListeningType ==
  ASSUME NEW B, NEW n \in NetOf(B), NEW port \in Port, NEW on \in BOOLEAN
  PROVE  [n EXCEPT !.listening[port] = on] \in NetOf(B)
<1> DEFINE li == [n.listening EXCEPT ![port] = on]
<1>1. li \in [Port -> BOOLEAN]
  BY NetFields
<1>2. [n EXCEPT !.listening[port] = on] = [n EXCEPT !.listening = li]
  OBVIOUS
<1> HIDE DEF li
<1>3. [n EXCEPT !.listening = li] \in NetOf(B)
  BY <1>1, Zenon DEF NetOf
<1> QED
  BY <1>2, <1>3

\* A new acceptor.
LEMMA ListenType ==
  ASSUME NEW B, NEW n \in NetOf(B), NEW port \in Port
  PROVE  Listen(n, port) \in NetOf(B)
<1>1. [n EXCEPT !.listening[port] = TRUE] \in NetOf(B)
  BY ListeningType
<1> QED
  BY <1>1 DEF Listen

\* The end of an acceptor.
LEMMA StopType ==
  ASSUME NEW B, NEW n \in NetOf(B), NEW port \in Port
  PROVE  StopListening(n, port) \in NetOf(B)
<1>1. [n EXCEPT !.listening[port] = FALSE] \in NetOf(B)
  BY ListeningType
<1>2. Pending(port) \in Sock
  BY DEF Pending, Sock
<1> QED
  BY <1>1, <1>2, GoneType DEF StopListening

\* A fresh connection.
LEMMA LinkType ==
  ASSUME NEW B, NEW n \in NetOf(B), NEW s \in Sock, NEW t \in Sock
  PROVE  Link(n, s, t) \in NetOf(B)
<1> DEFINE st == [n.status EXCEPT ![s] = "open", ![t] = "open"]
           pe == [n.peer EXCEPT ![s] = t, ![t] = s]
           ib == [n.inbuf EXCEPT ![s] = <<>>, ![t] = <<>>]
<1>1. Link(n, s, t) = [n EXCEPT !.status = st, !.peer = pe, !.inbuf = ib]
  BY DEF Link, NetOf
<1>2. /\ st \in [Sock -> {"closed", "open", "reset"}]
      /\ pe \in [Sock -> Sock \cup {None}]
      /\ ib \in [Sock -> Seq(B)]
  <2>1. /\ n.status \in [Sock -> {"closed", "open", "reset"}]
        /\ n.peer \in [Sock -> Sock \cup {None}]
        /\ n.inbuf \in [Sock -> Seq(B)]
    BY NetFields
  <2>2. /\ "open" \in {"closed", "open", "reset"} /\ <<>> \in Seq(B)
        /\ s \in Sock \cup {None} /\ t \in Sock \cup {None}
    OBVIOUS
  <2> QED
    BY <2>1, <2>2, UpdateTwice, Zenon
<1> HIDE DEF st, pe, ib
<1>3. [n EXCEPT !.status = st, !.peer = pe, !.inbuf = ib] \in NetOf(B)
  BY <1>2, NetFrom
<1> QED
  BY <1>1, <1>3, Zenon

\* asio::connect
LEMMA ConnectType ==
  ASSUME NEW B, NEW n \in NetOf(B), NEW s \in Sock, NEW port \in Port
  PROVE  Connect(n, s, port) \in NetOf(B)
<1>1. Pending(port) \in Sock
  BY DEF Pending, Sock
<1>2. Close(n, s) \in NetOf(B)
  BY CloseType
<1> QED
  BY <1>1, <1>2, LinkType DEF Connect

\* acceptor::accept
LEMMA AcceptType ==
  ASSUME NEW B, NEW n \in NetOf(B), NEW s \in Sock, NEW port \in Port
  PROVE  Accept(n, s, port) \in NetOf(B)
<1> DEFINE q == Pending(port)
           st == [n.status EXCEPT ![s] = "open", ![q] = "closed"]
           pe == [t \in Sock |-> IF t = s THEN n.peer[q]
                                 ELSE IF t = q THEN None
                                 ELSE IF n.peer[t] = q THEN s ELSE n.peer[t]]
           ib == [n.inbuf EXCEPT ![s] = n.inbuf[q], ![q] = <<>>]
<1>1. Accept(n, s, port) = [n EXCEPT !.status = st, !.peer = pe, !.inbuf = ib]
  BY Zenon DEF Accept
<1>2. q \in Sock
  BY DEF Pending, Sock
<1> HIDE DEF q
<1>3. /\ st \in [Sock -> {"closed", "open", "reset"}]
      /\ pe \in [Sock -> Sock \cup {None}]
      /\ ib \in [Sock -> Seq(B)]
  <2>1. /\ n.status \in [Sock -> {"closed", "open", "reset"}]
        /\ n.peer \in [Sock -> Sock \cup {None}]
        /\ n.inbuf \in [Sock -> Seq(B)] /\ n.inbuf[q] \in Seq(B)
    BY <1>2, NetFields
  <2>2. /\ "open" \in {"closed", "open", "reset"} /\ <<>> \in Seq(B)
        /\ "closed" \in {"closed", "open", "reset"}
    OBVIOUS
  <2>3. pe \in [Sock -> Sock \cup {None}]
    BY <1>2, <2>1
  <2> QED
    BY <1>2, <2>1, <2>2, <2>3, UpdateTwice, Zenon
<1> HIDE DEF st, pe, ib
<1>4. [n EXCEPT !.status = st, !.peer = pe, !.inbuf = ib] \in NetOf(B)
  BY <1>3, NetFrom
<1> QED
  BY <1>1, <1>4, Zenon

\* The bytes on a stream are replaced.
LEMMA InbufType ==
  ASSUME NEW B, NEW n \in NetOf(B), NEW s \in Sock, NEW b \in Seq(B)
  PROVE  [n EXCEPT !.inbuf[s] = b] \in NetOf(B)
<1> DEFINE ib == [n.inbuf EXCEPT ![s] = b]
<1>1. ib \in [Sock -> Seq(B)]
  BY NetFields
<1>2. [n EXCEPT !.inbuf[s] = b] = [n EXCEPT !.inbuf = ib]
  OBVIOUS
<1> HIDE DEF ib
<1>3. [n EXCEPT !.inbuf = ib] \in NetOf(B)
  BY <1>1, Zenon DEF NetOf
<1> QED
  BY <1>2, <1>3

\* A write of bytes in B.
LEMMA WriteType ==
  ASSUME NEW B, NEW n \in NetOf(B), NEW s \in Sock, NEW b \in Seq(B)
  PROVE  Write(n, s, b) \in NetOf(B)
<1>1. CASE n.status[s] # "open"
  BY <1>1 DEF Write
<1>2. CASE n.status[s] = "open" /\ n.peer[s] = None
  <2> DEFINE st == [n.status EXCEPT ![s] = "reset"]
             m == [n EXCEPT !.status = st]
  <2>1. Write(n, s, b) = [n EXCEPT !.status[s] = "reset", !.inbuf[s] = <<>>]
    BY <1>2 DEF Write
  <2>2. st \in [Sock -> {"closed", "open", "reset"}]
    BY NetFields
  <2>3. [n EXCEPT !.status[s] = "reset", !.inbuf[s] = <<>>]
          = [m EXCEPT !.inbuf[s] = <<>>]
    BY DEF NetOf
  <2> HIDE DEF st
  <2>4. m \in NetOf(B)
    BY <2>2, Zenon DEF NetOf
  <2>5. <<>> \in Seq(B)
    OBVIOUS
  <2> HIDE DEF m
  <2>6. [m EXCEPT !.inbuf[s] = <<>>] \in NetOf(B)
    BY <2>4, <2>5, InbufType
  <2> QED
    BY <2>1, <2>3, <2>6, Zenon
<1>3. CASE n.status[s] = "open" /\ n.peer[s] # None
  <2> DEFINE t == n.peer[s]
             c == n.inbuf[t] \o b
  <2>1. Write(n, s, b) = [n EXCEPT !.inbuf[t] = @ \o b]
    BY <1>3 DEF Write
  <2>2. t \in Sock /\ n.inbuf[t] \in Seq(B)
    BY <1>3, NetFields
  <2>3. c \in Seq(B)
    BY <2>2
  <2>4. [n EXCEPT !.inbuf[t] = @ \o b] = [n EXCEPT !.inbuf[t] = c]
    BY Zenon
  <2> HIDE DEF c, t
  <2>5. [n EXCEPT !.inbuf[t] = c] \in NetOf(B)
    BY <2>2, <2>3, InbufType
  <2> QED
    BY <2>1, <2>4, <2>5, Zenon
<1> QED
  BY <1>1, <1>2, <1>3

\* A read of k bytes.
LEMMA TakeType ==
  ASSUME NEW B, NEW n \in NetOf(B), NEW s \in Sock,
         NEW k \in 0 .. Len(n.inbuf[s])
  PROVE  Take(n, s, k) \in NetOf(B)
<1> DEFINE b == SubSeq(n.inbuf[s], k + 1, Len(n.inbuf[s]))
<1>1. b \in Seq(B)
  <2>1. n.inbuf[s] \in Seq(B)
    BY NetFields
  <2> QED
    BY <2>1
<1>2. Take(n, s, k) = [n EXCEPT !.inbuf[s] = b]
  BY Zenon DEF Take
<1> HIDE DEF b
<1> QED
  BY <1>1, <1>2, InbufType

\* A program ends.
LEMMA CloseAllType ==
  ASSUME NEW B, NEW n \in NetOf(B), NEW p \in Program
  PROVE  CloseAll(n, p) \in NetOf(B)
<1>1. {"gui", "dsp5500", "dsp8800", "rev8800"} \subseteq Sock
  BY DEF Sock
<1>2. 5500 \in Port /\ 8800 \in Port
  BY DEF Port
<1>3. CASE p = "gui"
  <2>1. Close(n, "gui") \in NetOf(B)
    BY <1>1, CloseType
  <2> QED
    BY <1>3, <2>1 DEF CloseAll
<1>4. CASE p = "dsp"
  <2>1. Close(n, "dsp8800") \in NetOf(B)
    BY <1>1, CloseType
  <2>2. Close(Close(n, "dsp8800"), "dsp5500") \in NetOf(B)
    BY <1>1, <2>1, CloseType
  <2>3. StopListening(Close(Close(n, "dsp8800"), "dsp5500"), 5500) \in NetOf(B)
    BY <1>2, <2>2, StopType
  <2> QED
    BY <1>4, <2>3 DEF CloseAll
<1>5. CASE p = "rev"
  <2>1. Close(n, "rev8800") \in NetOf(B)
    BY <1>1, CloseType
  <2>2. StopListening(Close(n, "rev8800"), 8800) \in NetOf(B)
    BY <1>2, <2>1, StopType
  <2> QED
    BY <1>5, <2>2 DEF CloseAll
<1> QED
  BY <1>3, <1>4, <1>5 DEF Program

\* More bytes are allowed.
LEMMA NetMore ==
  ASSUME NEW A, NEW B, A \subseteq B, NEW n \in NetOf(A)
  PROVE  n \in NetOf(B)
<1>1. \A b : b \in Seq(A) => b \in Seq(B)
  OBVIOUS
<1>2. n.inbuf \in [Sock -> Seq(B)]
  BY <1>1, NetFields
<1> QED
  BY <1>2 DEF NetOf

-----------------------------------------------------------------------------
(***************************************************************************)
(* The tables of calls                                                     *)
(***************************************************************************)

\* The labels of each program's table.
LEMMA Domains ==
  /\ DOMAIN GuiCalls = {"g_exit", "g_stretch", "g_shift", "g_reverse", "g_ready", "g_tx", "g_rx"}
  /\ DOMAIN DspCalls = {"d_loop", "d_ready", "d_rxgui", "d_run", "d_started", "d_txrev",
     "d_done", "d_fetch", "d_rxrev", "d_txgui", "d_stop"}
  /\ DOMAIN ReverseCalls = {"r_recv", "r_ready", "r_rx", "r_done", "r_fetch", "r_tx"}
BY DEF GuiCalls, DspCalls, ReverseCalls

\* The calls of gui.cpp.
LEMMA GuiSites ==
  /\ Calls["g_exit"] = Send("gui", "exit", "g_quit")
  /\ Calls["g_stretch"] = Send("gui", "stretch", "menu")
  /\ Calls["g_shift"] = Send("gui", "shift", "menu")
  /\ Calls["g_reverse"] = Send("gui", "reverse", "g_ready")
  /\ Calls["g_ready"] = Recv("gui")
  /\ Calls["g_tx"] = SendAudio("gui", "g_rx")
  /\ Calls["g_rx"] = RecvAudio("gui", "g_set")
BY Domains DEF Calls, GuiCalls

\* The calls of dsp.cpp.
LEMMA DspSites ==
  /\ Calls["d_loop"] = Recv("dsp5500")
  /\ Calls["d_ready"] = Send("dsp5500", "ready", "d_rxgui")
  /\ Calls["d_rxgui"] = RecvAudio("dsp5500", "d_connect")
  /\ Calls["d_run"] = Send("dsp8800", "run", "d_started")
  /\ Calls["d_started"] = Recv("dsp8800")
  /\ Calls["d_txrev"] = SendAudio("dsp8800", "d_done")
  /\ Calls["d_done"] = Recv("dsp8800")
  /\ Calls["d_fetch"] = Send("dsp8800", "ready", "d_rxrev")
  /\ Calls["d_rxrev"] = RecvAudio("dsp8800", "d_txgui")
  /\ Calls["d_txgui"] = SendAudio("dsp5500", "d_loop")
  /\ Calls["d_stop"] = Send("dsp8800", "exit", "d_disc")
BY Domains DEF Calls, DspCalls

\* The calls of reverse.cpp.
LEMMA ReverseSites ==
  /\ Calls["r_recv"] = Recv("rev8800")
  /\ Calls["r_ready"] = Send("rev8800", "ready", "r_rx")
  /\ Calls["r_rx"] = RecvAudio("rev8800", "r_reverse")
  /\ Calls["r_done"] = Send("rev8800", "done", "r_fetch")
  /\ Calls["r_fetch"] = Recv("rev8800")
  /\ Calls["r_tx"] = SendAudio("rev8800", "r_disc")
BY Domains DEF Calls, ReverseCalls

SendAudioLabel == {"g_tx", "d_txrev", "d_txgui", "r_tx"}
RecvAudioLabel == {"g_rx", "d_rxgui", "d_rxrev", "r_rx"}

\* Where a program is only because the user has chosen Exit Program.
ExitLabel ==
  {"g_exit", "g_quit", "d_xconnect", "d_stop", "d_disc", "r_xdisc", "exited"}

\* The labels of all programs.
Label == GuiLabel \cup DspLabel \cup ReverseLabel

\* Every label belongs to a program.
LEMMA LabelsAreLabels ==
  ASSUME NEW p \in Program
  PROVE  LabelsOf(p) \subseteq Label
BY DEF LabelsOf, Label

\* What the table says of the calls of send_message: "exit" is sent only from
\* where the user has chosen it, and the next call is one of the same program.
LEMMA SendSites ==
  ASSUME NEW p \in Program, In(p, "send_message"), pc[p] \in LabelsOf(p)
  PROVE  /\ Site(p).sock \in Sock
         /\ Site(p).text \in Message
         /\ Site(p).next \in LabelsOf(p)
         /\ Site(p).text = "exit" => pc[p] \in ExitLabel
         /\ Site(p).next \in ExitLabel => pc[p] \in ExitLabel
         /\ pc[p] \notin SendAudioLabel \cup RecvAudioLabel \cup EndLabel
<1>0. pc[p] \in DOMAIN GuiCalls \cup DOMAIN DspCalls \cup DOMAIN ReverseCalls
  BY DEF In, Calls
<1>1. CASE p = "gui"
  <2>1. pc[p] \in {"g_exit", "g_stretch", "g_shift", "g_reverse", "g_ready",
                   "g_tx", "g_rx"}
    BY <1>0, <1>1, Domains DEF LabelsOf, GuiLabel, EndLabel
  <2> QED
    BY <1>1, <2>1, GuiSites
       DEF In, Site, Send, Recv, SendAudio, RecvAudio, Sock, Message, LabelsOf, GuiLabel, DspLabel, ReverseLabel,
           EndLabel, ExitLabel, SendAudioLabel, RecvAudioLabel
<1>2. CASE p = "dsp"
  <2>1. pc[p] \in {"d_loop", "d_ready", "d_rxgui", "d_run", "d_started", "d_txrev",
                   "d_done", "d_fetch", "d_rxrev", "d_txgui", "d_stop"}
    BY <1>0, <1>2, Domains DEF LabelsOf, DspLabel, EndLabel
  <2> QED
    BY <1>2, <2>1, DspSites
       DEF In, Site, Send, Recv, SendAudio, RecvAudio, Sock, Message, LabelsOf, GuiLabel, DspLabel, ReverseLabel,
           EndLabel, ExitLabel, SendAudioLabel, RecvAudioLabel
<1>3. CASE p = "rev"
  <2>1. pc[p] \in {"r_recv", "r_ready", "r_rx", "r_done", "r_fetch", "r_tx"}
    BY <1>0, <1>3, Domains DEF LabelsOf, ReverseLabel, EndLabel
  <2> QED
    BY <1>3, <2>1, ReverseSites
       DEF In, Site, Send, Recv, SendAudio, RecvAudio, Sock, Message, LabelsOf, GuiLabel, DspLabel, ReverseLabel,
           EndLabel, ExitLabel, SendAudioLabel, RecvAudioLabel
<1> QED
  BY <1>1, <1>2, <1>3 DEF Program

\* The calls of recv_message.
LEMMA RecvSites ==
  ASSUME NEW p \in Program, In(p, "recv_message"), pc[p] \in LabelsOf(p)
  PROVE  /\ Site(p).sock \in Sock
         /\ \/ p = "gui" /\ pc[p] = "g_ready"
            \/ p = "dsp" /\ pc[p] \in {"d_loop", "d_started", "d_done"}
            \/ p = "rev" /\ pc[p] \in {"r_recv", "r_fetch"}
<1>0. pc[p] \in DOMAIN GuiCalls \cup DOMAIN DspCalls \cup DOMAIN ReverseCalls
  BY DEF In, Calls
<1>1. CASE p = "gui"
  <2>1. pc[p] \in {"g_exit", "g_stretch", "g_shift", "g_reverse", "g_ready",
                   "g_tx", "g_rx"}
    BY <1>0, <1>1, Domains DEF LabelsOf, GuiLabel, EndLabel
  <2> QED
    BY <1>1, <2>1, GuiSites
       DEF In, Site, Send, Recv, SendAudio, RecvAudio, Sock
<1>2. CASE p = "dsp"
  <2>1. pc[p] \in {"d_loop", "d_ready", "d_rxgui", "d_run", "d_started", "d_txrev",
                   "d_done", "d_fetch", "d_rxrev", "d_txgui", "d_stop"}
    BY <1>0, <1>2, Domains DEF LabelsOf, DspLabel, EndLabel
  <2> QED
    BY <1>2, <2>1, DspSites
       DEF In, Site, Send, Recv, SendAudio, RecvAudio, Sock
<1>3. CASE p = "rev"
  <2>1. pc[p] \in {"r_recv", "r_ready", "r_rx", "r_done", "r_fetch", "r_tx"}
    BY <1>0, <1>3, Domains DEF LabelsOf, ReverseLabel, EndLabel
  <2> QED
    BY <1>3, <2>1, ReverseSites
       DEF In, Site, Send, Recv, SendAudio, RecvAudio, Sock
<1> QED
  BY <1>1, <1>2, <1>3 DEF Program

\* The calls of send_audio.
LEMMA SendAudioSites ==
  ASSUME NEW p \in Program, In(p, "send_audio"), pc[p] \in LabelsOf(p)
  PROVE  /\ Site(p).sock \in Sock
         /\ pc[p] \in SendAudioLabel
         /\ Site(p).next \in LabelsOf(p) \ ExitLabel
         /\ Site(p).next \notin SendAudioLabel
<1>0. pc[p] \in DOMAIN GuiCalls \cup DOMAIN DspCalls \cup DOMAIN ReverseCalls
  BY DEF In, Calls
<1>1. CASE p = "gui"
  <2>1. pc[p] \in {"g_exit", "g_stretch", "g_shift", "g_reverse", "g_ready",
                   "g_tx", "g_rx"}
    BY <1>0, <1>1, Domains DEF LabelsOf, GuiLabel, EndLabel
  <2> QED
    BY <1>1, <2>1, GuiSites
       DEF In, Site, Send, Recv, SendAudio, RecvAudio, Sock, LabelsOf, GuiLabel, DspLabel, ReverseLabel,
           EndLabel, ExitLabel, SendAudioLabel
<1>2. CASE p = "dsp"
  <2>1. pc[p] \in {"d_loop", "d_ready", "d_rxgui", "d_run", "d_started", "d_txrev",
                   "d_done", "d_fetch", "d_rxrev", "d_txgui", "d_stop"}
    BY <1>0, <1>2, Domains DEF LabelsOf, DspLabel, EndLabel
  <2> QED
    BY <1>2, <2>1, DspSites
       DEF In, Site, Send, Recv, SendAudio, RecvAudio, Sock, LabelsOf, GuiLabel, DspLabel, ReverseLabel,
           EndLabel, ExitLabel, SendAudioLabel
<1>3. CASE p = "rev"
  <2>1. pc[p] \in {"r_recv", "r_ready", "r_rx", "r_done", "r_fetch", "r_tx"}
    BY <1>0, <1>3, Domains DEF LabelsOf, ReverseLabel, EndLabel
  <2> QED
    BY <1>3, <2>1, ReverseSites
       DEF In, Site, Send, Recv, SendAudio, RecvAudio, Sock, LabelsOf, GuiLabel, DspLabel, ReverseLabel,
           EndLabel, ExitLabel, SendAudioLabel
<1> QED
  BY <1>1, <1>2, <1>3 DEF Program

\* The calls of recv_audio.
LEMMA RecvAudioSites ==
  ASSUME NEW p \in Program, In(p, "recv_audio"), pc[p] \in LabelsOf(p)
  PROVE  /\ Site(p).sock \in Sock
         /\ pc[p] \in RecvAudioLabel
         /\ Site(p).next \in LabelsOf(p) \ ExitLabel
<1>0. pc[p] \in DOMAIN GuiCalls \cup DOMAIN DspCalls \cup DOMAIN ReverseCalls
  BY DEF In, Calls
<1>1. CASE p = "gui"
  <2>1. pc[p] \in {"g_exit", "g_stretch", "g_shift", "g_reverse", "g_ready",
                   "g_tx", "g_rx"}
    BY <1>0, <1>1, Domains DEF LabelsOf, GuiLabel, EndLabel
  <2> QED
    BY <1>1, <2>1, GuiSites
       DEF In, Site, Send, Recv, SendAudio, RecvAudio, Sock, LabelsOf, GuiLabel, DspLabel, ReverseLabel,
           EndLabel, ExitLabel, RecvAudioLabel
<1>2. CASE p = "dsp"
  <2>1. pc[p] \in {"d_loop", "d_ready", "d_rxgui", "d_run", "d_started", "d_txrev",
                   "d_done", "d_fetch", "d_rxrev", "d_txgui", "d_stop"}
    BY <1>0, <1>2, Domains DEF LabelsOf, DspLabel, EndLabel
  <2> QED
    BY <1>2, <2>1, DspSites
       DEF In, Site, Send, Recv, SendAudio, RecvAudio, Sock, LabelsOf, GuiLabel, DspLabel, ReverseLabel,
           EndLabel, ExitLabel, RecvAudioLabel
<1>3. CASE p = "rev"
  <2>1. pc[p] \in {"r_recv", "r_ready", "r_rx", "r_done", "r_fetch", "r_tx"}
    BY <1>0, <1>3, Domains DEF LabelsOf, ReverseLabel, EndLabel
  <2> QED
    BY <1>3, <2>1, ReverseSites
       DEF In, Site, Send, Recv, SendAudio, RecvAudio, Sock, LabelsOf, GuiLabel, DspLabel, ReverseLabel,
           EndLabel, ExitLabel, RecvAudioLabel
<1> QED
  BY <1>1, <1>2, <1>3 DEF Program

\* What a message that was read makes a program do next.
LEMMA AfterTextSites ==
  ASSUME NEW p \in Program, In(p, "recv_message"), pc[p] \in LabelsOf(p),
         NEW text
  PROVE  /\ AfterText(pc[p], text) \in LabelsOf(p)
         /\ AfterText(pc[p], text) \in ExitLabel =>
              text = TextBytes("exit") \/ IsPrefix(TextBytes("exit"), text)
<1>1. CASE p = "gui" /\ pc[p] = "g_ready"
  <2>1. AfterText(pc[p], text) = "g_tx"
    BY <1>1, Zenon DEF AfterText
  <2> QED
    BY <1>1, <2>1 DEF LabelsOf, GuiLabel, ExitLabel
<1>2. CASE p = "dsp" /\ pc[p] = "d_loop"
  <2>1. AfterText(pc[p], text) = DspCommand(text)
    BY <1>2, Zenon DEF AfterText
  <2> QED
    BY <1>2, <2>1 DEF DspCommand, LabelsOf, DspLabel, ExitLabel
<1>3. CASE p = "dsp" /\ pc[p] = "d_started"
  <2>1. AfterText(pc[p], text) = DspStarted(text)
    BY <1>3, Zenon DEF AfterText
  <2> QED
    BY <1>3, <2>1 DEF DspStarted, LabelsOf, DspLabel, ExitLabel
<1>4. CASE p = "dsp" /\ pc[p] = "d_done"
  <2>1. AfterText(pc[p], text) = "d_fetch"
    BY <1>4, Zenon DEF AfterText
  <2> QED
    BY <1>4, <2>1 DEF LabelsOf, DspLabel, ExitLabel
<1>5. CASE p = "rev" /\ pc[p] = "r_recv"
  <2>1. AfterText(pc[p], text) = ReverseCommand(text)
    BY <1>5, Zenon DEF AfterText
  <2> QED
    BY <1>5, <2>1 DEF ReverseCommand, LabelsOf, ReverseLabel, ExitLabel
<1>6. CASE p = "rev" /\ pc[p] = "r_fetch"
  <2>1. AfterText(pc[p], text) = ReverseFetch(text)
    BY <1>6, Zenon DEF AfterText
  <2> QED
    BY <1>6, <2>1 DEF ReverseFetch, LabelsOf, ReverseLabel, ExitLabel
<1> QED
  BY <1>1, <1>2, <1>3, <1>4, <1>5, <1>6, RecvSites

-----------------------------------------------------------------------------
(***************************************************************************)
(* The bytes that may be on a stream: those of "exit" only once the user   *)
(* has chosen Exit Program.                                                *)
(***************************************************************************)
BytesIf(exit) == IF exit THEN Byte ELSE {b \in Byte : b[1] # "exit"}

\* The bytes of a text.
LEMMA TextAllowed ==
  ASSUME NEW m \in Message, NEW e \in BOOLEAN, m = "exit" => e
  PROVE  TextBytes(m) \in Seq(BytesIf(e))
<1>1. MSG_BYTES \in Nat
  BY StreamAssumption
<1>2. \A k \in 1 .. MSG_BYTES : <<m, k>> \in Byte
  BY DEF Byte
<1>3. \A k \in 1 .. MSG_BYTES : <<m, k>> \in BytesIf(e)
  BY <1>2 DEF BytesIf
<1> QED
  BY <1>1, <1>3 DEF TextBytes

\* A sequence whose elements are all in T.
LEMMA SeqNarrows ==
  ASSUME NEW S, NEW T, NEW s \in Seq(S), \A k \in 1 .. Len(s) : s[k] \in T
  PROVE  s \in Seq(T)
<1>1. Len(s) \in Nat /\ s \in [1 .. Len(s) -> T]
  <2>1. Len(s) \in Nat /\ DOMAIN s = 1 .. Len(s)
    OBVIOUS
  <2>2. s = [k \in 1 .. Len(s) |-> s[k]]
    OBVIOUS
  <2> QED
    BY <2>1, <2>2
<1> QED
  BY <1>1, SeqDef

\* The bytes of samples: no float is a text.
LEMMA AudioAllowed ==
  ASSUME NEW ch \in Seq(Float), NEW e \in BOOLEAN
  PROVE  AudioBytes(ch) \in Seq(BytesIf(e))
<1> DEFINE b == AudioBytes(ch)
           F == FLOAT_BYTES
           L == Len(ch)
<1>1. F \in Nat \ {0} /\ L \in Nat
  BY StreamAssumption
<1>2. b \in Seq(Byte)
  BY AudioBytesIndex
<1>3. \A k \in 1 .. L * F : ch[((k - 1) \div F) + 1] \in Float
  <2> HIDE DEF F, L
  <2>1. \A k \in 1 .. L * F : ((k - 1) \div F) \in 0 .. L - 1
    BY <1>1, ByteRange
  <2>2. \A j \in 0 .. L - 1 : j + 1 \in 1 .. L
    BY <1>1
  <2>3. \A j \in 1 .. L : ch[j] \in Float
    BY DEF L
  <2> QED
    BY <2>1, <2>2, <2>3
<1>4. "exit" \notin Float
  BY TagAssumption DEF Message
<1>5. \A k \in DOMAIN b : b[k][1] # "exit"
  BY <1>3, <1>4 DEF AudioBytes
<1>6. \A k \in 1 .. Len(b) : b[k] \in BytesIf(e)
  <2> HIDE DEF b
  <2> QED
    BY <1>2, <1>5 DEF BytesIf
<1>7. b \in Seq(BytesIf(e))
  <2> HIDE DEF b
  <2> QED
    BY <1>2, <1>6, SeqNarrows
<1> QED
  BY <1>7

\* "exit" is read only when it may be on a stream.
LEMMA ExitRead ==
  ASSUME NEW e \in BOOLEAN, NEW text \in Seq(BytesIf(e)),
         text = TextBytes("exit") \/ IsPrefix(TextBytes("exit"), text)
  PROVE  e
<1> DEFINE x == TextBytes("exit")
<1>1. MSG_BYTES \in Nat \ {0}
  BY StreamAssumption
<1>2. x \in Seq(Message \X (1 .. MSG_BYTES)) /\ Len(x) = MSG_BYTES /\ x[1] = <<"exit", 1>>
  BY <1>1 DEF TextBytes, Message
<1> HIDE DEF x
<1>3. Len(text) >= 1 /\ text[1] = x[1]
  <2>1. CASE text = x
    BY <1>1, <1>2, <2>1
  <2>2. CASE IsPrefix(x, text)
    <3>1. Len(x) <= Len(text) /\ SubSeq(x, 1, Len(x)) = SubSeq(text, 1, Len(x))
      BY <2>2 DEF IsPrefix
    <3>2. SubSeq(x, 1, Len(x))[1] = x[1]
      BY <1>1, <1>2
    <3>3. SubSeq(text, 1, Len(x))[1] = text[1]
      BY <1>1, <1>2, <3>1
    <3> QED
      BY <1>1, <1>2, <3>1, <3>2, <3>3
  <2> QED
    BY <2>1, <2>2 DEF x
<1>4. text[1] \in BytesIf(e)
  BY <1>3
<1>5. text[1][1] = "exit"
  <2>1. text[1] = <<"exit", 1>>
    BY <1>2, <1>3
  <2> QED
    BY <2>1
<1> QED
  BY <1>4, <1>5 DEF BytesIf

\* How many bytes one read takes.
LEMMA ReadSize ==
  ASSUME NEW a \in Nat, NEW cap \in Nat \ {0}, NEW n \in ReadSizes(a, cap)
  PROVE  n \in 1 .. a
BY StreamAssumption DEF ReadSizes

\* The bytes that one read takes.
LEMMA ReadAllowed ==
  ASSUME NEW B, NEW b \in Seq(B), NEW n \in 0 .. Len(b)
  PROVE  SubSeq(b, 1, n) \in Seq(B)
OBVIOUS
-----------------------------------------------------------------------------
(***************************************************************************)
(* The inductive invariant: what all programs share, and what each program *)
(* is in the middle of.                                                    *)
(***************************************************************************)
Channels == [1 .. 2 -> Seq(Float)]

SharedInv ==
  /\ pc \in [Program -> Label]
  /\ stage \in [Program -> {"left", "confirm", "right"}]
  /\ buffer_idx \in [Program -> Nat]
  /\ audio \in [Program -> Channels]
  /\ file \in Channels
  /\ loaded \in BOOLEAN
  /\ commands \in [made : 0 .. MaxCommands, exit : BOOLEAN]
  /\ net \in NetOf(BytesIf(commands.exit))

\* A program is in a call of its own; send_audio and recv_audio start at the
\* left channel and its first sample; send_audio is at the start of a chunk,
\* inside the channel; and no program is on its way out unless the user has
\* chosen Exit Program.
ProgramInv(p) ==
  /\ pc[p] \in LabelsOf(p)
  /\ stage[p] = "confirm" => buffer_idx[p] = 0
  /\ pc[p] \notin SendAudioLabel \cup RecvAudioLabel \cup EndLabel =>
       stage[p] = "left" /\ buffer_idx[p] = 0
  /\ (pc[p] \in SendAudioLabel /\ stage[p] # "confirm") =>
       /\ Multiple(buffer_idx[p])
       /\ buffer_idx[p] < Len(Cells(Outgoing(p)[ChannelOf(p)]))
  /\ pc[p] \in ExitLabel => commands.exit

WaveTechInv == SharedInv /\ \A p \in Program : ProgramInv(p)

\* A container before anything has been received.
LEMMA EmptyType == Empty \in Channels
<1>1. <<>> \in Seq(Float)
  OBVIOUS
<1>2. Empty \in Seq(Seq(Float)) /\ Len(Empty) = 2
  BY <1>1 DEF Empty
<1>3. Empty = [c \in 1 .. 2 |-> Empty[c]]
  BY <1>2
<1>4. \A c \in 1 .. 2 : Empty[c] \in Seq(Float)
  BY <1>2
<1> HIDE DEF Empty
<1> QED
  BY <1>3, <1>4 DEF Channels

\* A step of another program leaves this one where it is.
LEMMA Undisturbed ==
  ASSUME NEW p, ProgramInv(p),
         pc'[p] = pc[p], stage'[p] = stage[p], buffer_idx'[p] = buffer_idx[p],
         pc[p] \in SendAudioLabel => Outgoing(p)' = Outgoing(p),
         commands.exit => commands.exit'
  PROVE  ProgramInv(p)'
<1>1. ChannelOf(p)' = ChannelOf(p)
  BY DEF ChannelOf
<1> QED
  BY <1>1 DEF ProgramInv

\* What send_audio writes is a pair of channels.
LEMMA OutgoingType ==
  ASSUME SharedInv, NEW p \in Program
  PROVE  /\ Outgoing(p) \in Channels
         /\ ChannelOf(p) \in 1 .. 2
         /\ Outgoing(p)[ChannelOf(p)] \in Seq(Float)
BY DEF SharedInv, Outgoing, ChannelOf, Channels

\* A program enters a call, or the next channel of one, with its cursor at 0.
LEMMA Starts ==
  ASSUME NEW p \in Program, SharedInv', pc'[p] \in LabelsOf(p),
         buffer_idx'[p] = 0,
         pc'[p] \notin SendAudioLabel \cup RecvAudioLabel \cup EndLabel =>
           stage'[p] = "left",
         pc'[p] \in ExitLabel => commands.exit'
  PROVE  ProgramInv(p)'
<1> DEFINE ch == Outgoing(p)[ChannelOf(p)]
<1>1. (Outgoing(p) \in Channels /\ ChannelOf(p) \in 1 .. 2)'
  BY DEF SharedInv, Outgoing, ChannelOf, Channels
<1>2. ch' \in Seq(Float)
  BY <1>1 DEF Channels
<1>3. Multiple(0) /\ 0 < Len(Cells(ch'))
  BY <1>2, CursorStarts
<1>4. Cells(ch)' = Cells(ch')
  BY DEF Cells
<1> HIDE DEF ch
<1> QED
  BY <1>3, <1>4 DEF ProgramInv, ch

\* A step of program p: what it has to keep.
LEMMA OneProgram ==
  ASSUME WaveTechInv, NEW p \in Program, SharedInv', ProgramInv(p)',
         \A q \in Program \ {p} :
           /\ pc'[q] = pc[q] /\ stage'[q] = stage[q]
           /\ buffer_idx'[q] = buffer_idx[q]
           /\ Outgoing(q)' = Outgoing(q),
         commands.exit => commands.exit'
  PROVE  WaveTechInv'
<1>1. \A q \in Program \ {p} : ProgramInv(q)'
  BY Undisturbed DEF WaveTechInv
<1> QED
  BY <1>1 DEF WaveTechInv

\* A step from one call to the next that keeps the audio.
LEMMA NextCall ==
  ASSUME WaveTechInv, NEW p \in Program, NEW l \in LabelsOf(p),
         Goto(p, l), l \in ExitLabel => commands.exit,
         net' \in NetOf(BytesIf(commands.exit)),
         stage[p] = "left" /\ buffer_idx[p] = 0,
         UNCHANGED <<stage, buffer_idx, audio, file, loaded, commands>>
  PROVE  WaveTechInv'
<1>1. l \in Label
  BY LabelsAreLabels
<1>2. pc' = [pc EXCEPT ![p] = l] /\ pc \in [Program -> Label]
  BY DEF Goto, WaveTechInv, SharedInv
<1>3. SharedInv'
  BY <1>1, <1>2 DEF WaveTechInv, SharedInv
<1>4. ProgramInv(p)'
  BY <1>2, <1>3, Starts
<1>5. \A q \in Program \ {p} : pc'[q] = pc[q] /\ Outgoing(q)' = Outgoing(q)
  BY <1>2 DEF Outgoing
<1> QED
  BY <1>3, <1>4, <1>5, OneProgram

\* A program ends.
LEMMA Ends ==
  ASSUME WaveTechInv, NEW p \in Program, NEW how \in EndLabel,
         EndWith(p, how), how = "exited" => commands.exit
  PROVE  WaveTechInv'
<1>1. how \in LabelsOf(p)
  BY DEF LabelsOf, GuiLabel, DspLabel, ReverseLabel
<1>2. how \in Label
  BY <1>1, LabelsAreLabels
<1>3. /\ pc' = [pc EXCEPT ![p] = how] /\ pc \in [Program -> Label]
      /\ UNCHANGED <<stage, buffer_idx, audio, file, loaded, commands>>
  BY DEF EndWith, Goto, WaveTechInv, SharedInv
<1>4. net' \in NetOf(BytesIf(commands.exit))
  BY CloseAllType DEF EndWith, WaveTechInv, SharedInv
<1>5. SharedInv'
  BY <1>2, <1>3, <1>4 DEF WaveTechInv, SharedInv
<1>6. ProgramInv(p)'
  BY <1>1, <1>3 DEF WaveTechInv, ProgramInv, EndLabel, SendAudioLabel, ExitLabel
<1>7. \A q \in Program \ {p} : pc'[q] = pc[q] /\ Outgoing(q)' = Outgoing(q)
  BY <1>3 DEF Outgoing
<1> QED
  BY <1>3, <1>5, <1>6, <1>7, OneProgram
-----------------------------------------------------------------------------
(***************************************************************************)
(* One lemma for each action                                               *)
(***************************************************************************)

\* send_message writes the bytes of its text.
LEMMA SendMessageKeeps ==
  ASSUME WaveTechInv, NEW p \in Program, SendMessage(p)
  PROVE  WaveTechInv'
<1>1. In(p, "send_message") /\ pc[p] \in LabelsOf(p)
  BY DEF SendMessage, WaveTechInv, ProgramInv
<1>2. /\ Site(p).sock \in Sock
      /\ Site(p).text \in Message
      /\ Site(p).next \in LabelsOf(p)
      /\ Site(p).text = "exit" => pc[p] \in ExitLabel
      /\ Site(p).next \in ExitLabel => pc[p] \in ExitLabel
      /\ pc[p] \notin SendAudioLabel \cup RecvAudioLabel \cup EndLabel
  BY <1>1, SendSites
<1>3. /\ pc[p] \in ExitLabel => commands.exit
      /\ stage[p] = "left" /\ buffer_idx[p] = 0
  BY <1>2 DEF WaveTechInv, ProgramInv
<1>4. CASE WriteFails(net, Site(p).sock)
  BY <1>4, Ends DEF SendMessage, EndLabel
<1>5. CASE ~WriteFails(net, Site(p).sock)
  <2>1. commands.exit \in BOOLEAN
    BY DEF WaveTechInv, SharedInv
  <2>2. TextBytes(Site(p).text) \in Seq(BytesIf(commands.exit))
    BY <1>2, <1>3, <2>1, TextAllowed
  <2>3. net \in NetOf(BytesIf(commands.exit))
    BY DEF WaveTechInv, SharedInv
  <2>4. Write(net, Site(p).sock, TextBytes(Site(p).text))
          \in NetOf(BytesIf(commands.exit))
    BY <1>2, <2>2, <2>3, WriteType
  <2>5. /\ net' = Write(net, Site(p).sock, TextBytes(Site(p).text))
        /\ Goto(p, Site(p).next)
        /\ UNCHANGED <<stage, buffer_idx, audio, file, loaded, commands>>
    BY <1>5 DEF SendMessage
  <2> QED
    BY <1>2, <1>3, <2>4, <2>5, NextCall
<1> QED
  BY <1>4, <1>5

\* recv_message takes for "exit" only what the user has sent.
LEMMA RecvMessageKeeps ==
  ASSUME WaveTechInv, NEW p \in Program, RecvMessage(p)
  PROVE  WaveTechInv'
<1> DEFINE s == Site(p).sock
           B == BytesIf(commands.exit)
<1>1. In(p, "recv_message") /\ pc[p] \in LabelsOf(p)
  BY DEF RecvMessage, WaveTechInv, ProgramInv
<1>2. s \in Sock
  BY <1>1, RecvSites
<1>3. stage[p] = "left" /\ buffer_idx[p] = 0
  <2>1. pc[p] \notin SendAudioLabel \cup RecvAudioLabel \cup EndLabel
    BY <1>1, RecvSites DEF SendAudioLabel, RecvAudioLabel, EndLabel
  <2> QED
    BY <2>1 DEF WaveTechInv, ProgramInv
<1>4. net \in NetOf(B) /\ net.inbuf[s] \in Seq(B) /\ commands.exit \in BOOLEAN
  BY <1>2, NetFields DEF WaveTechInv, SharedInv
<1>5. CASE EndWith(p, "crashed")
  BY <1>5, Ends DEF EndLabel
<1>6. ASSUME NEW n \in ReadSizes(Len(net.inbuf[s]), RECV_CAP),
             Goto(p, AfterText(pc[p], SubSeq(net.inbuf[s], 1, n))),
             net' = Take(net, s, n),
             UNCHANGED <<stage, buffer_idx, audio, file, loaded, commands>>
      PROVE  WaveTechInv'
  <2> DEFINE text == SubSeq(net.inbuf[s], 1, n)
  <2>1. n \in 0 .. Len(net.inbuf[s])
    BY <1>4, StreamAssumption, ReadSize
  <2>2. text \in Seq(B)
    BY <1>4, <2>1, ReadAllowed
  <2>3. Take(net, s, n) \in NetOf(B)
    BY <1>2, <1>4, <2>1, TakeType
  <2> HIDE DEF text
  <2>4. AfterText(pc[p], text) \in LabelsOf(p)
    BY <1>1, AfterTextSites
  <2>5. AfterText(pc[p], text) \in ExitLabel => commands.exit
    <3>1. AfterText(pc[p], text) \in ExitLabel =>
            text = TextBytes("exit") \/ IsPrefix(TextBytes("exit"), text)
      BY <1>1, AfterTextSites
    <3> QED
      BY <1>4, <2>2, <3>1, ExitRead
  <2>6. Goto(p, AfterText(pc[p], text))
    BY <1>6 DEF text
  <2> QED
    BY <1>3, <1>6, <2>3, <2>4, <2>5, <2>6, NextCall
<1> QED
  BY <1>5, <1>6 DEF RecvMessage

\* acceptor: bind and listen.
LEMMA BindKeeps ==
  ASSUME WaveTechInv, NEW p \in Program, Bind(p)
  PROVE  WaveTechInv'
<1> DEFINE B == BytesIf(commands.exit)
<1>1. pc[p] \in LabelsOf(p) /\ net \in NetOf(B)
  BY DEF WaveTechInv, ProgramInv, SharedInv
<1>2. stage[p] = "left" /\ buffer_idx[p] = 0
  BY DEF Bind, WaveTechInv, ProgramInv, SendAudioLabel, RecvAudioLabel, EndLabel
<1>3. UNCHANGED <<stage, buffer_idx, audio, file, loaded, commands>>
  BY DEF Bind
<1>4. CASE pc[p] = "d_bind" /\ Goto(p, "d_accept") /\ net' = Listen(net, 5500)
  <2>1. "d_accept" \in LabelsOf(p) /\ "d_accept" \notin ExitLabel
    BY <1>1, <1>4 DEF LabelsOf, GuiLabel, DspLabel, ReverseLabel, EndLabel, ExitLabel
  <2>2. net' \in NetOf(B)
    BY <1>1, <1>4, ListenType DEF Port
  <2> QED
    BY <1>2, <1>3, <1>4, <2>1, <2>2, NextCall
<1>5. CASE pc[p] = "r_bind" /\ Goto(p, "r_accept") /\ net' = Listen(net, 8800)
  <2>1. "r_accept" \in LabelsOf(p) /\ "r_accept" \notin ExitLabel
    BY <1>1, <1>5 DEF LabelsOf, GuiLabel, DspLabel, ReverseLabel, EndLabel, ExitLabel
  <2>2. net' \in NetOf(B)
    BY <1>1, <1>5, ListenType DEF Port
  <2> QED
    BY <1>2, <1>3, <1>5, <2>1, <2>2, NextCall
<1> QED
  BY <1>4, <1>5 DEF Bind

\* DownstreamPipe::connect.
LEMMA AcceptClientKeeps ==
  ASSUME WaveTechInv, NEW p \in Program, AcceptClient(p)
  PROVE  WaveTechInv'
<1> DEFINE B == BytesIf(commands.exit)
<1>1. pc[p] \in LabelsOf(p) /\ net \in NetOf(B)
  BY DEF WaveTechInv, ProgramInv, SharedInv
<1>2. stage[p] = "left" /\ buffer_idx[p] = 0
  BY DEF AcceptClient, WaveTechInv, ProgramInv, SendAudioLabel, RecvAudioLabel,
         EndLabel
<1>3. UNCHANGED <<stage, buffer_idx, audio, file, loaded, commands>>
  BY DEF AcceptClient
<1>4. CASE /\ pc[p] = "d_accept" /\ Goto(p, "d_loop")
           /\ net' = Accept(net, "dsp5500", 5500)
  <2>1. "d_loop" \in LabelsOf(p) /\ "d_loop" \notin ExitLabel
    BY <1>1, <1>4 DEF LabelsOf, GuiLabel, DspLabel, ReverseLabel, EndLabel, ExitLabel
  <2>2. net' \in NetOf(B)
    BY <1>1, <1>4, AcceptType DEF Sock, Port
  <2> QED
    BY <1>2, <1>3, <1>4, <2>1, <2>2, NextCall
<1>5. CASE /\ pc[p] = "r_accept" /\ Goto(p, "r_recv")
           /\ net' = Accept(net, "rev8800", 8800)
  <2>1. "r_recv" \in LabelsOf(p) /\ "r_recv" \notin ExitLabel
    BY <1>1, <1>5 DEF LabelsOf, GuiLabel, DspLabel, ReverseLabel, EndLabel, ExitLabel
  <2>2. net' \in NetOf(B)
    BY <1>1, <1>5, AcceptType DEF Sock, Port
  <2> QED
    BY <1>2, <1>3, <1>5, <2>1, <2>2, NextCall
<1> QED
  BY <1>4, <1>5 DEF AcceptClient
\* UpstreamPipe::connect of the dsp.
LEMMA ConnectReverseKeeps ==
  ASSUME WaveTechInv, NEW p \in Program, ConnectReverse(p)
  PROVE  WaveTechInv'
<1> DEFINE B == BytesIf(commands.exit)
           l == IF pc[p] = "d_connect" THEN "d_run" ELSE "d_stop"
<1>1. /\ pc[p] \in LabelsOf(p) /\ net \in NetOf(B)
      /\ pc[p] \in ExitLabel => commands.exit
  BY DEF WaveTechInv, ProgramInv, SharedInv
<1>2. pc[p] \in {"d_connect", "d_xconnect"}
  BY DEF ConnectReverse
<1>3. stage[p] = "left" /\ buffer_idx[p] = 0
  BY <1>2 DEF WaveTechInv, ProgramInv, SendAudioLabel, RecvAudioLabel, EndLabel
<1>4. CASE ~net.listening[8800]
  BY <1>4, Ends DEF ConnectReverse, EndLabel
<1>5. CASE net.listening[8800]
  <2>1. /\ net' = Connect(net, "dsp8800", 8800) /\ Goto(p, l)
        /\ UNCHANGED <<stage, buffer_idx, audio, file, loaded, commands>>
    BY <1>5 DEF ConnectReverse
  <2>2. l \in LabelsOf(p) /\ (l \in ExitLabel => commands.exit)
    BY <1>1, <1>2 DEF LabelsOf, GuiLabel, DspLabel, ReverseLabel, EndLabel, ExitLabel
  <2>3. "dsp8800" \in Sock /\ 8800 \in Port
    BY DEF Sock, Port
  <2>4. Connect(net, "dsp8800", 8800) \in NetOf(B)
    BY <1>1, <2>3, ConnectType
  <2> HIDE DEF l
  <2> QED
    BY <1>3, <2>1, <2>2, <2>4, NextCall
<1> QED
  BY <1>4, <1>5

\* DownstreamPipe::disconnect.
LEMMA DisconnectKeeps ==
  ASSUME WaveTechInv, NEW p \in Program, Disconnect(p)
  PROVE  WaveTechInv'
<1> DEFINE B == BytesIf(commands.exit)
           s == IF p = "dsp" THEN "dsp5500" ELSE "rev8800"
<1>1. /\ pc[p] \in LabelsOf(p) /\ net \in NetOf(B)
      /\ pc[p] \in ExitLabel => commands.exit
  BY DEF WaveTechInv, ProgramInv, SharedInv
<1>2. pc[p] \in {"d_disc", "r_disc", "r_xdisc"}
  BY DEF Disconnect
<1>3. CASE net.status[s] = "reset"
  BY <1>3, Ends DEF Disconnect, EndLabel
<1>4. CASE net.status[s] # "reset" /\ pc[p] = "r_disc"
  <2>1. stage[p] = "left" /\ buffer_idx[p] = 0
    BY <1>4 DEF WaveTechInv, ProgramInv, SendAudioLabel, RecvAudioLabel, EndLabel
  <2>2. /\ net' = Close(net, s) /\ Goto(p, "r_drop")
        /\ UNCHANGED <<stage, buffer_idx, audio, file, loaded, commands>>
    BY <1>4 DEF Disconnect
  <2>3. "r_drop" \in LabelsOf(p) /\ "r_drop" \notin ExitLabel
    BY <1>1, <1>4 DEF LabelsOf, GuiLabel, DspLabel, ReverseLabel, EndLabel, ExitLabel
  <2>4. s \in Sock
    BY DEF Sock
  <2> HIDE DEF s
  <2>5. Close(net, s) \in NetOf(B)
    BY <1>1, <2>4, CloseType
  <2> QED
    BY <2>1, <2>2, <2>3, <2>5, NextCall
<1>5. CASE net.status[s] # "reset" /\ pc[p] # "r_disc"
  <2>1. EndWith(p, "exited")
    BY <1>5 DEF Disconnect
  <2>2. commands.exit
    BY <1>1, <1>2, <1>5 DEF ExitLabel
  <2> QED
    BY <2>1, <2>2, Ends DEF EndLabel
<1> QED
  BY <1>3, <1>4, <1>5

\* The end of the reverse service's loop body.
LEMMA DropPipeKeeps ==
  ASSUME WaveTechInv, NEW p \in Program, DropPipe(p)
  PROVE  WaveTechInv'
<1>1. /\ pc[p] \in LabelsOf(p) /\ net \in NetOf(BytesIf(commands.exit))
      /\ pc[p] = "r_drop"
  BY DEF WaveTechInv, ProgramInv, SharedInv, DropPipe
<1>2. stage[p] = "left" /\ buffer_idx[p] = 0
  BY <1>1 DEF WaveTechInv, ProgramInv, SendAudioLabel, RecvAudioLabel, EndLabel
<1>3. "r_bind" \in LabelsOf(p) /\ "r_bind" \notin ExitLabel
  BY <1>1 DEF LabelsOf, GuiLabel, DspLabel, ReverseLabel, EndLabel, ExitLabel
<1>4. /\ net' = CloseAll(net, p) /\ Goto(p, "r_bind")
      /\ UNCHANGED <<stage, buffer_idx, audio, file, loaded, commands>>
  BY DEF DropPipe, EndWith
<1>5. net' \in NetOf(BytesIf(commands.exit))
  BY <1>1, <1>4, CloseAllType
<1> QED
  BY <1>2, <1>3, <1>4, <1>5, NextCall

\* The gui is started.
LEMMA StartGuiKeeps ==
  ASSUME WaveTechInv, StartGui
  PROVE  WaveTechInv'
<1> DEFINE B == BytesIf(commands.exit)
<1>1. "gui" \in Program /\ net \in NetOf(B) /\ pc["gui"] = "g_connect"
  BY DEF Program, WaveTechInv, SharedInv, StartGui
<1>2. CASE net.listening[5500]
  <2>1. /\ net' = Connect(net, "gui", 5500) /\ Goto("gui", "menu")
        /\ UNCHANGED <<stage, buffer_idx, audio, file, loaded, commands>>
    BY <1>2 DEF StartGui
  <2>2. stage["gui"] = "left" /\ buffer_idx["gui"] = 0
    BY <1>1 DEF WaveTechInv, ProgramInv, SendAudioLabel, RecvAudioLabel, EndLabel
  <2>3. "menu" \in LabelsOf("gui") /\ "menu" \notin ExitLabel
    BY DEF LabelsOf, GuiLabel, ExitLabel
  <2>4. "gui" \in Sock /\ 5500 \in Port
    BY DEF Sock, Port
  <2>5. Connect(net, "gui", 5500) \in NetOf(B)
    BY <1>1, <2>4, ConnectType
  <2> QED
    BY <1>1, <2>1, <2>2, <2>3, <2>5, NextCall
<1>3. CASE ~net.listening[5500]
  BY <1>1, <1>3, Ends DEF StartGui, EndLabel
<1> QED
  BY <1>2, <1>3
-----------------------------------------------------------------------------
(***************************************************************************)
(* The steps of send_audio and recv_audio                                  *)
(***************************************************************************)

\* Program p goes on in its call of send_audio or recv_audio, or leaves it.
LEMMA AudioStep ==
  ASSUME WaveTechInv, NEW p \in Program,
         NEW l \in LabelsOf(p), NEW st \in {"left", "confirm", "right"},
         NEW i \in Nat,
         pc' = [pc EXCEPT ![p] = l], stage' = [stage EXCEPT ![p] = st],
         buffer_idx' = [buffer_idx EXCEPT ![p] = i],
         audio' \in [Program -> Channels],
         \A q \in Program \ {p} : audio'[q] = audio[q],
         net' \in NetOf(BytesIf(commands.exit)),
         UNCHANGED <<file, loaded, commands>>,
         SharedInv' => ProgramInv(p)'
  PROVE  WaveTechInv'
<1>1. l \in Label
  BY LabelsAreLabels
<1>2. /\ pc \in [Program -> Label]
      /\ stage \in [Program -> {"left", "confirm", "right"}]
      /\ buffer_idx \in [Program -> Nat]
  BY DEF WaveTechInv, SharedInv
<1>3. SharedInv'
  BY <1>1, <1>2 DEF WaveTechInv, SharedInv
<1>4. \A q \in Program \ {p} :
        /\ pc'[q] = pc[q] /\ stage'[q] = stage[q]
        /\ buffer_idx'[q] = buffer_idx[q]
        /\ Outgoing(q)' = Outgoing(q)
  BY <1>2 DEF Outgoing
<1> QED
  BY <1>3, <1>4, OneProgram

\* The same, when the next call or the next channel starts.
LEMMA AudioStart ==
  ASSUME WaveTechInv, NEW p \in Program,
         NEW l \in LabelsOf(p), NEW st \in {"left", "confirm", "right"},
         pc' = [pc EXCEPT ![p] = l], Advance(p, st),
         l \notin ExitLabel,
         l \in SendAudioLabel \cup RecvAudioLabel \/ st = "left",
         audio' \in [Program -> Channels],
         \A q \in Program \ {p} : audio'[q] = audio[q],
         net' \in NetOf(BytesIf(commands.exit)),
         UNCHANGED <<file, loaded, commands>>
  PROVE  WaveTechInv'
<1>1. /\ pc \in [Program -> Label]
      /\ stage \in [Program -> {"left", "confirm", "right"}]
      /\ buffer_idx \in [Program -> Nat]
  BY DEF WaveTechInv, SharedInv
<1>2. /\ stage' = [stage EXCEPT ![p] = st]
      /\ buffer_idx' = [buffer_idx EXCEPT ![p] = 0]
  BY DEF Advance
<1>3. pc'[p] = l /\ stage'[p] = st /\ buffer_idx'[p] = 0
  BY <1>1, <1>2
<1>4. SharedInv' => ProgramInv(p)'
  BY <1>3, Starts
<1> QED
  BY <1>2, <1>4, AudioStep

\* One chunk of send_audio.
LEMMA SendChunkKeeps ==
  ASSUME WaveTechInv, NEW p \in Program, SendChunk(p)
  PROVE  WaveTechInv'
<1> DEFINE B   == BytesIf(commands.exit)
           ch  == Outgoing(p)[ChannelOf(p)]
           idx == buffer_idx[p]
<1>1. /\ In(p, "send_audio") /\ stage[p] # "confirm"
      /\ pc[p] \in LabelsOf(p)
      /\ UNCHANGED <<audio, file, loaded, commands>>
  BY DEF SendChunk, WaveTechInv, ProgramInv
<1>2. /\ Site(p).sock \in Sock
      /\ pc[p] \in SendAudioLabel
      /\ Site(p).next \in LabelsOf(p) \ ExitLabel
  BY <1>1, SendAudioSites
<1>3. /\ Multiple(idx) /\ idx < Len(Cells(ch))
      /\ idx \in Nat /\ ch \in Seq(Float)
      /\ stage[p] \in {"left", "right"}
  BY <1>1, <1>2, OutgoingType DEF WaveTechInv, ProgramInv, SharedInv
<1>4. /\ net \in NetOf(B) /\ commands.exit \in BOOLEAN
      /\ pc \in [Program -> Label]
      /\ stage \in [Program -> {"left", "confirm", "right"}]
      /\ audio \in [Program -> Channels]
  BY DEF WaveTechInv, SharedInv
<1>5. net' \in NetOf(B)
  <2>1. AudioBytes(Chunk(ch, idx)) \in Seq(B)
    <3> HIDE DEF ch, idx
    <3>1. Chunk(ch, idx) \in Seq(Float)
      BY <1>3, ChunkOfFloats
    <3> QED
      BY <1>4, <3>1, AudioAllowed
  <2>2. net' = IF Chunk(ch, idx) = <<>> THEN net
               ELSE Write(net, Site(p).sock, AudioBytes(Chunk(ch, idx)))
    BY DEF SendChunk
  <2>3. Write(net, Site(p).sock, AudioBytes(Chunk(ch, idx))) \in NetOf(B)
    BY <1>2, <1>4, <2>1, WriteType
  <2> QED
    BY <1>4, <2>2, <2>3
<1>6. CASE ~LastChunk(ch, idx)
  <2>1. /\ buffer_idx' = [buffer_idx EXCEPT ![p] = idx + CHUNK_SIZE]
        /\ UNCHANGED <<pc, stage>>
    BY <1>6 DEF SendChunk
  <2>2. /\ idx + CHUNK_SIZE < Len(Cells(ch)) /\ Multiple(idx + CHUNK_SIZE)
        /\ idx + CHUNK_SIZE \in Nat
    <3> HIDE DEF ch, idx
    <3> QED
      BY <1>3, <1>6, ChunkOfFloats, StreamAssumption
  <2>3. /\ pc' = [pc EXCEPT ![p] = pc[p]] /\ stage' = [stage EXCEPT ![p] = stage[p]]
        /\ buffer_idx'[p] = idx + CHUNK_SIZE
        /\ stage'[p] = stage[p] /\ pc'[p] = pc[p]
    BY <1>4, <2>1 DEF WaveTechInv, SharedInv
  <2>4. Outgoing(p)' = Outgoing(p) /\ ChannelOf(p)' = ChannelOf(p)
    BY <1>1, <2>3 DEF Outgoing, ChannelOf
  <2>5. ProgramInv(p)'
    BY <1>1, <1>2, <2>2, <2>3, <2>4 DEF WaveTechInv, ProgramInv
  <2> QED
    BY <1>1, <1>3, <1>4, <1>5, <2>1, <2>2, <2>3, <2>5, AudioStep
<1>7. CASE LastChunk(ch, idx) /\ stage[p] = "left"
  <2>1. Advance(p, "confirm") /\ UNCHANGED pc
    BY <1>7 DEF SendChunk
  <2>2. pc' = [pc EXCEPT ![p] = pc[p]] /\ pc[p] \notin ExitLabel
    BY <1>2, <1>4, <2>1 DEF SendAudioLabel, ExitLabel
  <2> QED
    BY <1>1, <1>2, <1>4, <1>5, <2>1, <2>2, AudioStart
<1>8. CASE LastChunk(ch, idx) /\ stage[p] # "left"
  <2>1. Advance(p, "left") /\ pc' = [pc EXCEPT ![p] = Site(p).next]
    BY <1>8 DEF SendChunk, Goto
  <2> QED
    BY <1>1, <1>2, <1>4, <1>5, <2>1, AudioStart
<1> QED
  BY <1>6, <1>7, <1>8

\* The confirmation that send_audio waits for.
LEMMA RecvConfirmationKeeps ==
  ASSUME WaveTechInv, NEW p \in Program, RecvConfirmation(p)
  PROVE  WaveTechInv'
<1> DEFINE B == BytesIf(commands.exit)
           s == Site(p).sock
<1>1. In(p, "send_audio") /\ pc[p] \in LabelsOf(p)
  BY DEF RecvConfirmation, WaveTechInv, ProgramInv
<1>2. /\ s \in Sock
      /\ pc[p] \in SendAudioLabel
      /\ Site(p).next \in LabelsOf(p) \ ExitLabel
  BY <1>1, SendAudioSites
<1>3. /\ net \in NetOf(B) /\ net.inbuf[s] \in Seq(B)
      /\ pc \in [Program -> Label]
      /\ audio \in [Program -> Channels]
  BY <1>2, NetFields DEF WaveTechInv, SharedInv
<1>4. CASE EndWith(p, "crashed")
  BY <1>4, Ends DEF EndLabel
<1>5. ASSUME NEW n \in ReadSizes(Len(net.inbuf[s]), RECV_CAP),
             net' = Take(net, s, n),
             \/ Advance(p, "right") /\ UNCHANGED pc
             \/ Advance(p, "left") /\ Goto(p, Site(p).next),
             UNCHANGED <<audio, file, loaded, commands>>
      PROVE  WaveTechInv'
  <2>1. n \in 0 .. Len(net.inbuf[s])
    BY <1>3, StreamAssumption, ReadSize
  <2>2. net' \in NetOf(B)
    BY <1>2, <1>3, <1>5, <2>1, TakeType
  <2>3. CASE Advance(p, "right") /\ UNCHANGED pc
    <3>1. pc' = [pc EXCEPT ![p] = pc[p]] /\ pc[p] \notin ExitLabel
      BY <1>2, <1>3, <2>3 DEF SendAudioLabel, ExitLabel
    <3> QED
      BY <1>1, <1>2, <1>3, <1>5, <2>2, <2>3, <3>1, AudioStart
  <2>4. CASE Advance(p, "left") /\ Goto(p, Site(p).next)
    <3>1. pc' = [pc EXCEPT ![p] = Site(p).next]
      BY <2>4 DEF Goto
    <3> QED
      BY <1>2, <1>3, <1>5, <2>2, <2>4, <3>1, AudioStart
  <2> QED
    BY <1>5, <2>3, <2>4
<1> QED
  BY <1>4, <1>5 DEF RecvConfirmation

\* The confirmation that recv_audio sends.
LEMMA SendConfirmationKeeps ==
  ASSUME WaveTechInv, NEW p \in Program, SendConfirmation(p)
  PROVE  WaveTechInv'
<1> DEFINE B == BytesIf(commands.exit)
           s == Site(p).sock
<1>1. In(p, "recv_audio") /\ pc[p] \in LabelsOf(p)
  BY DEF SendConfirmation, WaveTechInv, ProgramInv
<1>2. s \in Sock /\ pc[p] \in RecvAudioLabel
  BY <1>1, RecvAudioSites
<1>3. /\ net \in NetOf(B) /\ commands.exit \in BOOLEAN
      /\ pc \in [Program -> Label]
      /\ audio \in [Program -> Channels]
  BY DEF WaveTechInv, SharedInv
<1>4. CASE WriteFails(net, s)
  BY <1>4, Ends DEF SendConfirmation, EndLabel
<1>5. CASE ~WriteFails(net, s)
  <2>1. /\ net' = Write(net, s, TextBytes("CONFIRMED")) /\ Advance(p, "right")
        /\ UNCHANGED <<pc, audio, file, loaded, commands>>
    BY <1>5 DEF SendConfirmation
  <2>2. TextBytes("CONFIRMED") \in Seq(B)
    BY <1>3, TextAllowed DEF Message
  <2>3. net' \in NetOf(B)
    BY <1>2, <1>3, <2>1, <2>2, WriteType
  <2>4. pc' = [pc EXCEPT ![p] = pc[p]] /\ pc[p] \notin ExitLabel
    BY <1>2, <1>3, <2>1 DEF RecvAudioLabel, ExitLabel
  <2> QED
    BY <1>1, <1>2, <1>3, <2>1, <2>3, <2>4, AudioStart
<1> QED
  BY <1>4, <1>5
\* One read of recv_audio.
LEMMA RecvChunkKeeps ==
  ASSUME WaveTechInv, NEW p \in Program, RecvChunk(p)
  PROVE  WaveTechInv'
<1> DEFINE B == BytesIf(commands.exit)
           s == Site(p).sock
           container == IF stage[p] = "left" /\ buffer_idx[p] = 0
                        THEN Empty ELSE audio[p]
<1>1. /\ In(p, "recv_audio") /\ pc[p] \in LabelsOf(p)
      /\ stage[p] # "confirm"
  BY DEF RecvChunk, WaveTechInv, ProgramInv
<1>2. /\ s \in Sock
      /\ pc[p] \in RecvAudioLabel
      /\ Site(p).next \in LabelsOf(p) \ ExitLabel
  BY <1>1, RecvAudioSites
<1>3. /\ net \in NetOf(B) /\ net.inbuf[s] \in Seq(B)
      /\ pc \in [Program -> Label]
      /\ stage \in [Program -> {"left", "confirm", "right"}]
      /\ buffer_idx \in [Program -> Nat]
      /\ audio \in [Program -> Channels]
  BY <1>2, NetFields DEF WaveTechInv, SharedInv
<1>4. pc[p] \notin ExitLabel /\ pc[p] \notin SendAudioLabel
  BY <1>2 DEF RecvAudioLabel, SendAudioLabel, ExitLabel
<1>5. CASE EndWith(p, "crashed")
  BY <1>5, Ends DEF EndLabel
<1>6. ASSUME NEW n \in ReadSizes(Len(net.inbuf[s]), CHUNK_SIZE * FLOAT_BYTES),
             net' = Take(net, s, n),
             audio' = [audio EXCEPT ![p] =
                         [container EXCEPT ![ChannelOf(p)] =
                            @ \o Floats(SubSeq(net.inbuf[s], 1, n))]],
             \/ /\ buffer_idx' = [buffer_idx EXCEPT ![p] = @ + CHUNK_SIZE]
                /\ UNCHANGED <<pc, stage>>
             \/ Advance(p, "confirm") /\ UNCHANGED pc
             \/ Advance(p, "left") /\ Goto(p, Site(p).next),
             UNCHANGED <<file, loaded, commands>>
      PROVE  WaveTechInv'
  <2> DEFINE floats == Floats(SubSeq(net.inbuf[s], 1, n))
  <2>1. n \in 0 .. Len(net.inbuf[s])
    <3>1. CHUNK_SIZE * FLOAT_BYTES \in Nat \ {0}
      BY StreamAssumption
    <3>2. Len(net.inbuf[s]) \in Nat
      BY <1>3
    <3>3. n \in 1 .. Len(net.inbuf[s])
      BY <3>1, <3>2, ReadSize
    <3> QED
      BY <3>2, <3>3
  <2>2. net' \in NetOf(B)
    BY <1>2, <1>3, <1>6, <2>1, TakeType
  <2>3. floats \in Seq(Float)
    <3>1. SubSeq(net.inbuf[s], 1, n) \in Seq(B)
      BY <1>3, <2>1, ReadAllowed
    <3>2. B \subseteq Byte
      BY DEF BytesIf
    <3>3. SubSeq(net.inbuf[s], 1, n) \in Seq(Byte)
      <4> HIDE DEF B, s
      <4> QED
        BY <3>1, <3>2, SeqMonotonic
    <3> QED
      BY <3>3, FloatsType
  <2>4. audio' \in [Program -> Channels] /\ \A q \in Program \ {p} : audio'[q] = audio[q]
    <3>1. container \in Channels
      BY <1>3, EmptyType
    <3>2. ChannelOf(p) \in 1 .. 2
      BY DEF ChannelOf
    <3> HIDE DEF container, floats
    <3>3. container[ChannelOf(p)] \o floats \in Seq(Float)
      BY <2>3, <3>1, <3>2 DEF Channels
    <3>4. [container EXCEPT ![ChannelOf(p)] = @ \o floats] \in Channels
      BY <3>1, <3>2, <3>3 DEF Channels
    <3>5. audio' = [audio EXCEPT ![p] = [container EXCEPT ![ChannelOf(p)] = @ \o floats]]
      BY <1>6 DEF container, floats
    <3> QED
      BY <1>3, <3>4, <3>5
  <2>5. CASE /\ buffer_idx' = [buffer_idx EXCEPT ![p] = @ + CHUNK_SIZE]
             /\ UNCHANGED <<pc, stage>>
    <3>1. /\ pc' = [pc EXCEPT ![p] = pc[p]]
          /\ stage' = [stage EXCEPT ![p] = stage[p]]
          /\ buffer_idx' = [buffer_idx EXCEPT ![p] = buffer_idx[p] + CHUNK_SIZE]
          /\ stage'[p] = stage[p] /\ pc'[p] = pc[p]
      BY <1>3, <2>5
    <3>2. buffer_idx[p] + CHUNK_SIZE \in Nat
      BY <1>3, StreamAssumption
    <3>3. ProgramInv(p)'
      BY <1>1, <1>2, <1>4, <3>1 DEF ProgramInv
    <3>4. stage[p] \in {"left", "confirm", "right"}
      BY <1>3
    <3> QED
      BY <1>1, <1>6, <2>2, <2>4, <3>1, <3>2, <3>3, <3>4, AudioStep
  <2>6. CASE Advance(p, "confirm") /\ UNCHANGED pc
    <3>1. pc' = [pc EXCEPT ![p] = pc[p]]
      BY <1>3, <2>6
    <3> QED
      BY <1>1, <1>2, <1>4, <1>6, <2>2, <2>4, <2>6, <3>1, AudioStart
  <2>7. CASE Advance(p, "left") /\ Goto(p, Site(p).next)
    <3>1. pc' = [pc EXCEPT ![p] = Site(p).next]
      BY <2>7 DEF Goto
    <3> QED
      BY <1>2, <1>6, <2>2, <2>4, <2>7, <3>1, AudioStart
  <2> QED
    BY <1>6, <2>5, <2>6, <2>7
<1>7. EndWith(p, "crashed") \/
      \E n \in ReadSizes(Len(net.inbuf[s]), CHUNK_SIZE * FLOAT_BYTES) :
        /\ net' = Take(net, s, n)
        /\ audio' = [audio EXCEPT ![p] =
                       [container EXCEPT ![ChannelOf(p)] =
                          @ \o Floats(SubSeq(net.inbuf[s], 1, n))]]
        /\ \/ /\ buffer_idx' = [buffer_idx EXCEPT ![p] = @ + CHUNK_SIZE]
              /\ UNCHANGED <<pc, stage>>
           \/ Advance(p, "confirm") /\ UNCHANGED pc
           \/ Advance(p, "left") /\ Goto(p, Site(p).next)
        /\ UNCHANGED <<file, loaded, commands>>
  BY Zenon DEF RecvChunk
<1> QED
  BY <1>5, <1>6, <1>7

-----------------------------------------------------------------------------
(***************************************************************************)
(* The rest of the programs, and the user                                  *)
(***************************************************************************)

\* reverse() of both channels.
LEMMA ReverseAudioKeeps ==
  ASSUME WaveTechInv, NEW p \in Program, ReverseAudio(p)
  PROVE  WaveTechInv'
<1> DEFINE both == [c \in 1 .. 2 |-> Reverse(audio[p][c])]
<1>1. /\ pc[p] \in LabelsOf(p) /\ pc[p] = "r_reverse"
      /\ pc' = [pc EXCEPT ![p] = "r_done"]
      /\ audio' = [audio EXCEPT ![p] = both]
      /\ UNCHANGED <<stage, buffer_idx, file, loaded, net, commands>>
  BY DEF WaveTechInv, ProgramInv, ReverseAudio, Goto
<1>2. /\ stage[p] = "left" /\ buffer_idx[p] = 0
      /\ stage \in [Program -> {"left", "confirm", "right"}]
      /\ buffer_idx \in [Program -> Nat]
      /\ audio \in [Program -> Channels]
      /\ net' \in NetOf(BytesIf(commands.exit))
  BY <1>1 DEF WaveTechInv, SharedInv, ProgramInv, SendAudioLabel, RecvAudioLabel,
              EndLabel
<1>3. both \in Channels
  <2>1. \A ch \in Seq(Float) : Reverse(ch) \in Seq(Float)
    BY DEF Reverse
  <2> QED
    BY <1>2, <2>1 DEF Channels
<1>4. "r_done" \in LabelsOf(p) /\ "r_done" \notin ExitLabel
  BY <1>1 DEF LabelsOf, GuiLabel, DspLabel, ReverseLabel, EndLabel, ExitLabel
<1>5. Advance(p, "left")
  BY <1>1, <1>2 DEF Advance
<1> HIDE DEF both
<1>6. audio' \in [Program -> Channels] /\ \A q \in Program \ {p} : audio'[q] = audio[q]
  BY <1>1, <1>2, <1>3
<1> QED
  BY <1>1, <1>2, <1>4, <1>5, <1>6, AudioStart
\* AudioFile::setAudioBuffer.
LEMMA SetAudioBufferKeeps ==
  ASSUME WaveTechInv, NEW p \in Program, SetAudioBuffer(p)
  PROVE  WaveTechInv'
<1>1. /\ pc[p] \in LabelsOf(p) /\ pc[p] = "g_set"
      /\ pc \in [Program -> Label] /\ audio[p] \in Channels
  BY DEF WaveTechInv, SharedInv, ProgramInv, SetAudioBuffer
<1>2. p = "gui"
  BY <1>1 DEF LabelsOf, DspLabel, ReverseLabel, EndLabel
<1>3. stage[p] = "left" /\ buffer_idx[p] = 0
  BY <1>1 DEF WaveTechInv, ProgramInv, SendAudioLabel, RecvAudioLabel, EndLabel
<1>4. CASE Len(audio[p][1]) # Len(audio[p][2])
  BY <1>4, Ends DEF SetAudioBuffer, EndLabel
<1>5. CASE Len(audio[p][1]) = Len(audio[p][2])
  <2>1. /\ file' = audio[p] /\ pc' = [pc EXCEPT ![p] = "menu"]
        /\ UNCHANGED <<stage, buffer_idx, audio, loaded, net, commands>>
    BY <1>5 DEF SetAudioBuffer, Goto
  <2>2. "menu" \in LabelsOf(p) /\ "menu" \notin ExitLabel
    BY <1>2 DEF LabelsOf, GuiLabel, ExitLabel
  <2>3. "menu" \in Label
    BY <2>2, LabelsAreLabels
  <2>4. SharedInv'
    BY <1>1, <2>1, <2>3 DEF WaveTechInv, SharedInv
  <2>5. ProgramInv(p)'
    BY <1>1, <1>3, <2>1, <2>2, <2>4, Starts
  <2>6. \A q \in Program \ {p} : pc'[q] = pc[q] /\ Outgoing(q)' = Outgoing(q)
    BY <1>1, <1>2, <2>1 DEF Outgoing
  <2> QED
    BY <2>1, <2>4, <2>5, <2>6, OneProgram
<1> QED
  BY <1>4, <1>5

\* Load and the other menu choices of the user.
LEMMA UserKeeps ==
  ASSUME WaveTechInv, User
  PROVE  WaveTechInv'
<1>1. /\ "gui" \in Program /\ pc["gui"] = "menu"
      /\ pc \in [Program -> Label] /\ file \in Channels
      /\ commands \in [made : 0 .. MaxCommands, exit : BOOLEAN]
      /\ net \in NetOf(BytesIf(commands.exit))
  BY DEF Program, User, WaveTechInv, SharedInv
<1>2. stage["gui"] = "left" /\ buffer_idx["gui"] = 0
  BY <1>1 DEF WaveTechInv, ProgramInv, SendAudioLabel, RecvAudioLabel, EndLabel
<1>3. PICK l \in {"menu", "g_reverse", "g_stretch", "g_shift", "g_exit"} :
        pc' = [pc EXCEPT !["gui"] = l] /\ file' \in Channels /\ loaded' \in BOOLEAN
  <2>1. CASE Load
    <3>1. file' \in [1 .. 2 -> Seq(Sample)] /\ loaded' = TRUE /\ pc' = pc
      BY <2>1, WaveTechAssumption DEF Load
    <3>2. \A ch : ch \in Seq(Sample) => ch \in Seq(Float)
      BY DEF Float
    <3>3. file' \in Channels
      BY <3>1, <3>2 DEF Channels
    <3>4. pc' = [pc EXCEPT !["gui"] = "menu"]
      BY <1>1, <3>1
    <3> QED
      BY <3>1, <3>3, <3>4
  <2>2. ASSUME NEW cmd \in Command \ {"load"}, Choose(cmd)
        PROVE  \E l \in {"menu", "g_reverse", "g_stretch", "g_shift", "g_exit"} :
                 /\ pc' = [pc EXCEPT !["gui"] = l] /\ file' \in Channels
                 /\ loaded' \in BOOLEAN
    <3> DEFINE l == CASE cmd = "reverse" -> "g_reverse"
                      [] cmd = "stretch" -> "g_stretch"
                      [] cmd = "shift"   -> "g_shift"
                      [] cmd = "exit"    -> "g_exit"
    <3>1. l \in {"menu", "g_reverse", "g_stretch", "g_shift", "g_exit"}
      <4>1. cmd \in {"reverse", "stretch", "shift", "exit"}
        BY DEF Command
      <4>2. CASE cmd = "reverse"
        BY <4>2, Zenon
      <4>3. CASE cmd = "stretch"
        BY <4>3, Zenon
      <4>4. CASE cmd = "shift"
        BY <4>4, Zenon
      <4>5. CASE cmd = "exit"
        BY <4>5, Zenon
      <4> HIDE DEF l
      <4> QED
        BY <4>1, <4>2, <4>3, <4>4, <4>5
    <3>2. pc' = [pc EXCEPT !["gui"] = l] /\ file' = file /\ loaded' = loaded
      BY <2>2, Zenon DEF Choose, Goto
    <3> HIDE DEF l
    <3> QED
      BY <1>1, <3>1, <3>2 DEF WaveTechInv, SharedInv
  <2> QED
    BY <2>1, <2>2 DEF User
<1>4. /\ commands' = [made |-> commands.made + 1,
                       exit |-> commands.exit \/ pc'["gui"] = "g_exit"]
      /\ commands.made < MaxCommands
      /\ UNCHANGED <<stage, buffer_idx, audio, net>>
  BY DEF User
<1>5. /\ commands'.made = commands.made + 1
      /\ commands' \in [made : 0 .. MaxCommands, exit : BOOLEAN]
  <2>1. commands.made + 1 \in 0 .. MaxCommands
    BY <1>1, <1>4, WaveTechAssumption
  <2> QED
    BY <1>1, <1>4, <2>1
<1>6. /\ commands.exit => commands'.exit
      /\ pc'["gui"] = "g_exit" => commands'.exit
  BY <1>4, Zenon
<1>7. net' \in NetOf(BytesIf(commands'.exit))
  <2>1. BytesIf(commands.exit) \subseteq BytesIf(commands'.exit)
    BY <1>6 DEF BytesIf
  <2> QED
    BY <1>1, <1>4, <2>1, NetMore
<1>8. l \in LabelsOf("gui") /\ l \in Label
  <2>1. l \in LabelsOf("gui")
    BY DEF LabelsOf, GuiLabel
  <2> QED
    BY <1>1, <2>1, LabelsAreLabels
<1>9. SharedInv'
  BY <1>1, <1>3, <1>4, <1>5, <1>7, <1>8 DEF WaveTechInv, SharedInv
<1>10. ProgramInv("gui")'
  <2>1. /\ pc'["gui"] = l /\ (l \in ExitLabel => commands'.exit)
        /\ stage'["gui"] = "left" /\ buffer_idx'["gui"] = 0
    BY <1>1, <1>2, <1>3, <1>4, <1>6 DEF ExitLabel
  <2> QED
    BY <1>1, <1>8, <1>9, <2>1, Starts
<1>11. \A q \in Program \ {"gui"} : pc'[q] = pc[q] /\ Outgoing(q)' = Outgoing(q)
  BY <1>1, <1>3, <1>4 DEF Outgoing
<1> QED
  BY <1>1, <1>4, <1>6, <1>9, <1>10, <1>11, OneProgram

\* main runs from its first line again.
LEMMA RestartKeeps ==
  ASSUME WaveTechInv, NEW p \in Program, Restart(p)
  PROVE  WaveTechInv'
<1>1. /\ pc \in [Program -> Label]
      /\ stage \in [Program -> {"left", "confirm", "right"}]
      /\ buffer_idx \in [Program -> Nat]
      /\ audio \in [Program -> Channels]
      /\ commands \in [made : 0 .. MaxCommands, exit : BOOLEAN]
  BY DEF WaveTechInv, SharedInv
<1>2. /\ commands.made < MaxCommands
      /\ commands' = [commands EXCEPT !.made = @ + 1]
      /\ pc' = [pc EXCEPT ![p] = Entry[p]]
      /\ stage' = [stage EXCEPT ![p] = "left"]
      /\ buffer_idx' = [buffer_idx EXCEPT ![p] = 0]
      /\ audio' = [audio EXCEPT ![p] = Empty]
      /\ net' = net
  BY DEF Restart, Goto, Advance
<1>3. Entry[p] \in LabelsOf(p) \ ExitLabel
  BY DEF Entry, Program, LabelsOf, GuiLabel, DspLabel, ReverseLabel, ExitLabel,
         EndLabel
<1>4. Entry[p] \in Label
  BY <1>3, LabelsAreLabels
<1>5. Empty \in Channels
  BY EmptyType
<1>6. file' \in Channels /\ loaded' \in BOOLEAN /\ (p # "gui" => file' = file)
  BY <1>5 DEF Restart, WaveTechInv, SharedInv
<1>7. commands'.exit = commands.exit
  BY <1>1, <1>2
<1>8. commands' \in [made : 0 .. MaxCommands, exit : BOOLEAN]
  <2>1. commands.made + 1 \in 0 .. MaxCommands
    BY <1>1, <1>2, WaveTechAssumption
  <2> QED
    BY <1>1, <1>2, <2>1
<1>9. SharedInv'
  BY <1>1, <1>2, <1>4, <1>5, <1>6, <1>7, <1>8 DEF WaveTechInv, SharedInv
<1>10. ProgramInv(p)'
  BY <1>1, <1>2, <1>3, <1>9, Starts
<1>11. \A q \in Program \ {p} :
        /\ pc'[q] = pc[q] /\ stage'[q] = stage[q]
        /\ buffer_idx'[q] = buffer_idx[q]
        /\ Outgoing(q)' = Outgoing(q)
  BY <1>1, <1>2, <1>6 DEF Outgoing
<1> QED
  BY <1>7, <1>9, <1>10, <1>11, OneProgram

-----------------------------------------------------------------------------
(***************************************************************************)
(* The theorems                                                            *)
(***************************************************************************)

\* The programs start with nothing open.
LEMMA WaveTechInit ==
  ASSUME Init
  PROVE  WaveTechInv
<1>1. Empty \in Channels
  BY EmptyType
<1>2. NoNet \in NetOf(BytesIf(commands.exit))
  BY DEF NoNet, NetOf, None
<1>3. \A p \in Program : Entry[p] \in LabelsOf(p) \ ExitLabel
  BY DEF Entry, Program, LabelsOf, GuiLabel, DspLabel, ReverseLabel, ExitLabel,
         EndLabel
<1>4. pc \in [Program -> Label]
  <2>1. \A p \in Program : Entry[p] \in Label
    BY <1>3, LabelsAreLabels
  <2>2. Entry = [p \in Program |-> Entry[p]]
    BY DEF Entry, Program
  <2> QED
    BY <2>1, <2>2 DEF Init
<1>5. commands \in [made : 0 .. MaxCommands, exit : BOOLEAN]
  BY WaveTechAssumption DEF Init
<1>6. SharedInv
  BY <1>1, <1>2, <1>4, <1>5 DEF Init, SharedInv
<1>7. ASSUME NEW p \in Program
      PROVE  ProgramInv(p)
  <2>1. Entry[p] \notin SendAudioLabel
    BY DEF Entry, Program, SendAudioLabel
  <2> QED
    BY <1>3, <2>1 DEF Init, ProgramInv
<1> QED
  BY <1>6, <1>7 DEF WaveTechInv

\* Every step keeps the invariant.
LEMMA WaveTechNext ==
  ASSUME WaveTechInv, [Next]_vars
  PROVE  WaveTechInv'
<1>1. CASE UNCHANGED vars
  BY <1>1 DEF vars, WaveTechInv, SharedInv, ProgramInv, Outgoing, ChannelOf
<1>2. CASE StartGui
  BY <1>2, StartGuiKeeps
<1>3. CASE User
  BY <1>3, UserKeeps
<1>4. ASSUME NEW p \in Program, Step(p)
      PROVE  WaveTechInv'
  <2>1. CASE SendAborts(p)
    BY <2>1, Ends DEF SendAborts, EndLabel
  <2>2. CASE Quit(p)
    <3>1. commands.exit
      BY <2>2 DEF Quit, WaveTechInv, ProgramInv, ExitLabel
    <3> QED
      BY <2>2, <3>1, Ends DEF Quit, EndLabel
  <2> QED
    BY <1>4, <2>1, <2>2, SendMessageKeeps, RecvMessageKeeps, SendChunkKeeps,
       RecvConfirmationKeeps, RecvChunkKeeps, SendConfirmationKeeps, BindKeeps,
       AcceptClientKeeps, ConnectReverseKeeps, DisconnectKeeps, DropPipeKeeps,
       ReverseAudioKeeps, SetAudioBufferKeeps DEF Step
<1>5. ASSUME NEW p \in Program, Die(p)
      PROVE  WaveTechInv'
  BY <1>5, Ends DEF Die, EndLabel
<1>6. ASSUME NEW p \in Program, Restart(p)
      PROVE  WaveTechInv'
  BY <1>6, RestartKeeps
<1> QED
  BY <1>1, <1>2, <1>3, <1>4, <1>5, <1>6 DEF Next

\* Whatever the programs do, whoever dies and however TCP cuts the streams,
\* each program is in a call of its own, the containers hold floats and the
\* streams bytes, and the cursor of a send_audio is inside its channel unless
\* the channel is empty.
THEOREM WaveTechTypeCorrect == Spec => []TypeOK
<1>1. Init => WaveTechInv
  BY WaveTechInit
<1>2. WaveTechInv /\ [Next]_vars => WaveTechInv'
  BY WaveTechNext
<1>3. WaveTechInv => TypeOK
  <2> SUFFICES ASSUME WaveTechInv PROVE TypeOK
    OBVIOUS
  <2>1. \A p \in Program : \A c \in 1 .. 2 : audio[p][c] \in Seq(Float)
    BY DEF WaveTechInv, SharedInv, Channels
  <2>2. \A c \in 1 .. 2 : file[c] \in Seq(Float)
    BY DEF WaveTechInv, SharedInv, Channels
  <2>3. \A s \in Sock : net.inbuf[s] \in Seq(Byte)
    <3>1. BytesIf(commands.exit) \subseteq Byte
      BY DEF BytesIf
    <3>2. net \in NetOf(Byte)
      BY <3>1, NetMore DEF WaveTechInv, SharedInv
    <3> QED
      BY <3>2, NetFields
  <2>4. ASSUME NEW p \in Program, In(p, "send_audio"), stage[p] # "confirm",
               Outgoing(p)[ChannelOf(p)] # <<>>
        PROVE  buffer_idx[p] < Len(Outgoing(p)[ChannelOf(p)])
    <3>1. pc[p] \in SendAudioLabel
      BY <2>4, SendAudioSites DEF WaveTechInv, ProgramInv
    <3>2. buffer_idx[p] < Len(Cells(Outgoing(p)[ChannelOf(p)]))
      BY <2>4, <3>1 DEF WaveTechInv, ProgramInv
    <3> QED
      BY <2>4, <3>2 DEF Cells
  <2>5. DOMAIN pc = Program /\ \A p \in Program : pc[p] \in LabelsOf(p)
    BY DEF WaveTechInv, SharedInv, ProgramInv
  <2> QED
    BY <2>1, <2>2, <2>3, <2>4, <2>5 DEF WaveTechInv, SharedInv, TypeOK
<1> QED
  BY <1>1, <1>2, <1>3, PTL DEF Spec

\* The services stop only because the user chose Exit Program (the exit
\* branches of dsp.cpp and reverse.cpp): nothing else on the streams, and
\* nothing a killed program leaves there, is taken for that command.
THEOREM ServicesStopOnlyOnExit == Spec => []ExitTravelsDown
<1>1. Init => WaveTechInv
  BY WaveTechInit
<1>2. WaveTechInv /\ [Next]_vars => WaveTechInv'
  BY WaveTechNext
<1>3. WaveTechInv => ExitTravelsDown
  BY DEF WaveTechInv, ProgramInv, ExitLabel, ExitTravelsDown, Program
<1> QED
  BY <1>1, <1>2, <1>3, PTL DEF Spec
==============================================================================
