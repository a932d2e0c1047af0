---------------------------- MODULE SessionProofs ----------------------------
(***************************************************************************)
(* The dialogues on the two connections of WaveTech, for every set of      *)
(* files, every size of chunks and floats, and any number of programs that *)
(* die and come back at any moment, with whole reads.  Text and audio      *)
(* share each stream; that a reader never meets the wrong one rests on     *)
(* where the two programs of a connection can be at the same time.  First  *)
(* the dialogues alone, as relations; then what connects, closes, resets,  *)
(* writes and reads do to the sockets, the inductive invariant, one lemma  *)
(* for each action of WaveTech, and the theorems on what the readers find. *)
(***************************************************************************)
EXTENDS WaveTechProofs

(***************************************************************************)
(* What a stream can hold                                                  *)
(***************************************************************************)
IsSamples(b) == \A i \in DOMAIN b : b[i][1] \in Float

\* Nothing but full chunks.
FullChunks(b) == \E q \in Nat : Len(b) = q * (CHUNK_SIZE * FLOAT_BYTES)

\* Commands of the gui, of which only the last one, whole or in part, may be
\* "reverse": the gui waits for an answer to that one.
Request(b) ==
  \A i \in DOMAIN b :
    /\ b[i][1] \in Message
    /\ b[i][1] = "reverse" => i + MSG_BYTES = Len(b) + b[i][2]

NoReverse(b) == \A i \in DOMAIN b : b[i][1] # "reverse"

\* Reads are whole, and a message fits into the buffer of recv_message.
WholeReads == ~ShortReads /\ MSG_BYTES <= RECV_CAP

\* The empty stream is any of these.
LEMMA EmptyStream ==
  /\ IsSamples(<<>>) /\ FullChunks(<<>>) /\ Request(<<>>) /\ NoReverse(<<>>)
  /\ \A cap : ReadSizes(Len(<<>>), cap) = {}
<1>1. Len(<<>>) = 0 /\ DOMAIN <<>> = {}
  OBVIOUS
<1>2. FullChunks(<<>>)
  <2>1. CHUNK_SIZE * FLOAT_BYTES \in Int
    BY StreamAssumption
  <2>2. \A x \in Int : 0 = 0 * x
    OBVIOUS
  <2> QED
    BY <1>1, <2>1, <2>2 DEF FullChunks
<1>3. \A cap : ReadSizes(0, cap) = {}
  BY DEF ReadSizes
<1> QED
  BY <1>1, <1>2, <1>3 DEF IsSamples, Request, NoReverse

\* The bytes of a text.
LEMMA TextShape ==
  ASSUME NEW m \in Message
  PROVE  /\ TextBytes(m) \in Seq(Byte)
         /\ Len(TextBytes(m)) = MSG_BYTES
         /\ \A k \in 1 .. MSG_BYTES : TextBytes(m)[k] = <<m, k>>
         /\ TextBytes(m) # <<>>
<1>1. MSG_BYTES \in Nat \ {0}
  BY StreamAssumption
<1>2. \A k \in 1 .. MSG_BYTES : <<m, k>> \in Byte
  BY DEF Byte
<1> QED
  BY <1>1, <1>2 DEF TextBytes

\* Different texts have different bytes.
LEMMA TextsDiffer ==
  ASSUME NEW m \in Message, NEW k \in Message, m # k
  PROVE  TextBytes(m) # TextBytes(k)
<1>1. 1 \in 1 .. MSG_BYTES
  BY StreamAssumption
<1>2. TextBytes(m)[1] = <<m, 1>> /\ TextBytes(k)[1] = <<k, 1>>
  BY <1>1, TextShape
<1> QED
  BY <1>2

\* recv_message returns a text that is alone on the stream.
LEMMA ReadText ==
  ASSUME WholeReads, NEW m \in Message, NEW b, b = TextBytes(m),
         NEW n \in ReadSizes(Len(b), RECV_CAP)
  PROVE  SubSeq(b, 1, n) = TextBytes(m) /\ SubSeq(b, n + 1, Len(b)) = <<>>
<1>1. b \in Seq(Byte) /\ Len(b) = MSG_BYTES /\ MSG_BYTES \in Nat \ {0}
  BY TextShape, StreamAssumption
<1>2. n = MSG_BYTES
  BY <1>1, StreamAssumption DEF WholeReads, ReadSizes
<1> QED
  BY <1>1, <1>2

\* recv_message among the commands of the gui.
LEMMA ReadRequest ==
  ASSUME NEW b \in Seq(Byte), Request(b), NEW n \in 1 .. Len(b)
  PROVE  LET text == SubSeq(b, 1, n)
             rest == SubSeq(b, n + 1, Len(b))
         IN  /\ Request(rest)
             /\ text = TextBytes("reverse") => rest = <<>>
             /\ NoReverse(b) => NoReverse(rest) /\ text # TextBytes("reverse")
<1> DEFINE text == SubSeq(b, 1, n)
           rest == SubSeq(b, n + 1, Len(b))
<1>1. /\ rest \in Seq(Byte) /\ Len(rest) = Len(b) - n
      /\ \A i \in 1 .. Len(b) - n : rest[i] = b[n + i] /\ n + i \in 1 .. Len(b)
  OBVIOUS
<1>2. /\ text \in Seq(Byte) /\ Len(text) = n
      /\ \A i \in 1 .. n : text[i] = b[i]
  OBVIOUS
<1>3. MSG_BYTES \in Nat \ {0} /\ "reverse" \in Message
  BY StreamAssumption DEF Message
<1>4. \A i \in 1 .. Len(b) : b[i][2] \in Int
  <2>1. \A i \in 1 .. Len(b) : b[i] \in Byte
    OBVIOUS
  <2>2. \A x \in Byte : x[2] \in Int
    <3>1. FLOAT_BYTES \in Int /\ MSG_BYTES \in Int
      BY StreamAssumption
    <3> QED
      BY <3>1 DEF Byte
  <2> QED
    BY <2>1, <2>2
<1> HIDE DEF text, rest
<1>5. Request(rest)
  <2> SUFFICES ASSUME NEW i \in 1 .. Len(b) - n
               PROVE  /\ rest[i][1] \in Message
                      /\ rest[i][1] = "reverse" =>
                           i + MSG_BYTES = Len(rest) + rest[i][2]
    BY <1>1 DEF Request
  <2>1. rest[i] = b[n + i] /\ n + i \in 1 .. Len(b)
    BY <1>1
  <2>2. /\ b[n + i][1] \in Message
        /\ b[n + i][1] = "reverse" =>
             (n + i) + MSG_BYTES = Len(b) + b[n + i][2]
    BY <2>1 DEF Request
  <2>3. b[n + i][2] \in Int
    BY <1>4, <2>1
  <2> DEFINE x == b[n + i][2]
             L == Len(b)
  <2>4. L \in Int /\ n \in Int /\ i \in Int
    OBVIOUS
  <2>5. (n + i) + MSG_BYTES = L + x => i + MSG_BYTES = (L - n) + x
    <3> HIDE DEF x, L
    <3> QED
      BY <1>3, <2>3, <2>4 DEF x
  <2> QED
    BY <1>1, <2>1, <2>2, <2>5, Zenon
<1>6. text = TextBytes("reverse") => rest = <<>>
  <2> SUFFICES ASSUME text = TextBytes("reverse") PROVE rest = <<>>
    OBVIOUS
  <2>1. n = MSG_BYTES /\ text[n] = <<"reverse", MSG_BYTES>>
    BY <1>2, <1>3, TextShape
  <2>2. b[n] = <<"reverse", MSG_BYTES>>
    BY <1>2, <2>1
  <2>3. b[n][1] = "reverse" /\ b[n][2] = MSG_BYTES
    BY <2>2
  <2>4. n + MSG_BYTES = Len(b) + b[n][2]
    BY <2>3 DEF Request
  <2>5. Len(b) = n
    BY <1>3, <2>3, <2>4
  <2> QED
    BY <1>1, <2>5
<1>7. NoReverse(b) => NoReverse(rest) /\ text # TextBytes("reverse")
  <2> SUFFICES ASSUME NoReverse(b)
               PROVE  NoReverse(rest) /\ text # TextBytes("reverse")
    OBVIOUS
  <2>1. NoReverse(rest)
    <3> SUFFICES ASSUME NEW i \in 1 .. Len(b) - n PROVE rest[i][1] # "reverse"
      BY <1>1 DEF NoReverse
    <3>1. rest[i] = b[n + i] /\ n + i \in DOMAIN b
      BY <1>1
    <3> QED
      BY <3>1 DEF NoReverse
  <2>2. text[1] = b[1] /\ b[1][1] # "reverse"
    BY <1>2 DEF NoReverse
  <2>3. TextBytes("reverse")[1] = <<"reverse", 1>>
    BY <1>3, TextShape
  <2>4. TextBytes("reverse")[1][1] = "reverse"
    BY <2>3
  <2> QED
    BY <2>1, <2>2, <2>4
<1> QED
  BY <1>5, <1>6, <1>7 DEF text, rest

\* The gui sends a command.
LEMMA AppendRequest ==
  ASSUME NEW b \in Seq(Byte), Request(b), NoReverse(b), NEW m \in Message
  PROVE  /\ Request(b \o TextBytes(m))
         /\ m # "reverse" => NoReverse(b \o TextBytes(m))
<1> DEFINE c == b \o TextBytes(m)
           L == Len(b)
           M == MSG_BYTES
<1>1. M \in Nat \ {0} /\ L \in Nat
  BY StreamAssumption
<1>2. /\ c \in Seq(Byte) /\ Len(c) = L + M
      /\ \A i \in 1 .. L : c[i] = b[i]
      /\ \A k \in 1 .. M : c[L + k] = <<m, k>>
  BY TextShape
<1> HIDE DEF c
<1>3. ASSUME NEW i \in 1 .. L + M
      PROVE  /\ c[i][1] \in Message
             /\ c[i][1] = "reverse" => i + M = Len(c) + c[i][2]
             /\ m # "reverse" => c[i][1] # "reverse"
  <2>1. CASE i <= L
    <3>1. c[i] = b[i] /\ i \in 1 .. L
      BY <1>1, <1>2, <2>1
    <3> QED
      BY <3>1 DEF Request, NoReverse
  <2>2. CASE i > L
    <3> DEFINE k == i - L
    <3>1. k \in 1 .. M /\ i = L + k
      BY <1>1, <2>2
    <3>2. c[i] = <<m, k>>
      BY <1>2, <3>1
    <3>3. i + M = (L + M) + k
      BY <1>1, <3>1
    <3> HIDE DEF k
    <3> QED
      BY <1>2, <3>2, <3>3
  <2> QED
    BY <1>1, <2>1, <2>2
<1>4. DOMAIN c = 1 .. L + M
  BY <1>1, <1>2
<1> QED
  BY <1>3, <1>4 DEF Request, NoReverse, c

\* One read of recv_audio: short of a full chunk it takes all there is, and
\* between full chunks it takes one.
LEMMA ReadSamples ==
  ASSUME WholeReads, NEW b \in Seq(Byte), IsSamples(b),
         NEW n \in ReadSizes(Len(b), CHUNK_SIZE * FLOAT_BYTES)
  PROVE  LET rest == SubSeq(b, n + 1, Len(b))
             full == Len(Floats(SubSeq(b, 1, n))) = CHUNK_SIZE
         IN  /\ IsSamples(rest)
             /\ ~full => rest = <<>>
             /\ FullChunks(b) => full /\ FullChunks(rest)
<1> DEFINE C == CHUNK_SIZE
           F == FLOAT_BYTES
           L == Len(b)
           rest == SubSeq(b, n + 1, L)
           f == Floats(SubSeq(b, 1, n))
<1>1. /\ C \in Nat \ {0} /\ F \in Nat \ {0} /\ L \in Nat
      /\ C * F \in Nat \ {0}
  BY StreamAssumption
<1>2. n \in 1 .. L /\ n = IF L <= C * F THEN L ELSE C * F
  BY <1>1 DEF WholeReads, ReadSizes
<1>3. /\ rest \in Seq(Byte) /\ Len(rest) = L - n
      /\ \A i \in 1 .. L - n : rest[i] = b[n + i] /\ n + i \in 1 .. L
  BY <1>2
<1>4. Len(f) = n \div F
  <2>1. Len(SubSeq(b, 1, n)) = n
    BY <1>2
  <2> DEFINE x == SubSeq(b, 1, n)
             k == n \div F
  <2>2. k \in Nat
    BY <1>1, <1>2, DivMod
  <2>3. f = [i \in 1 .. k |-> FloatAt(x, i)]
    BY <2>1 DEF Floats
  <2> HIDE DEF x, k, f
  <2>4. Len([i \in 1 .. k |-> FloatAt(x, i)]) = k
    BY <2>2
  <2> QED
    BY <2>3, <2>4 DEF k
<1>5. (C * F) \div F = C
  <2>1. 0 \in 0 .. F - 1 /\ C * F + 0 = C * F
    BY <1>1
  <2> QED
    BY <1>1, <2>1, DivUnique
<1> HIDE DEF f, rest
<1>6. IsSamples(rest)
  BY <1>3 DEF IsSamples
<1>7. Len(f) # C => rest = <<>>
  <2> SUFFICES ASSUME Len(f) # C PROVE rest = <<>>
    OBVIOUS
  <2>1. n = L
    BY <1>1, <1>2, <1>4, <1>5
  <2> QED
    BY <1>3, <2>1
<1>8. FullChunks(b) => Len(f) = C /\ FullChunks(rest)
  <2> SUFFICES ASSUME FullChunks(b) PROVE Len(f) = C /\ FullChunks(rest)
    OBVIOUS
  <2>1. PICK q \in Nat : L = q * (C * F)
    BY DEF FullChunks
  <2> DEFINE B == C * F
  <2>2. B \in Nat \ {0} /\ L = q * B /\ L >= 1
    BY <1>1, <1>2, <2>1
  <2> HIDE DEF B, L
  <2>3. q >= 1
    BY <2>2
  <2>4. 1 * B <= q * B /\ 1 * B = B
    BY <2>2, <2>3, MulMono
  <2>5. n = B
    BY <1>1, <1>2, <2>2, <2>4 DEF B
  <2>6. (q - 1) * B = q * B - 1 * B
    BY <2>2, MulDist
  <2>7. L - n = (q - 1) * B /\ q - 1 \in Nat
    BY <2>2, <2>3, <2>4, <2>5, <2>6
  <2> QED
    BY <1>3, <1>4, <1>5, <2>5, <2>7 DEF B, FullChunks
<1> QED
  BY <1>6, <1>7, <1>8 DEF rest, f

\* send_audio writes a chunk.
LEMMA AppendSamples ==
  ASSUME NEW b \in Seq(Byte), IsSamples(b), NEW c \in Seq(Float)
  PROVE  /\ IsSamples(b \o AudioBytes(c))
         /\ (FullChunks(b) /\ Len(c) = CHUNK_SIZE) =>
              FullChunks(b \o AudioBytes(c))
<1> DEFINE a == AudioBytes(c)
           F == FLOAT_BYTES
           L == Len(b)
           n == Len(c)
<1>1. F \in Nat \ {0} /\ L \in Nat /\ n \in Nat /\ CHUNK_SIZE \in Nat
  BY StreamAssumption
<1>2. a \in Seq(Byte) /\ Len(a) = n * F
  BY AudioBytesIndex
<1>3. \A k \in 1 .. n * F : a[k][1] \in Float
  <2>1. \A k \in 1 .. n * F : c[((k - 1) \div F) + 1] \in Float
    <3> HIDE DEF F, n
    <3>1. \A k \in 1 .. n * F : ((k - 1) \div F) \in 0 .. n - 1
      BY <1>1, ByteRange
    <3>2. \A j \in 0 .. n - 1 : j + 1 \in 1 .. n
      BY <1>1
    <3>3. \A j \in 1 .. n : c[j] \in Float
      BY DEF n
    <3> QED
      BY <3>1, <3>2, <3>3
  <2> QED
    BY <2>1 DEF AudioBytes
<1> HIDE DEF a
<1>4. /\ b \o a \in Seq(Byte) /\ Len(b \o a) = L + n * F
      /\ \A i \in 1 .. L + n * F :
           (b \o a)[i] = IF i <= L THEN b[i] ELSE a[i - L]
  BY <1>2, ConcatProperties
<1>5. IsSamples(b \o a)
  <2> SUFFICES ASSUME NEW i \in 1 .. L + n * F
               PROVE  (b \o a)[i][1] \in Float
    BY <1>4 DEF IsSamples
  <2>1. CASE i <= L
    <3>1. i \in 1 .. L /\ (b \o a)[i] = b[i]
      BY <1>1, <1>4, <2>1
    <3> QED
      BY <3>1 DEF IsSamples
  <2>2. CASE ~(i <= L)
    <3>1. n * F \in Nat
      BY <1>1
    <3>2. i - L \in 1 .. n * F
      BY <1>1, <2>2, <3>1
    <3>3. (b \o a)[i] = a[i - L]
      BY <1>4, <2>2
    <3> QED
      BY <1>3, <3>2, <3>3
  <2> QED
    BY <2>1, <2>2
<1>6. ASSUME FullChunks(b), n = CHUNK_SIZE
      PROVE  FullChunks(b \o a)
  <2>1. PICK q \in Nat : L = q * (CHUNK_SIZE * F)
    BY <1>6 DEF FullChunks
  <2> DEFINE B == CHUNK_SIZE * F
  <2>2. B \in Int
    BY <1>1
  <2>3. Len(b \o a) = q * B + B
    BY <1>4, <1>6, <2>1
  <2> HIDE DEF B
  <2>4. q * B + B = (q + 1) * B
    BY <2>2
  <2> QED
    BY <2>3, <2>4 DEF B, FullChunks
<1> QED
  BY <1>5, <1>6 DEF a
-----------------------------------------------------------------------------
(***************************************************************************)
(* The dialogue of the gui with the dsp                                    *)
(*                                                                         *)
(* peer is the other end of the gui's socket; gin, din and pin hold what   *)
(* the gui, the dsp and the operating system (for the dsp, before accept)  *)
(* have not read; g, gs, d and ds are the calls and stages of the two.     *)
(***************************************************************************)
GuiIdle == {"menu", "g_exit", "g_stretch", "g_shift", "g_reverse", "g_quit", "g_set"}
DspIdle == {"d_loop", "d_xconnect", "d_stop", "d_disc"}
DspWork ==
  {"d_connect", "d_run", "d_started", "d_txrev", "d_done", "d_fetch", "d_rxrev"}

\* What each end may find, whether the other one lives or not.
GuiFinds(b, g, gs) ==
  \/ b = <<>>
  \/ g = "g_ready" /\ b = TextBytes("ready")
  \/ g = "g_tx" /\ gs = "confirm" /\ b = TextBytes("CONFIRMED")
  \/ g = "g_rx" /\ gs # "confirm" /\ IsSamples(b)

DspFinds(b, d, ds) ==
  \/ b = <<>>
  \/ d \in DspIdle /\ Request(b)
  \/ d = "d_txgui" /\ ds = "confirm" /\ b = TextBytes("CONFIRMED")
  \/ d = "d_rxgui" /\ ds # "confirm" /\ IsSamples(b)

\* An audio transfer: the stages of sender and receiver, the stream back to
\* the sender and the stream to the receiver.
Transfer(s, r, back, on) ==
  \/ s = "left" /\ r = "left" /\ back = <<>> /\ FullChunks(on)
  \/ s = "confirm" /\ r = "left" /\ back = <<>>
  \/ s = "confirm" /\ r = "confirm" /\ back = <<>> /\ on = <<>>
  \/ s = "confirm" /\ r = "right" /\ back = TextBytes("CONFIRMED") /\ on = <<>>
  \/ s = "right" /\ r = "right" /\ back = <<>> /\ FullChunks(on)

\* Where the two ends of a connection can be at the same time.
GuiPhase(g, gs, d, ds, gin, din) ==
  \/ g \in GuiIdle /\ d \in DspIdle /\ gin = <<>> /\ NoReverse(din)
  \/ g = "g_ready" /\ d \in DspIdle /\ gin = <<>>
  \/ g = "g_ready" /\ d = "d_ready" /\ gin = <<>> /\ din = <<>>
  \/ g = "g_ready" /\ d = "d_rxgui" /\ ds = "left" /\ din = <<>>
  \/ g = "g_tx" /\ d = "d_rxgui" /\ Transfer(gs, ds, gin, din)
  \/ g = "g_rx" /\ gs = "left" /\ d = "d_rxgui" /\ ds = "right" /\ gin = <<>>
  \/ g = "g_rx" /\ gs = "left" /\ d \in DspWork /\ gin = <<>> /\ din = <<>>
  \/ g = "g_rx" /\ d = "d_txgui" /\ Transfer(ds, gs, din, gin)
  \/ g = "g_rx" /\ gs = "right" /\ d \in DspIdle /\ din = <<>>

\* A connection that waits to be accepted looks to the gui like a dsp that
\* has not read yet.
GuiSession(peer, gin, din, pin, g, gs, d, ds) ==
  /\ GuiFinds(gin, g, gs)
  /\ DspFinds(din, d, ds)
  /\ Request(pin)
  /\ peer \in {None, "pend5500", "dsp5500"}
  /\ peer = "pend5500" => GuiPhase(g, gs, "d_loop", "left", gin, pin)
  /\ peer = "dsp5500" => GuiPhase(g, gs, d, ds, gin, din)

\* A stream breaks off, or is lost.
LEMMA GuiSessionShrinks ==
  ASSUME NEW peer, NEW gin, NEW din, NEW pin, NEW g, NEW gs, NEW d, NEW ds,
         GuiSession(peer, gin, din, pin, g, gs, d, ds),
         NEW peer2, NEW gin2 \in {gin, <<>>}, NEW din2 \in {din, <<>>},
         NEW pin2 \in {pin, <<>>},
         \/ peer2 = None
         \/ /\ peer2 = peer /\ gin2 = gin
            /\ peer = "pend5500" => pin2 = pin
            /\ peer = "dsp5500" => din2 = din
  PROVE  GuiSession(peer2, gin2, din2, pin2, g, gs, d, ds)
BY EmptyStream DEF GuiSession, GuiFinds, DspFinds, None

\* An end without connection and without input may go anywhere.
LEMMA GuiSessionGuiFree ==
  ASSUME NEW gin, NEW din, NEW pin, NEW g, NEW gs, NEW d, NEW ds,
         GuiSession(None, gin, din, pin, g, gs, d, ds), NEW g2, NEW gs2
  PROVE  GuiSession(None, <<>>, din, pin, g2, gs2, d, ds)
BY DEF GuiSession, GuiFinds, None

LEMMA GuiSessionDspFree ==
  ASSUME NEW peer, NEW gin, NEW din, NEW pin, NEW g, NEW gs, NEW d, NEW ds,
         GuiSession(peer, gin, din, pin, g, gs, d, ds), peer # "dsp5500",
         NEW d2, NEW ds2
  PROVE  GuiSession(peer, gin, <<>>, pin, g, gs, d2, ds2)
BY DEF GuiSession, DspFinds

\* The dsp goes on without the gui.
LEMMA GuiSessionDspElsewhere ==
  ASSUME NEW peer, NEW gin, NEW din, NEW pin, NEW g, NEW gs, NEW d, NEW ds,
         GuiSession(peer, gin, din, pin, g, gs, d, ds), NEW d2, NEW ds2,
         \/ d \in DspWork /\ d2 \in DspWork
         \/ d \in DspIdle /\ d2 \in DspIdle
         \/ d \in DspWork /\ d2 = "d_txgui" /\ ds2 = "left"
  PROVE  GuiSession(peer, gin, din, pin, g, gs, d2, ds2)
<1> DEFINE was == GuiPhase(g, gs, d, ds, gin, din)
<1>1. DspFinds(din, d2, ds2)
  BY DEF GuiSession, DspFinds, DspWork, DspIdle
<1>2. was => GuiPhase(g, gs, d2, ds2, gin, din)
  BY EmptyStream DEF GuiPhase, Transfer, DspWork, DspIdle
<1> QED
  BY <1>1, <1>2 DEF GuiSession

\* The gui goes on without the dsp.
LEMMA GuiSessionGuiElsewhere ==
  ASSUME NEW peer, NEW gin, NEW din, NEW pin, NEW g \in GuiIdle, NEW gs,
         NEW d, NEW ds,
         GuiSession(peer, gin, din, pin, g, gs, d, ds),
         NEW g2 \in GuiIdle, NEW gs2
  PROVE  GuiSession(peer, gin, din, pin, g2, gs2, d, ds)
BY DEF GuiSession, GuiFinds, GuiPhase, GuiIdle

\* A new connection of the gui.
LEMMA GuiSessionConnects ==
  ASSUME NEW din, NEW pin, NEW g, NEW gs, NEW d, NEW ds, NEW gs2,
         GuiSession(None, <<>>, din, pin, g, gs, d, ds)
  PROVE  GuiSession("pend5500", <<>>, din, <<>>, "menu", gs2, d, ds)
BY EmptyStream DEF GuiSession, GuiFinds, GuiPhase, GuiIdle, DspIdle

\* The dsp accepts it.
LEMMA GuiSessionAccepted ==
  ASSUME NEW peer, NEW gin, NEW din, NEW pin, NEW g, NEW gs, NEW d, NEW ds,
         GuiSession(peer, gin, din, pin, g, gs, d, ds),
         peer # "dsp5500", NEW ds2
  PROVE  GuiSession(IF peer = "pend5500" THEN "dsp5500" ELSE peer,
                    gin, pin, <<>>, g, gs, "d_loop", ds2)
<1>1. GuiPhase(g, gs, "d_loop", "left", gin, pin) =>
        GuiPhase(g, gs, "d_loop", ds2, gin, pin)
  BY DEF GuiPhase, DspIdle, DspWork
<1> QED
  BY <1>1, EmptyStream DEF GuiSession, DspFinds, DspIdle
\* What a write of the gui, and one of the dsp to the gui, does to the streams.
GuiWrites(peer, gin, din, pin, b, gin2, din2, pin2) ==
  \/ peer = None /\ gin2 = <<>> /\ din2 = din /\ pin2 = pin
  \/ peer = "pend5500" /\ gin2 = gin /\ din2 = din /\ pin2 = pin \o b
  \/ peer = "dsp5500" /\ gin2 = gin /\ din2 = din \o b /\ pin2 = pin

DspWrites(peer, gin, din, b, gin2, din2) ==
  \/ peer = "dsp5500" /\ gin2 = gin \o b /\ din2 = din
  \/ peer # "dsp5500" /\ gin2 = gin /\ din2 = <<>>

\* A text on an empty stream.
LEMMA OnEmpty ==
  ASSUME NEW m \in Message
  PROVE  <<>> \o TextBytes(m) = TextBytes(m)
BY TextShape

\* The gui sends a command.
LEMMA GuiCommands ==
  ASSUME NEW peer, NEW gin, NEW din \in Seq(Byte), NEW pin \in Seq(Byte),
         NEW g, NEW gs, NEW d, NEW ds,
         GuiSession(peer, gin, din, pin, g, gs, d, ds), g \in GuiIdle,
         NEW m \in Message, NEW gin2, NEW din2, NEW pin2,
         GuiWrites(peer, gin, din, pin, TextBytes(m), gin2, din2, pin2),
         NEW g2, NEW gs2,
         IF m = "reverse" THEN g2 = "g_ready" ELSE g2 \in GuiIdle
  PROVE  GuiSession(peer, gin2, din2, pin2, g2, gs2, d, ds)
<1>1. gin = <<>> /\ gin2 = <<>>
  BY DEF GuiSession, GuiFinds, GuiWrites, GuiIdle
<1>2. CASE peer = None
  BY <1>1, <1>2 DEF GuiSession, GuiFinds, GuiWrites, None
<1>3. CASE peer = "pend5500"
  <2>1. Request(pin) /\ NoReverse(pin) /\ "d_loop" \in DspIdle
    BY <1>3 DEF GuiSession, GuiPhase, GuiIdle, DspIdle
  <2>2. /\ Request(pin2) /\ (m # "reverse" => NoReverse(pin2))
        /\ din2 = din
    BY <1>3, <2>1, AppendRequest DEF GuiWrites, None
  <2>3. GuiPhase(g2, gs2, "d_loop", "left", gin2, pin2)
    BY <1>1, <2>1, <2>2 DEF GuiPhase
  <2> QED
    BY <1>1, <1>3, <2>2, <2>3 DEF GuiSession, GuiFinds
<1>4. CASE peer = "dsp5500"
  <2>1. Request(din) /\ NoReverse(din) /\ d \in DspIdle
    BY <1>4, EmptyStream
       DEF GuiSession, GuiPhase, GuiIdle, DspFinds, DspIdle
  <2>2. /\ Request(din2) /\ (m # "reverse" => NoReverse(din2))
        /\ pin2 = pin
    BY <1>4, <2>1, AppendRequest DEF GuiWrites, None
  <2>3. GuiPhase(g2, gs2, d, ds, gin2, din2)
    BY <1>1, <2>1, <2>2 DEF GuiPhase
  <2> QED
    BY <1>1, <1>4, <2>1, <2>2, <2>3 DEF GuiSession, GuiFinds, DspFinds
<1> QED
  BY <1>2, <1>3, <1>4 DEF GuiSession

\* The gui reads the answer to "reverse".
LEMMA GuiAnswered ==
  ASSUME NEW peer, NEW gin, NEW din, NEW pin, NEW gs, NEW d, NEW ds,
         GuiSession(peer, gin, din, pin, "g_ready", gs, d, ds), gin # <<>>
  PROVE  /\ gin = TextBytes("ready")
         /\ GuiSession(peer, <<>>, din, pin, "g_tx", "left", d, ds)
BY EmptyStream DEF GuiSession, GuiFinds, GuiPhase, GuiIdle, DspIdle, Transfer

\* The gui sends a chunk; more says whether the channel goes on.
LEMMA GuiSendsChunk ==
  ASSUME NEW peer, NEW gin, NEW din \in Seq(Byte), NEW pin, NEW gs, NEW d, NEW ds,
         GuiSession(peer, gin, din, pin, "g_tx", gs, d, ds),
         gs \in {"left", "right"},
         NEW c \in Seq(Float), NEW more \in BOOLEAN,
         more => Len(c) = CHUNK_SIZE,
         NEW gin2, NEW din2, NEW pin2,
         \/ GuiWrites(peer, gin, din, pin, AudioBytes(c), gin2, din2, pin2)
         \/ ~more /\ gin2 = gin /\ din2 = din /\ pin2 = pin,
         NEW g2, NEW gs2,
         IF more THEN g2 = "g_tx" /\ gs2 = gs
         ELSE IF gs = "left" THEN g2 = "g_tx" /\ gs2 = "confirm"
         ELSE g2 = "g_rx" /\ gs2 = "left"
  PROVE  GuiSession(peer, gin2, din2, pin2, g2, gs2, d, ds)
<1>1. gin = <<>> /\ peer # "pend5500"
  BY DEF GuiSession, GuiFinds, GuiPhase, GuiIdle
<1>2. gin2 = <<>> /\ pin2 = pin
  BY <1>1 DEF GuiWrites
<1>3. CASE peer = None
  <2>1. din2 = din
    BY <1>3 DEF GuiWrites, None
  <2> QED
    BY <1>2, <1>3, <2>1 DEF GuiSession, GuiFinds, None
<1>4. CASE peer = "dsp5500"
  <2>1. /\ d = "d_rxgui" /\ ds = gs
        /\ FullChunks(din) /\ IsSamples(din)
    BY <1>4, EmptyStream
       DEF GuiSession, GuiPhase, GuiIdle, Transfer, DspFinds, DspIdle
  <2>2. IsSamples(din2) /\ (more => FullChunks(din2))
    BY <1>4, <2>1, AppendSamples DEF GuiWrites, None
  <2>3. GuiPhase(g2, gs2, d, ds, gin2, din2)
    BY <1>2, <2>1, <2>2 DEF GuiPhase, Transfer
  <2>4. DspFinds(din2, d, ds)
    BY <2>1, <2>2 DEF DspFinds
  <2> QED
    BY <1>2, <1>4, <2>3, <2>4 DEF GuiSession, GuiFinds
<1> QED
  BY <1>1, <1>3, <1>4 DEF GuiSession

\* The gui reads the confirmation of its left channel.
LEMMA GuiConfirmed ==
  ASSUME NEW peer, NEW gin, NEW din, NEW pin, NEW d, NEW ds,
         GuiSession(peer, gin, din, pin, "g_tx", "confirm", d, ds), gin # <<>>
  PROVE  /\ gin = TextBytes("CONFIRMED")
         /\ GuiSession(peer, <<>>, din, pin, "g_tx", "right", d, ds)
BY EmptyStream DEF GuiSession, GuiFinds, GuiPhase, GuiIdle, DspIdle, Transfer

\* The gui reads a chunk; full says whether it was a full one.
LEMMA GuiReadsChunk ==
  ASSUME NEW peer, NEW gin, NEW din, NEW pin, NEW gs, NEW d, NEW ds,
         GuiSession(peer, gin, din, pin, "g_rx", gs, d, ds),
         gs \in {"left", "right"}, gin # <<>>,
         NEW rest, NEW full \in BOOLEAN, IsSamples(rest),
         ~full => rest = <<>>,
         FullChunks(gin) => full /\ FullChunks(rest),
         NEW g2, NEW gs2,
         IF full THEN g2 = "g_rx" /\ gs2 = gs
         ELSE IF gs = "left" THEN g2 = "g_rx" /\ gs2 = "confirm"
         ELSE g2 = "g_set" /\ gs2 = "left"
  PROVE  GuiSession(peer, rest, din, pin, g2, gs2, d, ds)
<1>1. GuiFinds(rest, g2, gs2)
  BY DEF GuiFinds
<1>2. ASSUME NEW e, NEW es, NEW b, GuiPhase("g_rx", gs, e, es, gin, b)
      PROVE  GuiPhase(g2, gs2, e, es, rest, b)
  <2>1. CASE e = "d_txgui" /\ Transfer(es, gs, b, gin)
    BY <2>1 DEF GuiPhase, Transfer
  <2>2. CASE gs = "right" /\ e \in DspIdle /\ b = <<>>
    BY <2>2, EmptyStream DEF GuiPhase, GuiIdle
  <2> QED
    BY <1>2, <2>1, <2>2 DEF GuiPhase, GuiIdle
<1> QED
  BY <1>1, <1>2 DEF GuiSession

\* The gui confirms.
LEMMA GuiConfirms ==
  ASSUME NEW peer, NEW gin, NEW din, NEW pin, NEW d, NEW ds,
         GuiSession(peer, gin, din, pin, "g_rx", "confirm", d, ds),
         NEW gin2, NEW din2, NEW pin2,
         GuiWrites(peer, gin, din, pin, TextBytes("CONFIRMED"), gin2, din2, pin2)
  PROVE  GuiSession(peer, gin2, din2, pin2, "g_rx", "right", d, ds)
<1>1. gin = <<>> /\ gin2 = <<>> /\ peer # "pend5500"
  BY DEF GuiSession, GuiFinds, GuiPhase, GuiIdle, GuiWrites
<1>2. CASE peer = None
  BY <1>1, <1>2 DEF GuiSession, GuiFinds, GuiWrites, None
<1>3. CASE peer = "dsp5500"
  <2>1. d = "d_txgui" /\ ds = "confirm" /\ din = <<>>
    BY <1>3 DEF GuiSession, GuiPhase, GuiIdle, Transfer
  <2>2. din2 = TextBytes("CONFIRMED") /\ pin2 = pin
    BY <1>3, <2>1, OnEmpty DEF GuiWrites, None, Message
  <2> QED
    BY <1>1, <1>3, <2>1, <2>2 DEF GuiSession, GuiFinds, DspFinds, GuiPhase, Transfer
<1> QED
  BY <1>1, <1>2, <1>3 DEF GuiSession

\* The dsp reads a command; e is the call that follows it.
LEMMA DspHears ==
  ASSUME NEW peer, NEW gin, NEW din \in Seq(Byte), NEW pin, NEW g, NEW gs, NEW ds,
         GuiSession(peer, gin, din, pin, g, gs, "d_loop", ds),
         NEW n \in 1 .. Len(din), NEW e, NEW ds2,
         IF SubSeq(din, 1, n) = TextBytes("reverse")
         THEN e = "d_ready" ELSE e \in DspIdle
  PROVE  GuiSession(peer, gin, SubSeq(din, n + 1, Len(din)), pin, g, gs, e, ds2)
<1> DEFINE text == SubSeq(din, 1, n)
           rest == SubSeq(din, n + 1, Len(din))
<1>1. din # <<>> /\ Request(din)
  <2>1. din # <<>>
    OBVIOUS
  <2> QED
    BY <2>1 DEF GuiSession, DspFinds
<1>2. /\ Request(rest)
      /\ text = TextBytes("reverse") => rest = <<>>
      /\ NoReverse(din) => NoReverse(rest) /\ text # TextBytes("reverse")
  BY <1>1, ReadRequest
<1>3. e = "d_ready" \/ e \in DspIdle
  OBVIOUS
<1>4. text = TextBytes("reverse") => e = "d_ready"
  OBVIOUS
<1>5. text # TextBytes("reverse") => e \in DspIdle
  OBVIOUS
<1> HIDE DEF text, rest
<1>6. DspFinds(rest, e, ds2)
  BY <1>2, <1>4, <1>5 DEF DspFinds
<1>7. GuiPhase(g, gs, "d_loop", ds, gin, din) => GuiPhase(g, gs, e, ds2, gin, rest)
  BY <1>1, <1>2, <1>4, <1>5 DEF GuiPhase, DspIdle, DspWork
<1>8. GuiSession(peer, gin, rest, pin, g, gs, e, ds2)
  BY <1>6, <1>7 DEF GuiSession
<1> QED
  BY <1>8 DEF rest

\* The dsp answers "reverse".
LEMMA DspAnswers ==
  ASSUME NEW peer, NEW gin, NEW din, NEW pin, NEW g, NEW gs, NEW ds,
         GuiSession(peer, gin, din, pin, g, gs, "d_ready", ds),
         NEW gin2, NEW din2,
         DspWrites(peer, gin, din, TextBytes("ready"), gin2, din2)
  PROVE  GuiSession(peer, gin2, din2, pin, g, gs, "d_rxgui", "left")
<1>1. din2 = <<>>
  BY DEF GuiSession, DspFinds, DspWrites, DspIdle
<1>2. CASE peer = "dsp5500"
  <2>1. g = "g_ready" /\ gin = <<>>
    BY <1>2 DEF GuiSession, GuiPhase, DspIdle, DspWork
  <2>2. gin2 = TextBytes("ready")
    BY <1>2, <2>1, OnEmpty DEF DspWrites, Message
  <2> QED
    BY <1>1, <1>2, <2>1, <2>2 DEF GuiSession, GuiFinds, DspFinds, GuiPhase
<1>3. CASE peer # "dsp5500"
  BY <1>1, <1>3 DEF GuiSession, DspFinds, DspWrites
<1> QED
  BY <1>2, <1>3

\* The dsp reads a chunk of the gui.
LEMMA DspReadsChunk ==
  ASSUME NEW peer, NEW gin, NEW din, NEW pin, NEW g, NEW gs, NEW ds,
         GuiSession(peer, gin, din, pin, g, gs, "d_rxgui", ds),
         ds \in {"left", "right"}, din # <<>>,
         NEW rest, NEW full \in BOOLEAN, IsSamples(rest),
         ~full => rest = <<>>,
         FullChunks(din) => full /\ FullChunks(rest),
         NEW d2, NEW ds2,
         IF full THEN d2 = "d_rxgui" /\ ds2 = ds
         ELSE IF ds = "left" THEN d2 = "d_rxgui" /\ ds2 = "confirm"
         ELSE d2 = "d_connect" /\ ds2 = "left"
  PROVE  GuiSession(peer, gin, rest, pin, g, gs, d2, ds2)
<1>1. DspFinds(rest, d2, ds2)
  BY DEF DspFinds
<1>2. ASSUME GuiPhase(g, gs, "d_rxgui", ds, gin, din)
      PROVE  GuiPhase(g, gs, d2, ds2, gin, rest)
  <2>1. CASE g = "g_tx" /\ Transfer(gs, ds, gin, din)
    BY <2>1 DEF GuiPhase, Transfer
  <2>2. CASE g = "g_rx" /\ gs = "left" /\ ds = "right" /\ gin = <<>>
    BY <2>2 DEF GuiPhase, DspWork
  <2> QED
    BY <1>2, <2>1, <2>2 DEF GuiPhase, DspIdle, DspWork
<1> QED
  BY <1>1, <1>2 DEF GuiSession

\* The dsp confirms the left channel of the gui.
LEMMA DspConfirms ==
  ASSUME NEW peer, NEW gin, NEW din, NEW pin, NEW g, NEW gs,
         GuiSession(peer, gin, din, pin, g, gs, "d_rxgui", "confirm"),
         NEW gin2, NEW din2,
         DspWrites(peer, gin, din, TextBytes("CONFIRMED"), gin2, din2)
  PROVE  GuiSession(peer, gin2, din2, pin, g, gs, "d_rxgui", "right")
<1>1. din2 = <<>>
  BY DEF GuiSession, DspFinds, DspWrites, DspIdle
<1>2. CASE peer = "dsp5500"
  <2>1. g = "g_tx" /\ gs = "confirm" /\ gin = <<>>
    BY <1>2 DEF GuiSession, GuiPhase, DspIdle, DspWork, Transfer
  <2>2. gin2 = TextBytes("CONFIRMED")
    BY <1>2, <2>1, OnEmpty DEF DspWrites, Message
  <2> QED
    BY <1>1, <1>2, <2>1, <2>2 DEF GuiSession, GuiFinds, DspFinds, GuiPhase, Transfer
<1>3. CASE peer # "dsp5500"
  BY <1>1, <1>3 DEF GuiSession, DspFinds, DspWrites
<1> QED
  BY <1>2, <1>3

\* The dsp sends a chunk to the gui.
LEMMA DspSendsChunk ==
  ASSUME NEW peer, NEW gin \in Seq(Byte), NEW din, NEW pin, NEW g, NEW gs, NEW ds,
         GuiSession(peer, gin, din, pin, g, gs, "d_txgui", ds),
         ds \in {"left", "right"},
         NEW c \in Seq(Float), NEW more \in BOOLEAN,
         more => Len(c) = CHUNK_SIZE,
         NEW gin2, NEW din2,
         \/ DspWrites(peer, gin, din, AudioBytes(c), gin2, din2)
         \/ ~more /\ gin2 = gin /\ din2 = din,
         NEW d2, NEW ds2,
         IF more THEN d2 = "d_txgui" /\ ds2 = ds
         ELSE IF ds = "left" THEN d2 = "d_txgui" /\ ds2 = "confirm"
         ELSE d2 = "d_loop" /\ ds2 = "left"
  PROVE  GuiSession(peer, gin2, din2, pin, g, gs, d2, ds2)
<1>1. din = <<>> /\ din2 = <<>>
  BY DEF GuiSession, DspFinds, DspWrites, DspIdle
<1>2. CASE peer = "dsp5500"
  <2>1. /\ g = "g_rx" /\ gs = ds
        /\ FullChunks(gin) /\ IsSamples(gin)
    BY <1>2, EmptyStream
       DEF GuiSession, GuiPhase, DspIdle, DspWork, Transfer, GuiFinds
  <2>2. IsSamples(gin2) /\ (more => FullChunks(gin2))
    BY <1>2, <2>1, AppendSamples DEF DspWrites
  <2>3. GuiPhase(g, gs, d2, ds2, gin2, din2)
    BY <1>1, <2>1, <2>2 DEF GuiPhase, Transfer, DspIdle
  <2>4. GuiFinds(gin2, g, gs)
    BY <2>1, <2>2 DEF GuiFinds
  <2> QED
    BY <1>1, <1>2, <2>3, <2>4 DEF GuiSession, DspFinds
<1>3. CASE peer # "dsp5500"
  BY <1>1, <1>3 DEF GuiSession, DspFinds, DspWrites
<1> QED
  BY <1>2, <1>3

\* The dsp reads the confirmation of the gui.
LEMMA DspConfirmed ==
  ASSUME NEW peer, NEW gin, NEW din, NEW pin, NEW g, NEW gs,
         GuiSession(peer, gin, din, pin, g, gs, "d_txgui", "confirm"), din # <<>>
  PROVE  /\ din = TextBytes("CONFIRMED")
         /\ GuiSession(peer, gin, <<>>, pin, g, gs, "d_txgui", "right")
BY EmptyStream DEF GuiSession, DspFinds, GuiPhase, DspIdle, DspWork, Transfer
-----------------------------------------------------------------------------
(***************************************************************************)
(* The dialogue of the dsp with the reverse service                        *)
(*                                                                         *)
(* peer is the other end of the dsp's client socket; din, rin and pin hold *)
(* what the dsp, the reverse service and the operating system (for the     *)
(* service, before accept) have not read.                                  *)
(***************************************************************************)

\* Where the dsp has no business with the reverse service.
DspAway ==
  {"d_loop", "d_ready", "d_rxgui", "d_connect", "d_txgui", "d_xconnect", "d_disc"}

ClientFinds(b, d, ds) ==
  \/ b = <<>>
  \/ d = "d_started" /\ b = TextBytes("ready")
  \/ d = "d_done" /\ b = TextBytes("done")
  \/ d = "d_txrev" /\ ds = "confirm" /\ b = TextBytes("CONFIRMED")
  \/ d = "d_rxrev" /\ ds # "confirm" /\ IsSamples(b)

Order == {TextBytes("run"), TextBytes("exit")}

ReverseFinds(b, r, rs) ==
  \/ b = <<>>
  \/ r = "r_recv" /\ b \in Order
  \/ r = "r_fetch" /\ b = TextBytes("ready")
  \/ r = "r_tx" /\ rs = "confirm" /\ b = TextBytes("CONFIRMED")
  \/ r = "r_rx" /\ rs # "confirm" /\ IsSamples(b)

ReversePhase(d, ds, r, rs, din, rin) ==
  \/ d \in {"d_run", "d_stop"} /\ r = "r_recv" /\ din = <<>> /\ rin = <<>>
  \/ d = "d_started" /\ r = "r_recv" /\ din = <<>> /\ rin = TextBytes("run")
  \/ d = "d_started" /\ r = "r_ready" /\ din = <<>> /\ rin = <<>>
  \/ d = "d_started" /\ r = "r_rx" /\ rs = "left" /\ rin = <<>>
  \/ d = "d_txrev" /\ r = "r_rx" /\ Transfer(ds, rs, din, rin)
  \/ d = "d_done" /\ r = "r_rx" /\ rs = "right" /\ din = <<>>
  \/ d = "d_done" /\ r \in {"r_reverse", "r_done"} /\ din = <<>> /\ rin = <<>>
  \/ d = "d_done" /\ r = "r_fetch" /\ rin = <<>>
  \/ d = "d_fetch" /\ r = "r_fetch" /\ din = <<>> /\ rin = <<>>
  \/ d = "d_rxrev" /\ ds = "left" /\ r = "r_fetch" /\ din = <<>>
  \/ d = "d_rxrev" /\ r = "r_tx" /\ Transfer(rs, ds, rin, din)
  \/ d = "d_rxrev" /\ ds = "right" /\ r = "r_disc" /\ rin = <<>>
  \/ d = "d_disc" /\ r = "r_recv" /\ din = <<>> /\ rin = TextBytes("exit")
  \/ d \in DspAway /\ r \in {"r_disc", "r_xdisc"} /\ din = <<>> /\ rin = <<>>

ReverseSession(peer, din, rin, pin, d, ds, r, rs) ==
  /\ ClientFinds(din, d, ds)
  /\ ReverseFinds(rin, r, rs)
  /\ pin \in Order \cup {<<>>}
  /\ peer \in {None, "pend8800", "rev8800"}
  /\ peer = "pend8800" => ReversePhase(d, ds, "r_recv", "left", din, pin)
  /\ peer = "rev8800" => ReversePhase(d, ds, r, rs, din, rin)

\* What a write of the dsp to the service, and one of the service, does.
ClientWrites(peer, din, rin, pin, b, din2, rin2, pin2) ==
  \/ peer = None /\ din2 = <<>> /\ rin2 = rin /\ pin2 = pin
  \/ peer = "pend8800" /\ din2 = din /\ rin2 = rin /\ pin2 = pin \o b
  \/ peer = "rev8800" /\ din2 = din /\ rin2 = rin \o b /\ pin2 = pin

ReverseWrites(peer, din, rin, b, din2, rin2) ==
  \/ peer = "rev8800" /\ din2 = din \o b /\ rin2 = rin
  \/ peer # "rev8800" /\ din2 = din /\ rin2 = <<>>

\* A stream breaks off, or is lost.
LEMMA ReverseSessionShrinks ==
  ASSUME NEW peer, NEW din, NEW rin, NEW pin, NEW d, NEW ds, NEW r, NEW rs,
         ReverseSession(peer, din, rin, pin, d, ds, r, rs),
         NEW peer2, NEW din2 \in {din, <<>>}, NEW rin2 \in {rin, <<>>},
         NEW pin2 \in {pin, <<>>},
         \/ peer2 = None
         \/ /\ peer2 = peer /\ din2 = din
            /\ peer = "pend8800" => pin2 = pin
            /\ peer = "rev8800" => rin2 = rin
  PROVE  ReverseSession(peer2, din2, rin2, pin2, d, ds, r, rs)
BY DEF ReverseSession, ClientFinds, ReverseFinds, None

\* An end without connection and without input may go anywhere.
LEMMA ReverseSessionDspFree ==
  ASSUME NEW din, NEW rin, NEW pin, NEW d, NEW ds, NEW r, NEW rs,
         ReverseSession(None, din, rin, pin, d, ds, r, rs), NEW d2, NEW ds2
  PROVE  ReverseSession(None, <<>>, rin, pin, d2, ds2, r, rs)
BY DEF ReverseSession, ClientFinds, None

LEMMA ReverseSessionReverseFree ==
  ASSUME NEW peer, NEW din, NEW rin, NEW pin, NEW d, NEW ds, NEW r, NEW rs,
         ReverseSession(peer, din, rin, pin, d, ds, r, rs), peer # "rev8800",
         NEW r2, NEW rs2
  PROVE  ReverseSession(peer, din, <<>>, pin, d, ds, r2, rs2)
BY DEF ReverseSession, ReverseFinds

\* The dsp goes on without the service.
LEMMA ReverseSessionDspElsewhere ==
  ASSUME NEW peer, NEW din, NEW rin, NEW pin, NEW ds, NEW r, NEW rs,
         NEW d \in DspAway \ {"d_disc"}, NEW d2 \in DspAway, NEW ds2,
         ReverseSession(peer, din, rin, pin, d, ds, r, rs)
  PROVE  ReverseSession(peer, din, rin, pin, d2, ds2, r, rs)
<1>1. din = <<>> /\ peer # "pend8800"
  BY DEF ReverseSession, ClientFinds, ReversePhase, DspAway
<1>2. ReversePhase(d, ds, r, rs, din, rin) => ReversePhase(d2, ds2, r, rs, din, rin)
  BY DEF ReversePhase, DspAway
<1> QED
  BY <1>1, <1>2 DEF ReverseSession, ClientFinds

\* A new connection of the dsp; l is what it is for.
LEMMA ReverseSessionConnects ==
  ASSUME NEW rin, NEW pin, NEW d, NEW ds, NEW r, NEW rs,
         NEW l \in {"d_run", "d_stop"}, NEW ds2,
         ReverseSession(None, <<>>, rin, pin, d, ds, r, rs)
  PROVE  ReverseSession("pend8800", <<>>, rin, <<>>, l, ds2, r, rs)
BY DEF ReverseSession, ClientFinds, ReversePhase

\* The service accepts it.
LEMMA ReverseSessionAccepted ==
  ASSUME NEW peer, NEW din, NEW rin, NEW pin, NEW d, NEW ds, NEW r, NEW rs,
         ReverseSession(peer, din, rin, pin, d, ds, r, rs),
         peer # "rev8800", NEW rs2
  PROVE  ReverseSession(IF peer = "pend8800" THEN "rev8800" ELSE peer,
                        din, pin, <<>>, d, ds, "r_recv", rs2)
<1>1. ReversePhase(d, ds, "r_recv", "left", din, pin) =>
        ReversePhase(d, ds, "r_recv", rs2, din, pin)
  BY DEF ReversePhase
<1> QED
  BY <1>1 DEF ReverseSession, ReverseFinds

\* The dsp sends "run" or "exit".
LEMMA ClientOrders ==
  ASSUME NEW peer, NEW din, NEW rin, NEW pin, NEW d, NEW ds, NEW r, NEW rs,
         ReverseSession(peer, din, rin, pin, d, ds, r, rs),
         NEW m \in Message, NEW d2, NEW ds2,
         \/ d = "d_run" /\ m = "run" /\ d2 = "d_started"
         \/ d = "d_stop" /\ m = "exit" /\ d2 = "d_disc",
         NEW din2, NEW rin2, NEW pin2,
         ClientWrites(peer, din, rin, pin, TextBytes(m), din2, rin2, pin2)
  PROVE  ReverseSession(peer, din2, rin2, pin2, d2, ds2, r, rs)
<1>1. din = <<>> /\ din2 = <<>>
  BY DEF ReverseSession, ClientFinds, ClientWrites
<1>2. TextBytes(m) \in Order /\ <<>> \o TextBytes(m) = TextBytes(m)
  BY OnEmpty DEF Order
<1>3. CASE peer = None
  BY <1>1, <1>3 DEF ReverseSession, ClientFinds, ClientWrites, None
<1>4. CASE peer = "pend8800"
  <2>1. pin = <<>>
    BY <1>4 DEF ReverseSession, ReversePhase, DspAway
  <2>2. pin2 = TextBytes(m) /\ rin2 = rin
    BY <1>2, <1>4, <2>1 DEF ClientWrites, None
  <2> QED
    BY <1>1, <1>2, <1>4, <2>2 DEF ReverseSession, ClientFinds, ReversePhase
<1>5. CASE peer = "rev8800"
  <2>1. r = "r_recv" /\ rin = <<>>
    BY <1>5 DEF ReverseSession, ReversePhase, DspAway
  <2>2. rin2 = TextBytes(m) /\ pin2 = pin
    BY <1>2, <1>5, <2>1 DEF ClientWrites, None
  <2> QED
    BY <1>1, <1>2, <1>5, <2>1, <2>2
       DEF ReverseSession, ClientFinds, ReverseFinds, ReversePhase
<1> QED
  BY <1>3, <1>4, <1>5 DEF ReverseSession

\* The dsp reads "ready", the answer to "run".
LEMMA ClientStarted ==
  ASSUME NEW peer, NEW din, NEW rin, NEW pin, NEW ds, NEW r, NEW rs,
         ReverseSession(peer, din, rin, pin, "d_started", ds, r, rs), din # <<>>
  PROVE  /\ din = TextBytes("ready")
         /\ ReverseSession(peer, <<>>, rin, pin, "d_txrev", "left", r, rs)
BY EmptyStream
   DEF ReverseSession, ClientFinds, ReversePhase, DspAway, Transfer

\* The dsp sends a chunk to the service.
LEMMA ClientSendsChunk ==
  ASSUME NEW peer, NEW din, NEW rin \in Seq(Byte), NEW pin, NEW ds, NEW r, NEW rs,
         ReverseSession(peer, din, rin, pin, "d_txrev", ds, r, rs),
         ds \in {"left", "right"},
         NEW c \in Seq(Float), NEW more \in BOOLEAN,
         more => Len(c) = CHUNK_SIZE,
         NEW din2, NEW rin2, NEW pin2,
         \/ ClientWrites(peer, din, rin, pin, AudioBytes(c), din2, rin2, pin2)
         \/ ~more /\ din2 = din /\ rin2 = rin /\ pin2 = pin,
         NEW d2, NEW ds2,
         IF more THEN d2 = "d_txrev" /\ ds2 = ds
         ELSE IF ds = "left" THEN d2 = "d_txrev" /\ ds2 = "confirm"
         ELSE d2 = "d_done" /\ ds2 = "left"
  PROVE  ReverseSession(peer, din2, rin2, pin2, d2, ds2, r, rs)
<1>1. din = <<>> /\ peer # "pend8800"
  BY DEF ReverseSession, ClientFinds, ReversePhase, DspAway
<1>2. din2 = <<>> /\ pin2 = pin
  BY <1>1 DEF ClientWrites
<1>3. CASE peer = None
  <2>1. rin2 = rin
    BY <1>3 DEF ClientWrites, None
  <2> QED
    BY <1>2, <1>3, <2>1 DEF ReverseSession, ClientFinds, None
<1>4. CASE peer = "rev8800"
  <2>1. /\ r = "r_rx" /\ rs = ds
        /\ FullChunks(rin) /\ IsSamples(rin)
    BY <1>4, EmptyStream
       DEF ReverseSession, ReversePhase, DspAway, Transfer, ReverseFinds
  <2>2. IsSamples(rin2) /\ (more => FullChunks(rin2))
    BY <1>4, <2>1, AppendSamples DEF ClientWrites, None
  <2>3. ReversePhase(d2, ds2, r, rs, din2, rin2)
    BY <1>2, <2>1, <2>2 DEF ReversePhase, Transfer
  <2>4. ReverseFinds(rin2, r, rs)
    BY <2>1, <2>2 DEF ReverseFinds
  <2> QED
    BY <1>2, <1>4, <2>3, <2>4 DEF ReverseSession, ClientFinds
<1> QED
  BY <1>1, <1>3, <1>4 DEF ReverseSession

\* The dsp reads the confirmation of the service.
LEMMA ClientConfirmed ==
  ASSUME NEW peer, NEW din, NEW rin, NEW pin, NEW r, NEW rs,
         ReverseSession(peer, din, rin, pin, "d_txrev", "confirm", r, rs),
         din # <<>>
  PROVE  /\ din = TextBytes("CONFIRMED")
         /\ ReverseSession(peer, <<>>, rin, pin, "d_txrev", "right", r, rs)
BY EmptyStream
   DEF ReverseSession, ClientFinds, ReversePhase, DspAway, Transfer

\* The dsp reads "done".
LEMMA ClientDone ==
  ASSUME NEW peer, NEW din, NEW rin, NEW pin, NEW ds, NEW r, NEW rs, NEW ds2,
         ReverseSession(peer, din, rin, pin, "d_done", ds, r, rs), din # <<>>
  PROVE  /\ din = TextBytes("done")
         /\ ReverseSession(peer, <<>>, rin, pin, "d_fetch", ds2, r, rs)
BY EmptyStream
   DEF ReverseSession, ClientFinds, ReversePhase, DspAway, Transfer

\* The dsp asks for the result.
LEMMA ClientFetches ==
  ASSUME NEW peer, NEW din, NEW rin, NEW pin, NEW ds, NEW r, NEW rs,
         ReverseSession(peer, din, rin, pin, "d_fetch", ds, r, rs),
         NEW din2, NEW rin2, NEW pin2,
         ClientWrites(peer, din, rin, pin, TextBytes("ready"), din2, rin2, pin2)
  PROVE  ReverseSession(peer, din2, rin2, pin2, "d_rxrev", "left", r, rs)
<1>1. din = <<>> /\ din2 = <<>> /\ peer # "pend8800"
  BY DEF ReverseSession, ClientFinds, ClientWrites, ReversePhase, DspAway
<1>2. CASE peer = None
  BY <1>1, <1>2 DEF ReverseSession, ClientFinds, ClientWrites, None
<1>3. CASE peer = "rev8800"
  <2>1. r = "r_fetch" /\ rin = <<>>
    BY <1>3 DEF ReverseSession, ReversePhase, DspAway
  <2>2. rin2 = TextBytes("ready") /\ pin2 = pin
    BY <1>3, <2>1, OnEmpty DEF ClientWrites, None, Message
  <2> QED
    BY <1>1, <1>3, <2>1, <2>2
       DEF ReverseSession, ClientFinds, ReverseFinds, ReversePhase
<1> QED
  BY <1>1, <1>2, <1>3 DEF ReverseSession

\* The dsp reads a chunk of the result.
LEMMA ClientReadsChunk ==
  ASSUME NEW peer, NEW din, NEW rin, NEW pin, NEW ds, NEW r, NEW rs,
         ReverseSession(peer, din, rin, pin, "d_rxrev", ds, r, rs),
         ds \in {"left", "right"}, din # <<>>,
         NEW rest, NEW full \in BOOLEAN, IsSamples(rest),
         ~full => rest = <<>>,
         FullChunks(din) => full /\ FullChunks(rest),
         NEW d2, NEW ds2,
         IF full THEN d2 = "d_rxrev" /\ ds2 = ds
         ELSE IF ds = "left" THEN d2 = "d_rxrev" /\ ds2 = "confirm"
         ELSE d2 = "d_txgui" /\ ds2 = "left"
  PROVE  ReverseSession(peer, rest, rin, pin, d2, ds2, r, rs)
<1>1. ClientFinds(rest, d2, ds2)
  BY DEF ClientFinds
<1>2. ASSUME NEW q, NEW qs, NEW b, ReversePhase("d_rxrev", ds, q, qs, din, b)
      PROVE  ReversePhase(d2, ds2, q, qs, rest, b)
  <2>1. CASE q = "r_tx" /\ Transfer(qs, ds, b, din)
    BY <2>1 DEF ReversePhase, Transfer
  <2>2. CASE ds = "right" /\ q = "r_disc" /\ b = <<>>
    BY <2>2 DEF ReversePhase, DspAway
  <2> QED
    BY <1>2, <2>1, <2>2 DEF ReversePhase, DspAway
<1> QED
  BY <1>1, <1>2 DEF ReverseSession

\* The dsp confirms.
LEMMA ClientConfirms ==
  ASSUME NEW peer, NEW din, NEW rin, NEW pin, NEW r, NEW rs,
         ReverseSession(peer, din, rin, pin, "d_rxrev", "confirm", r, rs),
         NEW din2, NEW rin2, NEW pin2,
         ClientWrites(peer, din, rin, pin, TextBytes("CONFIRMED"), din2, rin2, pin2)
  PROVE  ReverseSession(peer, din2, rin2, pin2, "d_rxrev", "right", r, rs)
<1>1. din = <<>> /\ din2 = <<>> /\ peer # "pend8800"
  BY DEF ReverseSession, ClientFinds, ClientWrites, ReversePhase, DspAway
<1>2. CASE peer = None
  BY <1>1, <1>2 DEF ReverseSession, ClientFinds, ClientWrites, None
<1>3. CASE peer = "rev8800"
  <2>1. r = "r_tx" /\ rs = "confirm" /\ rin = <<>>
    BY <1>3 DEF ReverseSession, ReversePhase, DspAway, Transfer
  <2>2. rin2 = TextBytes("CONFIRMED") /\ pin2 = pin
    BY <1>3, <2>1, OnEmpty DEF ClientWrites, None, Message
  <2> QED
    BY <1>1, <1>3, <2>1, <2>2
       DEF ReverseSession, ClientFinds, ReverseFinds, ReversePhase, Transfer
<1> QED
  BY <1>1, <1>2, <1>3 DEF ReverseSession

\* The service reads an order.
LEMMA ReverseHears ==
  ASSUME NEW peer, NEW din, NEW rin, NEW pin, NEW d, NEW ds, NEW rs,
         ReverseSession(peer, din, rin, pin, d, ds, "r_recv", rs), rin # <<>>,
         NEW r2, NEW rs2,
         r2 = IF rin = TextBytes("run") THEN "r_ready" ELSE "r_xdisc"
  PROVE  /\ rin \in Order
         /\ ReverseSession(peer, din, <<>>, pin, d, ds, r2, rs2)
<1>1. TextBytes("run") # TextBytes("exit")
  BY TextsDiffer DEF Message
<1>2. rin \in Order
  BY DEF ReverseSession, ReverseFinds
<1>3. ReversePhase(d, ds, "r_recv", rs, din, rin) =>
        ReversePhase(d, ds, r2, rs2, din, <<>>)
  BY <1>1, <1>2 DEF ReversePhase, DspAway, Order
<1> QED
  BY <1>2, <1>3 DEF ReverseSession, ReverseFinds

\* The service sends "ready" before the audio, and "done" after it.
LEMMA ReverseAnswers ==
  ASSUME NEW peer, NEW din, NEW rin, NEW pin, NEW d, NEW ds, NEW r, NEW rs,
         ReverseSession(peer, din, rin, pin, d, ds, r, rs),
         NEW m \in Message, NEW r2, NEW rs2,
         \/ r = "r_ready" /\ m = "ready" /\ r2 = "r_rx" /\ rs2 = "left"
         \/ r = "r_done" /\ m = "done" /\ r2 = "r_fetch",
         NEW din2, NEW rin2,
         ReverseWrites(peer, din, rin, TextBytes(m), din2, rin2)
  PROVE  ReverseSession(peer, din2, rin2, pin, d, ds, r2, rs2)
<1>1. rin2 = <<>>
  BY DEF ReverseSession, ReverseFinds, ReverseWrites
<1>2. CASE peer = "rev8800"
  <2>1. /\ d = IF m = "ready" THEN "d_started" ELSE "d_done"
        /\ din = <<>>
    BY <1>2 DEF ReverseSession, ReversePhase, DspAway
  <2>2. din2 = TextBytes(m)
    BY <1>2, <2>1, OnEmpty DEF ReverseWrites
  <2> QED
    BY <1>1, <1>2, <2>1, <2>2
       DEF ReverseSession, ClientFinds, ReverseFinds, ReversePhase
<1>3. CASE peer # "rev8800"
  BY <1>1, <1>3 DEF ReverseSession, ReverseFinds, ReverseWrites
<1> QED
  BY <1>2, <1>3

\* The service reads a chunk.
LEMMA ReverseReadsChunk ==
  ASSUME NEW peer, NEW din, NEW rin, NEW pin, NEW d, NEW ds, NEW rs,
         ReverseSession(peer, din, rin, pin, d, ds, "r_rx", rs),
         rs \in {"left", "right"}, rin # <<>>,
         NEW rest, NEW full \in BOOLEAN, IsSamples(rest),
         ~full => rest = <<>>,
         FullChunks(rin) => full /\ FullChunks(rest),
         NEW r2, NEW rs2,
         IF full THEN r2 = "r_rx" /\ rs2 = rs
         ELSE IF rs = "left" THEN r2 = "r_rx" /\ rs2 = "confirm"
         ELSE r2 = "r_reverse" /\ rs2 = "left"
  PROVE  ReverseSession(peer, din, rest, pin, d, ds, r2, rs2)
<1>1. ReverseFinds(rest, r2, rs2)
  BY DEF ReverseFinds
<1>2. ASSUME ReversePhase(d, ds, "r_rx", rs, din, rin)
      PROVE  ReversePhase(d, ds, r2, rs2, din, rest)
  <2>1. CASE d = "d_txrev" /\ Transfer(ds, rs, din, rin)
    BY <2>1 DEF ReversePhase, Transfer
  <2>2. CASE d = "d_done" /\ rs = "right" /\ din = <<>>
    BY <2>2 DEF ReversePhase
  <2> QED
    BY <1>2, <2>1, <2>2 DEF ReversePhase
<1> QED
  BY <1>1, <1>2 DEF ReverseSession

\* The service confirms the left channel.
LEMMA ReverseConfirms ==
  ASSUME NEW peer, NEW din, NEW rin, NEW pin, NEW d, NEW ds,
         ReverseSession(peer, din, rin, pin, d, ds, "r_rx", "confirm"),
         NEW din2, NEW rin2,
         ReverseWrites(peer, din, rin, TextBytes("CONFIRMED"), din2, rin2)
  PROVE  ReverseSession(peer, din2, rin2, pin, d, ds, "r_rx", "right")
<1>1. rin2 = <<>>
  BY DEF ReverseSession, ReverseFinds, ReverseWrites
<1>2. CASE peer = "rev8800"
  <2>1. d = "d_txrev" /\ ds = "confirm" /\ din = <<>>
    BY <1>2 DEF ReverseSession, ReversePhase, Transfer
  <2>2. din2 = TextBytes("CONFIRMED")
    BY <1>2, <2>1, OnEmpty DEF ReverseWrites, Message
  <2> QED
    BY <1>1, <1>2, <2>1, <2>2
       DEF ReverseSession, ClientFinds, ReverseFinds, ReversePhase, Transfer
<1>3. CASE peer # "rev8800"
  BY <1>1, <1>3 DEF ReverseSession, ReverseFinds, ReverseWrites
<1> QED
  BY <1>2, <1>3

\* reverse() reads and writes nothing.
LEMMA ReverseReverses ==
  ASSUME NEW peer, NEW din, NEW rin, NEW pin, NEW d, NEW ds, NEW rs, NEW rs2,
         ReverseSession(peer, din, rin, pin, d, ds, "r_reverse", rs)
  PROVE  ReverseSession(peer, din, rin, pin, d, ds, "r_done", rs2)
BY DEF ReverseSession, ReverseFinds, ReversePhase

\* The service reads that the dsp wants the result.
LEMMA ReverseFetched ==
  ASSUME NEW peer, NEW din, NEW rin, NEW pin, NEW d, NEW ds, NEW rs,
         ReverseSession(peer, din, rin, pin, d, ds, "r_fetch", rs), rin # <<>>
  PROVE  /\ rin = TextBytes("ready")
         /\ ReverseSession(peer, din, <<>>, pin, d, ds, "r_tx", "left")
BY EmptyStream DEF ReverseSession, ReverseFinds, ReversePhase, Transfer

\* The service sends a chunk of the result.
LEMMA ReverseSendsChunk ==
  ASSUME NEW peer, NEW din \in Seq(Byte), NEW rin, NEW pin, NEW d, NEW ds, NEW rs,
         ReverseSession(peer, din, rin, pin, d, ds, "r_tx", rs),
         rs \in {"left", "right"},
         NEW c \in Seq(Float), NEW more \in BOOLEAN,
         more => Len(c) = CHUNK_SIZE,
         NEW din2, NEW rin2,
         \/ ReverseWrites(peer, din, rin, AudioBytes(c), din2, rin2)
         \/ ~more /\ din2 = din /\ rin2 = rin,
         NEW r2, NEW rs2,
         IF more THEN r2 = "r_tx" /\ rs2 = rs
         ELSE IF rs = "left" THEN r2 = "r_tx" /\ rs2 = "confirm"
         ELSE r2 = "r_disc" /\ rs2 = "left"
  PROVE  ReverseSession(peer, din2, rin2, pin, d, ds, r2, rs2)
<1>1. rin = <<>> /\ rin2 = <<>>
  BY DEF ReverseSession, ReverseFinds, ReverseWrites
<1>2. CASE peer = "rev8800"
  <2>1. /\ d = "d_rxrev" /\ ds = rs
        /\ FullChunks(din) /\ IsSamples(din)
    BY <1>2, EmptyStream
       DEF ReverseSession, ReversePhase, Transfer, ClientFinds
  <2>2. IsSamples(din2) /\ (more => FullChunks(din2))
    BY <1>2, <2>1, AppendSamples DEF ReverseWrites
  <2>3. ReversePhase(d, ds, r2, rs2, din2, rin2)
    BY <1>1, <2>1, <2>2 DEF ReversePhase, Transfer
  <2>4. ClientFinds(din2, d, ds)
    BY <2>1, <2>2 DEF ClientFinds
  <2> QED
    BY <1>1, <1>2, <2>3, <2>4 DEF ReverseSession, ReverseFinds
<1>3. CASE peer # "rev8800"
  BY <1>1, <1>3 DEF ReverseSession, ReverseFinds, ReverseWrites
<1> QED
  BY <1>2, <1>3

\* The service reads the confirmation of the dsp.
LEMMA ReverseConfirmed ==
  ASSUME NEW peer, NEW din, NEW rin, NEW pin, NEW d, NEW ds,
         ReverseSession(peer, din, rin, pin, d, ds, "r_tx", "confirm"),
         rin # <<>>
  PROVE  /\ rin = TextBytes("CONFIRMED")
         /\ ReverseSession(peer, din, <<>>, pin, d, ds, "r_tx", "right")
BY EmptyStream DEF ReverseSession, ReverseFinds, ReversePhase, Transfer

-----------------------------------------------------------------------------
(***************************************************************************)
(* The sockets                                                             *)
(***************************************************************************)

\* Both ends of a connection know each other and are open, only an open
\* socket has input, and who can be connected with whom.
Wired(n) ==
  /\ \A s \in Sock :
       /\ n.peer[s] # None => n.peer[n.peer[s]] = s /\ n.status[s] = "open"
       /\ n.status[s] # "open" => n.inbuf[s] = <<>>
  /\ n.peer["gui"] \in {None, "pend5500", "dsp5500"}
  /\ n.peer["dsp8800"] \in {None, "pend8800", "rev8800"}
  /\ n.peer["pend5500"] \in {None, "gui"}
  /\ n.peer["dsp5500"] \in {None, "gui"}
  /\ n.peer["pend8800"] \in {None, "dsp8800"}
  /\ n.peer["rev8800"] \in {None, "dsp8800"}

\* Connections have ended, and input has been lost.
Shrunk(n, m) ==
  \A s \in Sock :
    /\ m.peer[s] \in {n.peer[s], None}
    /\ m.inbuf[s] \in {n.inbuf[s], <<>>}
    /\ m.peer[s] # None => m.inbuf[s] = n.inbuf[s]
    /\ n.status[s] = "closed" => m.status[s] = "closed"

\* Socket s is closed.
Shut(n, s) == n.status[s] = "closed" /\ n.peer[s] = None /\ n.inbuf[s] = <<>>

LEMMA ShrunkTwice ==
  ASSUME NEW n, NEW m, NEW k, Shrunk(n, m), Shrunk(m, k)
  PROVE  Shrunk(n, k)
<1> SUFFICES ASSUME NEW s \in Sock
             PROVE  /\ k.peer[s] \in {n.peer[s], None}
                    /\ k.inbuf[s] \in {n.inbuf[s], <<>>}
                    /\ k.peer[s] # None => k.inbuf[s] = n.inbuf[s]
                    /\ n.status[s] = "closed" => k.status[s] = "closed"
  BY DEF Shrunk
<1> QED
  BY DEF Shrunk

LEMMA StaysShut ==
  ASSUME NEW n, NEW m, Shrunk(n, m), NEW s \in Sock, Shut(n, s)
  PROVE  Shut(m, s)
BY DEF Shrunk, Shut

\* The fields of a network state after an update.
LEMMA NetParts ==
  ASSUME NEW B, NEW n \in NetOf(B), NEW st, NEW pe, NEW ib
  PROVE  LET m == [n EXCEPT !.status = st, !.peer = pe, !.inbuf = ib]
         IN  m.status = st /\ m.peer = pe /\ m.inbuf = ib
BY DEF NetOf

\* A socket goes.
LEMMA GoneShrinks ==
  ASSUME NEW n \in NetOf(Byte), Wired(n), NEW s \in Sock, NEW abort \in BOOLEAN
  PROVE  LET m == Gone(n, s, abort)
         IN  Wired(m) /\ Shrunk(n, m) /\ Shut(m, s)
<1> DEFINE st == [t \in Sock |-> IF t = s THEN "closed"
                                 ELSE IF t = n.peer[s] /\ abort THEN "reset"
                                 ELSE n.status[t]]
           pe == [t \in Sock |-> IF t = s \/ t = n.peer[s] THEN None
                                 ELSE n.peer[t]]
           ib == [t \in Sock |-> IF t = s \/ (t = n.peer[s] /\ abort)
                                 THEN <<>> ELSE n.inbuf[t]]
           m == Gone(n, s, abort)
<1>1. m = [n EXCEPT !.status = st, !.peer = pe, !.inbuf = ib]
  BY Zenon DEF Gone
<1>2. \A t \in Sock :
        /\ st[t] = IF t = s THEN "closed"
                   ELSE IF t = n.peer[s] /\ abort THEN "reset" ELSE n.status[t]
        /\ pe[t] = IF t = s \/ t = n.peer[s] THEN None ELSE n.peer[t]
        /\ ib[t] = IF t = s \/ (t = n.peer[s] /\ abort) THEN <<>> ELSE n.inbuf[t]
  BY Zenon
<1> HIDE DEF st, pe, ib, m
<1>3. m.status = st /\ m.peer = pe /\ m.inbuf = ib
  BY <1>1, NetParts
<1>4. \A t \in Sock :
        /\ m.status[t] = IF t = s THEN "closed"
                         ELSE IF t = n.peer[s] /\ abort THEN "reset"
                         ELSE n.status[t]
        /\ m.peer[t] = IF t = s \/ t = n.peer[s] THEN None ELSE n.peer[t]
        /\ m.inbuf[t] = IF t = s \/ (t = n.peer[s] /\ abort)
                        THEN <<>> ELSE n.inbuf[t]
  BY <1>2, <1>3
<1>5. n.peer \in [Sock -> Sock \cup {None}] /\ None \notin Sock
  BY NetFields DEF None, Sock
<1>6. Shut(m, s)
  BY <1>4 DEF Shut
<1>7. Shrunk(n, m)
  <2> SUFFICES ASSUME NEW t \in Sock
               PROVE  /\ m.peer[t] \in {n.peer[t], None}
                      /\ m.inbuf[t] \in {n.inbuf[t], <<>>}
                      /\ m.peer[t] # None => m.inbuf[t] = n.inbuf[t]
                      /\ n.status[t] = "closed" => m.status[t] = "closed"
    BY DEF Shrunk
  <2>1. t = n.peer[s] => n.status[t] = "open"
    BY <1>5 DEF Wired, None
  <2> QED
    BY <1>4, <2>1
<1>8. ASSUME NEW t \in Sock
      PROVE  /\ m.peer[t] # None => m.peer[m.peer[t]] = t /\ m.status[t] = "open"
             /\ m.status[t] # "open" => m.inbuf[t] = <<>>
  <2>1. m.status[t] # "open" => m.inbuf[t] = <<>>
    BY <1>4 DEF Wired
  <2>2. ASSUME m.peer[t] # None
        PROVE  m.peer[m.peer[t]] = t /\ m.status[t] = "open"
    <3>1. t # s /\ t # n.peer[s] /\ m.peer[t] = n.peer[t] /\ n.peer[t] \in Sock
      BY <1>4, <1>5, <2>2
    <3>2. n.peer[n.peer[t]] = t /\ n.status[t] = "open"
      BY <2>2, <3>1 DEF Wired
    <3>3. n.peer[t] # s /\ n.peer[t] # n.peer[s]
      <4>1. n.peer[s] # None => n.peer[n.peer[s]] = s
        BY DEF Wired
      <4> QED
        BY <2>2, <3>1, <3>2, <4>1
    <3> QED
      BY <1>4, <3>1, <3>2, <3>3
  <2> QED
    BY <2>1, <2>2
<1>9. Wired(m)
  BY <1>4, <1>8 DEF Wired, Sock
<1> QED
  BY <1>6, <1>7, <1>9 DEF m

\* The sockets of a network are those of another one.
LEMMA SameSockets ==
  ASSUME NEW n, NEW m, Wired(n),
         m.status = n.status, m.peer = n.peer, m.inbuf = n.inbuf
  PROVE  Wired(m) /\ Shrunk(n, m)
BY DEF Wired, Shrunk

\* socket::close
LEMMA CloseShrinks ==
  ASSUME NEW n \in NetOf(Byte), Wired(n), NEW s \in Sock
  PROVE  LET m == Close(n, s)
         IN  m \in NetOf(Byte) /\ Wired(m) /\ Shrunk(n, m) /\ Shut(m, s)
<1>1. (n.inbuf[s] # <<>>) \in BOOLEAN
  OBVIOUS
<1> QED
  BY <1>1, GoneShrinks, CloseType DEF Close

\* Acceptors come and go beside the sockets.
LEMMA ListeningSockets ==
  ASSUME NEW n \in NetOf(Byte), Wired(n), NEW port \in Port, NEW on \in BOOLEAN
  PROVE  LET m == [n EXCEPT !.listening[port] = on]
         IN  m \in NetOf(Byte) /\ Wired(m) /\ Shrunk(n, m)
<1> DEFINE m == [n EXCEPT !.listening[port] = on]
<1>1. m.status = n.status /\ m.peer = n.peer /\ m.inbuf = n.inbuf
  BY DEF NetOf
<1>2. m \in NetOf(Byte)
  BY ListeningType
<1> HIDE DEF m
<1>3. Wired(m) /\ Shrunk(n, m)
  BY <1>1, SameSockets
<1> QED
  BY <1>2, <1>3 DEF m

LEMMA ListenSockets ==
  ASSUME NEW n \in NetOf(Byte), Wired(n), NEW port \in Port
  PROVE  Wired(Listen(n, port)) /\ Shrunk(n, Listen(n, port))
<1>1. LET m == [n EXCEPT !.listening[port] = TRUE]
      IN  m \in NetOf(Byte) /\ Wired(m) /\ Shrunk(n, m)
  BY ListeningSockets
<1> QED
  BY <1>1, Zenon DEF Listen

\* An acceptor goes, with the connection that waits at it.
LEMMA StopShrinks ==
  ASSUME NEW n \in NetOf(Byte), Wired(n), NEW port \in Port
  PROVE  LET m == StopListening(n, port)
         IN  /\ m \in NetOf(Byte) /\ Wired(m) /\ Shrunk(n, m)
             /\ Shut(m, Pending(port))
<1> DEFINE k == [n EXCEPT !.listening[port] = FALSE]
           m == StopListening(n, port)
<1>1. k \in NetOf(Byte) /\ Wired(k) /\ Shrunk(n, k)
  BY ListeningSockets
<1>2. Pending(port) \in Sock
  BY DEF Pending, Sock
<1>3. m = Gone(k, Pending(port), TRUE)
  BY DEF StopListening
<1>4. m \in NetOf(Byte)
  BY StopType
<1> HIDE DEF k, m
<1>5. Wired(m) /\ Shrunk(k, m) /\ Shut(m, Pending(port))
  BY <1>1, <1>2, <1>3, GoneShrinks
<1>6. Shrunk(n, m)
  BY <1>1, <1>5, ShrunkTwice
<1> QED
  BY <1>4, <1>5, <1>6 DEF m

\* The sockets that go with a program.
SocketsOf(p) ==
  IF p = "gui" THEN {"gui"}
  ELSE IF p = "dsp" THEN {"dsp8800", "dsp5500", "pend5500"}
  ELSE {"rev8800", "pend8800"}

LEMMA CloseAllShrinks ==
  ASSUME NEW n \in NetOf(Byte), Wired(n), NEW p \in Program
  PROVE  LET m == CloseAll(n, p)
         IN  /\ Wired(m) /\ Shrunk(n, m)
             /\ \A s \in SocketsOf(p) : Shut(m, s)
<1>1. {"gui", "dsp5500", "dsp8800", "rev8800", "pend5500", "pend8800"} \subseteq Sock
  BY DEF Sock
<1>2. 5500 \in Port /\ 8800 \in Port
  BY DEF Port
<1>3. Pending(5500) = "pend5500" /\ Pending(8800) = "pend8800"
  BY DEF Pending
<1>4. CASE p = "gui"
  <2>1. CloseAll(n, p) = Close(n, "gui") /\ SocketsOf(p) = {"gui"}
    BY <1>4 DEF CloseAll, SocketsOf
  <2> QED
    BY <1>1, <2>1, CloseShrinks
<1>5. CASE p = "dsp"
  <2> DEFINE a == Close(n, "dsp8800")
             b == Close(a, "dsp5500")
             m == StopListening(b, 5500)
  <2>1. a \in NetOf(Byte) /\ Wired(a) /\ Shrunk(n, a) /\ Shut(a, "dsp8800")
    BY <1>1, CloseShrinks
  <2> HIDE DEF a
  <2>2. b \in NetOf(Byte) /\ Wired(b) /\ Shrunk(a, b) /\ Shut(b, "dsp5500")
    BY <1>1, <2>1, CloseShrinks
  <2> HIDE DEF b
  <2>3. m \in NetOf(Byte) /\ Wired(m) /\ Shrunk(b, m) /\ Shut(m, "pend5500")
    BY <1>2, <1>3, <2>2, StopShrinks
  <2> HIDE DEF m
  <2>4. Shut(m, "dsp5500") /\ Shut(m, "dsp8800")
    BY <1>1, <2>1, <2>2, <2>3, StaysShut
  <2>5. Shrunk(n, m)
    BY <2>1, <2>2, <2>3, ShrunkTwice
  <2>6. CloseAll(n, p) = m /\ SocketsOf(p) = {"dsp8800", "dsp5500", "pend5500"}
    BY <1>5 DEF CloseAll, SocketsOf, m, b, a
  <2> QED
    BY <2>3, <2>4, <2>5, <2>6
<1>6. CASE p = "rev"
  <2> DEFINE a == Close(n, "rev8800")
             m == StopListening(a, 8800)
  <2>1. a \in NetOf(Byte) /\ Wired(a) /\ Shrunk(n, a) /\ Shut(a, "rev8800")
    BY <1>1, CloseShrinks
  <2> HIDE DEF a
  <2>2. m \in NetOf(Byte) /\ Wired(m) /\ Shrunk(a, m) /\ Shut(m, "pend8800")
    BY <1>2, <1>3, <2>1, StopShrinks
  <2> HIDE DEF m
  <2>3. Shut(m, "rev8800") /\ Shrunk(n, m)
    BY <1>1, <2>1, <2>2, StaysShut, ShrunkTwice
  <2>4. CloseAll(n, p) = m /\ SocketsOf(p) = {"rev8800", "pend8800"}
    BY <1>6 DEF CloseAll, SocketsOf, m, a
  <2> QED
    BY <2>2, <2>3, <2>4
<1> QED
  BY <1>4, <1>5, <1>6 DEF Program

\* write: the bytes reach the other end; without one, the socket is reset.
LEMMA WriteEffect ==
  ASSUME NEW n \in NetOf(Byte), Wired(n), NEW s \in Sock, NEW b
  PROVE  LET m == Write(n, s, b)
         IN  /\ Wired(m)
             /\ m.peer = n.peer
             /\ \A t \in Sock :
                  m.inbuf[t] = IF t = n.peer[s] THEN n.inbuf[t] \o b
                               ELSE IF t = s /\ n.peer[s] = None THEN <<>>
                               ELSE n.inbuf[t]
             /\ \A t \in Sock : n.status[t] = "closed" => m.status[t] = "closed"
<1> DEFINE m == Write(n, s, b)
<1>1. /\ n.peer \in [Sock -> Sock \cup {None}] /\ None \notin Sock
      /\ n.status \in [Sock -> {"closed", "open", "reset"}]
      /\ n.inbuf \in [Sock -> Seq(Byte)]
  BY NetFields DEF None, Sock
<1>2. CASE n.status[s] # "open"
  <2>1. m = n
    BY <1>2 DEF Write
  <2>2. n.peer[s] = None /\ n.inbuf[s] = <<>>
    BY <1>2 DEF Wired
  <2> QED
    BY <1>1, <2>1, <2>2
<1>3. CASE n.status[s] = "open" /\ n.peer[s] = None
  <2> DEFINE st == [n.status EXCEPT ![s] = "reset"]
             ib == [n.inbuf EXCEPT ![s] = <<>>]
  <2>1. m = [n EXCEPT !.status = st, !.peer = n.peer, !.inbuf = ib]
    <3>1. m = [n EXCEPT !.status[s] = "reset", !.inbuf[s] = <<>>]
      BY <1>3 DEF Write
    <3> QED
      BY <3>1 DEF NetOf
  <2>2. \A t \in Sock :
          /\ st[t] = IF t = s THEN "reset" ELSE n.status[t]
          /\ ib[t] = IF t = s THEN <<>> ELSE n.inbuf[t]
    BY <1>1
  <2> HIDE DEF st, ib, m
  <2>3. m.status = st /\ m.peer = n.peer /\ m.inbuf = ib
    BY <2>1, NetParts
  <2>4. Wired(m)
    BY <1>3, <2>2, <2>3 DEF Wired
  <2> QED
    BY <1>1, <1>3, <2>2, <2>3, <2>4 DEF m
<1>4. CASE n.status[s] = "open" /\ n.peer[s] # None
  <2> DEFINE u == n.peer[s]
             ib == [n.inbuf EXCEPT ![u] = @ \o b]
  <2>1. m = [n EXCEPT !.status = n.status, !.peer = n.peer, !.inbuf = ib]
    <3>1. m = [n EXCEPT !.inbuf[u] = @ \o b]
      BY <1>4 DEF Write
    <3> QED
      BY <3>1 DEF NetOf
  <2>2. u \in Sock /\ n.status[u] = "open"
    BY <1>1, <1>4 DEF Wired, None
  <2>3. \A t \in Sock : ib[t] = IF t = u THEN n.inbuf[t] \o b ELSE n.inbuf[t]
    BY <1>1, <2>2
  <2> HIDE DEF ib, m
  <2>4. m.status = n.status /\ m.peer = n.peer /\ m.inbuf = ib
    BY <2>1, NetParts
  <2>5. Wired(m)
    BY <2>2, <2>3, <2>4 DEF Wired
  <2> QED
    BY <1>4, <2>3, <2>4, <2>5 DEF m
<1> QED
  BY <1>1, <1>2, <1>3, <1>4

\* read_some
LEMMA TakeEffect ==
  ASSUME NEW n \in NetOf(Byte), Wired(n), NEW s \in Sock,
         NEW k \in 1 .. Len(n.inbuf[s])
  PROVE  LET m == Take(n, s, k)
         IN  /\ Wired(m) /\ m.peer = n.peer /\ m.status = n.status
             /\ \A t \in Sock :
                  m.inbuf[t] =
                    IF t = s THEN SubSeq(n.inbuf[s], k + 1, Len(n.inbuf[s]))
                    ELSE n.inbuf[t]
<1> DEFINE rest == SubSeq(n.inbuf[s], k + 1, Len(n.inbuf[s]))
           ib == [n.inbuf EXCEPT ![s] = rest]
           m == Take(n, s, k)
<1>1. n.inbuf \in [Sock -> Seq(Byte)] /\ n.inbuf[s] # <<>>
  <2>1. n.inbuf \in [Sock -> Seq(Byte)]
    BY NetFields
  <2> QED
    BY <2>1
<1>2. m = [n EXCEPT !.status = n.status, !.peer = n.peer, !.inbuf = ib]
  <2>1. m = [n EXCEPT !.inbuf = ib]
    BY Zenon DEF Take
  <2> HIDE DEF ib, m
  <2> QED
    BY <2>1 DEF NetOf
<1> HIDE DEF rest
<1>3. \A t \in Sock : ib[t] = IF t = s THEN rest ELSE n.inbuf[t]
  BY <1>1
<1> HIDE DEF ib, m
<1>4. m.status = n.status /\ m.peer = n.peer /\ m.inbuf = ib
  BY <1>2, NetParts
<1>5. n.status[s] = "open"
  BY <1>1 DEF Wired
<1>6. Wired(m)
  BY <1>3, <1>4, <1>5 DEF Wired
<1> QED
  BY <1>3, <1>4, <1>6 DEF m, rest

\* A fresh connection.
LEMMA LinkEffect ==
  ASSUME NEW n \in NetOf(Byte), NEW s \in Sock, NEW q \in Sock, s # q
  PROVE  LET m == Link(n, s, q)
         IN  \A t \in Sock :
               /\ m.status[t] = IF t \in {s, q} THEN "open" ELSE n.status[t]
               /\ m.peer[t] = IF t = s THEN q ELSE IF t = q THEN s ELSE n.peer[t]
               /\ m.inbuf[t] = IF t \in {s, q} THEN <<>> ELSE n.inbuf[t]
<1> DEFINE st == [n.status EXCEPT ![s] = "open", ![q] = "open"]
           pe == [n.peer EXCEPT ![s] = q, ![q] = s]
           ib == [n.inbuf EXCEPT ![s] = <<>>, ![q] = <<>>]
           m == Link(n, s, q)
<1>1. m = [n EXCEPT !.status = st, !.peer = pe, !.inbuf = ib]
  BY DEF Link, NetOf
<1>2. /\ n.peer \in [Sock -> Sock \cup {None}]
      /\ n.status \in [Sock -> {"closed", "open", "reset"}]
      /\ n.inbuf \in [Sock -> Seq(Byte)]
  BY NetFields
<1>3. \A t \in Sock :
        /\ st[t] = IF t \in {s, q} THEN "open" ELSE n.status[t]
        /\ pe[t] = IF t = s THEN q ELSE IF t = q THEN s ELSE n.peer[t]
        /\ ib[t] = IF t \in {s, q} THEN <<>> ELSE n.inbuf[t]
  BY <1>2
<1> HIDE DEF st, pe, ib, m
<1>4. m.status = st /\ m.peer = pe /\ m.inbuf = ib
  BY <1>1, NetParts
<1> QED
  BY <1>3, <1>4 DEF m

\* connect: k is the network after the close with which it begins.
LEMMA ConnectEffect ==
  ASSUME NEW n \in NetOf(Byte), Wired(n), NEW s, NEW q, NEW port,
         \/ s = "gui" /\ q = "pend5500" /\ port = 5500
         \/ s = "dsp8800" /\ q = "pend8800" /\ port = 8800,
         BacklogFree(n, port)
  PROVE  LET k == Close(n, s)
             m == Connect(n, s, port)
         IN  /\ Wired(k) /\ Shrunk(n, k) /\ Shut(k, s)
             /\ Wired(m) /\ m.peer[s] = q
             /\ m.inbuf[s] = <<>> /\ m.inbuf[q] = <<>>
             /\ \A t \in Sock \ {s, q} : m.peer[t] = k.peer[t]
                  /\ m.inbuf[t] = k.inbuf[t] /\ m.status[t] = k.status[t]
<1> DEFINE k == Close(n, s)
           m == Connect(n, s, port)
<1>1. s \in Sock /\ q \in Sock /\ s # q /\ q = Pending(port)
  BY DEF Sock, Pending
<1>2. k \in NetOf(Byte) /\ Wired(k) /\ Shrunk(n, k) /\ Shut(k, s)
  BY <1>1, CloseShrinks
<1>3. m = Link(k, s, q)
  BY <1>1 DEF Connect
<1> HIDE DEF k, m
<1>4. \A t \in Sock :
        /\ m.status[t] = IF t \in {s, q} THEN "open" ELSE k.status[t]
        /\ m.peer[t] = IF t = s THEN q ELSE IF t = q THEN s ELSE k.peer[t]
        /\ m.inbuf[t] = IF t \in {s, q} THEN <<>> ELSE k.inbuf[t]
  BY <1>1, <1>2, <1>3, LinkEffect
<1>5. k.peer \in [Sock -> Sock \cup {None}] /\ None \notin Sock
  BY <1>2, NetFields DEF None, Sock
<1>6. k.peer[q] = None /\ k.peer[s] = None
  <2>1. n.status[q] = "closed"
    BY <1>1 DEF BacklogFree
  <2>2. k.status[q] = "closed"
    BY <1>1, <1>2, <2>1 DEF Shrunk
  <2> QED
    BY <1>1, <1>2, <2>2 DEF Wired, Shut
<1>7. ASSUME NEW t \in Sock
      PROVE  /\ m.peer[t] # None => m.peer[m.peer[t]] = t /\ m.status[t] = "open"
             /\ m.status[t] # "open" => m.inbuf[t] = <<>>
  <2>1. CASE t \in {s, q}
    BY <1>1, <1>4, <2>1
  <2>2. CASE t \notin {s, q}
    <3>1. /\ m.peer[t] = k.peer[t] /\ m.status[t] = k.status[t]
          /\ m.inbuf[t] = k.inbuf[t]
      BY <1>4, <2>2
    <3>2. ASSUME k.peer[t] # None
          PROVE  /\ k.peer[t] \in Sock \ {s, q}
                 /\ k.peer[k.peer[t]] = t /\ k.status[t] = "open"
      <4>1. k.peer[k.peer[t]] = t /\ k.status[t] = "open" /\ k.peer[t] \in Sock
        BY <1>2, <1>5, <3>2 DEF Wired
      <4> QED
        BY <1>5, <1>6, <4>1
    <3>3. k.status[t] # "open" => k.inbuf[t] = <<>>
      BY <1>2 DEF Wired
    <3> QED
      BY <1>4, <3>1, <3>2, <3>3
  <2> QED
    BY <2>1, <2>2
<1>8. Wired(m)
  <2>1. /\ m.peer["gui"] \in {None, "pend5500", "dsp5500"}
        /\ m.peer["dsp8800"] \in {None, "pend8800", "rev8800"}
        /\ m.peer["pend5500"] \in {None, "gui"}
        /\ m.peer["dsp5500"] \in {None, "gui"}
        /\ m.peer["pend8800"] \in {None, "dsp8800"}
        /\ m.peer["rev8800"] \in {None, "dsp8800"}
    BY <1>2, <1>4 DEF Wired, Sock
  <2> QED
    BY <1>7, <2>1 DEF Wired
<1>9. /\ m.peer[s] = q /\ m.inbuf[s] = <<>> /\ m.inbuf[q] = <<>>
       /\ \A t \in Sock \ {s, q} : m.peer[t] = k.peer[t]
            /\ m.inbuf[t] = k.inbuf[t] /\ m.status[t] = k.status[t]
  BY <1>1, <1>4
<1> QED
  BY <1>2, <1>8, <1>9 DEF k, m

\* accept: the waiting connection of client c moves to s.
LEMMA AcceptEffect ==
  ASSUME NEW n \in NetOf(Byte), Wired(n), NEW s, NEW c, NEW port,
         \/ s = "dsp5500" /\ c = "gui" /\ port = 5500
         \/ s = "rev8800" /\ c = "dsp8800" /\ port = 8800,
         n.status[s] = "closed", CanAccept(n, port)
  PROVE  LET m == Accept(n, s, port)
             q == Pending(port)
         IN  /\ Wired(m) /\ n.peer[c] # s
             /\ m.peer[c] = IF n.peer[c] = q THEN s ELSE n.peer[c]
             /\ m.inbuf[s] = n.inbuf[q] /\ m.inbuf[q] = <<>>
             /\ \A t \in Sock \ {s, q} :
                  m.inbuf[t] = n.inbuf[t] /\ m.status[t] = n.status[t]
             /\ \A t \in Sock \ {s, q, c} : m.peer[t] = n.peer[t]
<1> DEFINE q == Pending(port)
           m == Accept(n, s, port)
           st == [n.status EXCEPT ![s] = "open", ![q] = "closed"]
           pe == [t \in Sock |-> IF t = s THEN n.peer[q]
                                 ELSE IF t = q THEN None
                                 ELSE IF n.peer[t] = q THEN s ELSE n.peer[t]]
           ib == [n.inbuf EXCEPT ![s] = n.inbuf[q], ![q] = <<>>]
<1>1. /\ s \in Sock /\ q \in Sock /\ c \in Sock /\ s # q /\ s # c /\ q # c
      /\ \/ s = "dsp5500" /\ q = "pend5500" /\ c = "gui"
         \/ s = "rev8800" /\ q = "pend8800" /\ c = "dsp8800"
  BY DEF Sock, Pending
<1>2. m = [n EXCEPT !.status = st, !.peer = pe, !.inbuf = ib]
  BY Zenon DEF Accept
<1> HIDE DEF q
<1>3. /\ n.peer \in [Sock -> Sock \cup {None}] /\ None \notin Sock
      /\ n.status \in [Sock -> {"closed", "open", "reset"}]
      /\ n.inbuf \in [Sock -> Seq(Byte)]
  BY NetFields DEF None, Sock
<1>4. \A t \in Sock :
        /\ st[t] = IF t = s THEN "open" ELSE IF t = q THEN "closed" ELSE n.status[t]
        /\ pe[t] = IF t = s THEN n.peer[q] ELSE IF t = q THEN None
                   ELSE IF n.peer[t] = q THEN s ELSE n.peer[t]
        /\ ib[t] = IF t = s THEN n.inbuf[q] ELSE IF t = q THEN <<>>
                   ELSE n.inbuf[t]
  BY <1>1, <1>3
<1> HIDE DEF m, st, pe, ib
<1>5. m.status = st /\ m.peer = pe /\ m.inbuf = ib
  BY <1>2, NetParts
<1>6. n.peer[s] = None /\ n.inbuf[s] = <<>>
  BY <1>1 DEF Wired
<1>7. ASSUME NEW t \in Sock, n.peer[t] = s
      PROVE  FALSE
  <2>1. n.peer[n.peer[t]] = t
    BY <1>1, <1>3, <1>7 DEF Wired
  <2> QED
    BY <1>3, <1>6, <1>7, <2>1
<1>8. /\ n.peer[q] \in {None, c} /\ (n.peer[q] # None <=> n.peer[c] = q)
      /\ \A t \in Sock \ {c} : n.peer[t] # q
  <2>1. n.peer[q] \in {None, c}
    BY <1>1 DEF Wired
  <2>2. \A t \in Sock : n.peer[t] = q => n.peer[q] = t
    BY <1>1, <1>3 DEF Wired
  <2>3. n.peer[q] # None => n.peer[n.peer[q]] = q
    BY <1>1 DEF Wired
  <2> QED
    BY <1>1, <1>3, <2>1, <2>2, <2>3
<1>9. ASSUME NEW t \in Sock
      PROVE  /\ m.peer[t] # None => m.peer[m.peer[t]] = t /\ m.status[t] = "open"
             /\ m.status[t] # "open" => m.inbuf[t] = <<>>
  <2>1. CASE t = s
    BY <1>1, <1>3, <1>4, <1>5, <1>8, <2>1
  <2>2. CASE t = q
    BY <1>1, <1>4, <1>5, <2>2
  <2>3. CASE t \notin {s, q}
    <3>1. /\ m.peer[t] = IF n.peer[t] = q THEN s ELSE n.peer[t]
          /\ m.status[t] = n.status[t] /\ m.inbuf[t] = n.inbuf[t]
      BY <1>4, <1>5, <2>3
    <3>2. n.status[t] # "open" => n.inbuf[t] = <<>>
      BY DEF Wired
    <3>3. n.peer[t] # None => n.peer[n.peer[t]] = t /\ n.status[t] = "open"
      BY DEF Wired
    <3>4. CASE n.peer[t] = q
      BY <1>1, <1>3, <1>4, <1>5, <1>8, <3>1, <3>2, <3>3, <3>4
    <3>5. CASE n.peer[t] # q
      BY <1>3, <1>4, <1>5, <1>7, <3>1, <3>2, <3>3, <3>5
    <3> QED
      BY <3>4, <3>5
  <2> QED
    BY <2>1, <2>2, <2>3
<1>10. \A t \in Sock \ {s, q, c} : m.peer[t] = n.peer[t]
  BY <1>4, <1>5, <1>8
<1>11. Wired(m)
  <2>1. m.peer[s] \in {None, c} /\ m.peer[q] = None /\ m.peer[c] \in {n.peer[c], s}
    BY <1>1, <1>4, <1>5, <1>8
  <2>2. /\ n.peer["gui"] \in {None, "pend5500", "dsp5500"}
        /\ n.peer["dsp8800"] \in {None, "pend8800", "rev8800"}
        /\ n.peer["pend5500"] \in {None, "gui"}
        /\ n.peer["dsp5500"] \in {None, "gui"}
        /\ n.peer["pend8800"] \in {None, "dsp8800"}
        /\ n.peer["rev8800"] \in {None, "dsp8800"}
    BY DEF Wired
  <2>3. /\ m.peer["gui"] \in {None, "pend5500", "dsp5500"}
        /\ m.peer["dsp8800"] \in {None, "pend8800", "rev8800"}
        /\ m.peer["pend5500"] \in {None, "gui"}
        /\ m.peer["dsp5500"] \in {None, "gui"}
        /\ m.peer["pend8800"] \in {None, "dsp8800"}
        /\ m.peer["rev8800"] \in {None, "dsp8800"}
    <3>1. CASE s = "dsp5500" /\ q = "pend5500" /\ c = "gui"
      BY <1>10, <2>1, <2>2, <3>1 DEF Sock
    <3>2. CASE s = "rev8800" /\ q = "pend8800" /\ c = "dsp8800"
      BY <1>10, <2>1, <2>2, <3>2 DEF Sock
    <3> QED
      BY <1>1, <3>1, <3>2
  <2> QED
    BY <1>9, <2>3 DEF Wired
<1>12. /\ m.peer[c] = IF n.peer[c] = q THEN s ELSE n.peer[c]
       /\ m.inbuf[s] = n.inbuf[q] /\ m.inbuf[q] = <<>>
       /\ \A t \in Sock \ {s, q} :
            m.inbuf[t] = n.inbuf[t] /\ m.status[t] = n.status[t]
  BY <1>1, <1>4, <1>5
<1> QED
  BY <1>1, <1>7, <1>10, <1>11, <1>12 DEF m, q
-----------------------------------------------------------------------------
(***************************************************************************)
(* The inductive invariant                                                 *)
(***************************************************************************)
GuiLink(n, g, gs, d, ds) ==
  GuiSession(n.peer["gui"], n.inbuf["gui"], n.inbuf["dsp5500"],
             n.inbuf["pend5500"], g, gs, d, ds)

ReverseLink(n, d, ds, r, rs) ==
  ReverseSession(n.peer["dsp8800"], n.inbuf["dsp8800"], n.inbuf["rev8800"],
                 n.inbuf["pend8800"], d, ds, r, rs)

\* Where a service has not accepted a client yet, or is gone.
DspUp == {"d_bind", "d_accept"} \cup EndLabel
ReverseUp == {"r_bind", "r_accept"} \cup EndLabel

SessionInv ==
  /\ Wired(net)
  /\ pc["dsp"] \in DspUp => net.status["dsp5500"] = "closed"
  /\ pc["rev"] \in ReverseUp => net.status["rev8800"] = "closed"
  /\ GuiLink(net, pc["gui"], stage["gui"], pc["dsp"], stage["dsp"])
  /\ ReverseLink(net, pc["dsp"], stage["dsp"], pc["rev"], stage["rev"])

\* Program p goes to call l in stage st; the others stay.
Moves(p, l, st) ==
  /\ pc'[p] = l /\ stage'[p] = st
  /\ \A q \in Program \ {p} : pc'[q] = pc[q] /\ stage'[q] = stage[q]

\* Nothing happens to the sockets of one connection.
Same5500(n, m) ==
  /\ m.peer["gui"] = n.peer["gui"]
  /\ \A s \in {"gui", "dsp5500", "pend5500"} : m.inbuf[s] = n.inbuf[s]

Same8800(n, m) ==
  /\ m.peer["dsp8800"] = n.peer["dsp8800"]
  /\ \A s \in {"dsp8800", "rev8800", "pend8800"} : m.inbuf[s] = n.inbuf[s]

\* A server's socket that is closed stays closed.
StayClosed(n, m) ==
  \A s \in {"dsp5500", "rev8800"} : n.status[s] = "closed" => m.status[s] = "closed"

LEMMA GuiMoves ==
  ASSUME SessionInv, NEW g, NEW gs, Moves("gui", g, gs),
         Wired(net'), StayClosed(net, net'), Same8800(net, net'),
         GuiLink(net', g, gs, pc["dsp"], stage["dsp"])
  PROVE  SessionInv'
BY DEF SessionInv, Moves, StayClosed, Same8800, GuiLink, ReverseLink, Program, Sock

LEMMA DspMoves ==
  ASSUME SessionInv, NEW d, NEW ds, Moves("dsp", d, ds),
         Wired(net'), StayClosed(net, net'), d \notin DspUp,
         GuiLink(net', pc["gui"], stage["gui"], d, ds),
         ReverseLink(net', d, ds, pc["rev"], stage["rev"])
  PROVE  SessionInv'
BY DEF SessionInv, Moves, StayClosed, GuiLink, ReverseLink, Program, Sock

LEMMA ReverseMoves ==
  ASSUME SessionInv, NEW r, NEW rs, Moves("rev", r, rs),
         Wired(net'), StayClosed(net, net'), r \notin ReverseUp,
         Same5500(net, net'),
         ReverseLink(net', pc["dsp"], stage["dsp"], r, rs)
  PROVE  SessionInv'
BY DEF SessionInv, Moves, StayClosed, Same5500, GuiLink, ReverseLink, Program, Sock

\* The streams hold bytes, and programs are in stages.
LEMMA SessionTypes ==
  ASSUME WaveTechInv
  PROVE  /\ net \in NetOf(Byte)
         /\ \A s \in Sock : net.inbuf[s] \in Seq(Byte)
         /\ pc \in [Program -> Label]
         /\ stage \in [Program -> {"left", "confirm", "right"}]
<1>1. BytesIf(commands.exit) \subseteq Byte
  BY DEF BytesIf
<1>2. net \in NetOf(Byte)
  BY <1>1, NetMore DEF WaveTechInv, SharedInv
<1>3. \A s \in Sock : net.inbuf[s] \in Seq(Byte)
  BY <1>2, NetFields
<1> QED
  BY <1>2, <1>3 DEF WaveTechInv, SharedInv

\* The ways in which the actions move a program.
LEMMA MovesOn ==
  ASSUME WaveTechInv, NEW p \in Program, NEW l
  PROVE  /\ Goto(p, l) /\ stage' = stage => Moves(p, l, stage[p])
         /\ pc' = pc /\ stage' = stage => Moves(p, pc[p], stage[p])
         /\ \A st : /\ Goto(p, l) /\ Advance(p, st) => Moves(p, l, st)
                   /\ pc' = pc /\ Advance(p, st) => Moves(p, pc[p], st)
BY SessionTypes DEF Goto, Advance, Moves

\* Connections that end leave the dialogues as they were.
LEMMA LinksShrink ==
  ASSUME NEW n, NEW m, Wired(n), Wired(m), Shrunk(n, m),
         NEW g, NEW gs, NEW d, NEW ds, NEW r, NEW rs
  PROVE  /\ GuiLink(n, g, gs, d, ds) => GuiLink(m, g, gs, d, ds)
         /\ ReverseLink(n, d, ds, r, rs) => ReverseLink(m, d, ds, r, rs)
         /\ StayClosed(n, m)
<1>1. \A s \in Sock :
        /\ m.peer[s] \in {n.peer[s], None}
        /\ m.inbuf[s] \in {n.inbuf[s], <<>>}
        /\ m.peer[s] # None => m.inbuf[s] = n.inbuf[s]
  BY DEF Shrunk
<1>2. {"gui", "dsp5500", "dsp8800", "rev8800", "pend5500", "pend8800"} \subseteq Sock
  BY DEF Sock
<1>3. ASSUME GuiLink(n, g, gs, d, ds)
      PROVE  GuiLink(m, g, gs, d, ds)
  <2>1. \/ m.peer["gui"] = None
        \/ /\ m.peer["gui"] = n.peer["gui"] /\ m.inbuf["gui"] = n.inbuf["gui"]
           /\ n.peer["gui"] = "pend5500" => m.inbuf["pend5500"] = n.inbuf["pend5500"]
           /\ n.peer["gui"] = "dsp5500" => m.inbuf["dsp5500"] = n.inbuf["dsp5500"]
    <3>1. m.peer["gui"] # None => m.peer[m.peer["gui"]] = "gui"
      BY <1>2 DEF Wired
    <3> QED
      BY <1>1, <1>2, <3>1 DEF None
  <2> QED
    BY <1>1, <1>2, <1>3, <2>1, GuiSessionShrinks DEF GuiLink
<1>4. ASSUME ReverseLink(n, d, ds, r, rs)
      PROVE  ReverseLink(m, d, ds, r, rs)
  <2>1. \/ m.peer["dsp8800"] = None
        \/ /\ m.peer["dsp8800"] = n.peer["dsp8800"]
           /\ m.inbuf["dsp8800"] = n.inbuf["dsp8800"]
           /\ n.peer["dsp8800"] = "pend8800" => m.inbuf["pend8800"] = n.inbuf["pend8800"]
           /\ n.peer["dsp8800"] = "rev8800" => m.inbuf["rev8800"] = n.inbuf["rev8800"]
    <3>1. m.peer["dsp8800"] # None => m.peer[m.peer["dsp8800"]] = "dsp8800"
      BY <1>2 DEF Wired
    <3> QED
      BY <1>1, <1>2, <3>1 DEF None
  <2> QED
    BY <1>1, <1>2, <1>4, <2>1, ReverseSessionShrinks DEF ReverseLink
<1>5. StayClosed(n, m)
  BY DEF Shrunk, StayClosed, Sock
<1> QED
  BY <1>3, <1>4, <1>5

\* A program ends, or starts its loop over.
LEMMA SessionEnds ==
  ASSUME WaveTechInv, SessionInv, NEW p \in Program, NEW l, EndWith(p, l)
  PROVE  SessionInv'
<1>1. net' = CloseAll(net, p) /\ Moves(p, l, stage[p])
  BY MovesOn DEF EndWith
<1>2. /\ Wired(net') /\ Shrunk(net, net')
      /\ \A s \in SocketsOf(p) : Shut(net', s)
  BY <1>1, SessionTypes, CloseAllShrinks DEF SessionInv
<1>3. /\ GuiLink(net', pc["gui"], stage["gui"], pc["dsp"], stage["dsp"])
      /\ ReverseLink(net', pc["dsp"], stage["dsp"], pc["rev"], stage["rev"])
      /\ StayClosed(net, net')
  BY <1>2, LinksShrink DEF SessionInv
<1>4. CASE p = "gui"
  <2>1. Shut(net', "gui")
    BY <1>2, <1>4 DEF SocketsOf
  <2>2. GuiLink(net', l, stage["gui"], pc["dsp"], stage["dsp"])
    BY <1>3, <2>1, GuiSessionGuiFree DEF GuiLink, Shut
  <2>3. /\ pc'["gui"] = l /\ pc'["dsp"] = pc["dsp"] /\ pc'["rev"] = pc["rev"]
        /\ \A q \in Program : stage'[q] = stage[q]
    BY <1>1, <1>4 DEF Moves, Program
  <2> QED
    BY <1>2, <1>3, <2>2, <2>3 DEF SessionInv, StayClosed, Sock, Program, GuiLink, ReverseLink
<1>5. CASE p = "dsp"
  <2>1. Shut(net', "dsp5500") /\ Shut(net', "dsp8800")
    BY <1>2, <1>5 DEF SocketsOf
  <2>2. net'.peer["gui"] # "dsp5500"
    BY <1>2, <2>1 DEF Shut, Wired, None, Sock
  <2>3. GuiLink(net', pc["gui"], stage["gui"], l, stage["dsp"])
    BY <1>3, <2>1, <2>2, GuiSessionDspFree DEF GuiLink, Shut
  <2>4. ReverseLink(net', l, stage["dsp"], pc["rev"], stage["rev"])
    BY <1>3, <2>1, ReverseSessionDspFree DEF ReverseLink, Shut
  <2>5. /\ pc'["dsp"] = l /\ pc'["gui"] = pc["gui"] /\ pc'["rev"] = pc["rev"]
        /\ \A q \in Program : stage'[q] = stage[q]
    BY <1>1, <1>5 DEF Moves, Program
  <2> QED
    BY <1>2, <1>3, <2>1, <2>3, <2>4, <2>5
       DEF SessionInv, StayClosed, Sock, Program, GuiLink, ReverseLink, Shut
<1>6. CASE p = "rev"
  <2>1. Shut(net', "rev8800")
    BY <1>2, <1>6 DEF SocketsOf
  <2>2. net'.peer["dsp8800"] # "rev8800"
    BY <1>2, <2>1 DEF Shut, Wired, None, Sock
  <2>3. ReverseLink(net', pc["dsp"], stage["dsp"], l, stage["rev"])
    BY <1>3, <2>1, <2>2, ReverseSessionReverseFree DEF ReverseLink, Shut
  <2>4. /\ pc'["rev"] = l /\ pc'["gui"] = pc["gui"] /\ pc'["dsp"] = pc["dsp"]
        /\ \A q \in Program : stage'[q] = stage[q]
    BY <1>1, <1>6 DEF Moves, Program
  <2> QED
    BY <1>2, <1>3, <2>1, <2>3, <2>4
       DEF SessionInv, StayClosed, Sock, Program, GuiLink, ReverseLink, Shut
<1> QED
  BY <1>4, <1>5, <1>6 DEF Program

\* A write on each of the four sockets.
LEMMA Wrote ==
  ASSUME NEW n \in NetOf(Byte), Wired(n), NEW s \in Sock, NEW b
  PROVE  LET m == Write(n, s, b)
         IN  /\ Wired(m) /\ StayClosed(n, m)
             /\ m.peer["gui"] = n.peer["gui"] /\ m.peer["dsp8800"] = n.peer["dsp8800"]
             /\ s = "gui" =>
                  /\ Same8800(n, m)
                  /\ GuiWrites(n.peer["gui"], n.inbuf["gui"], n.inbuf["dsp5500"],
                               n.inbuf["pend5500"], b, m.inbuf["gui"],
                               m.inbuf["dsp5500"], m.inbuf["pend5500"])
             /\ s = "dsp5500" =>
                  /\ Same8800(n, m) /\ m.inbuf["pend5500"] = n.inbuf["pend5500"]
                  /\ DspWrites(n.peer["gui"], n.inbuf["gui"], n.inbuf["dsp5500"], b,
                               m.inbuf["gui"], m.inbuf["dsp5500"])
             /\ s = "dsp8800" =>
                  /\ Same5500(n, m)
                  /\ ClientWrites(n.peer["dsp8800"], n.inbuf["dsp8800"],
                                  n.inbuf["rev8800"], n.inbuf["pend8800"], b,
                                  m.inbuf["dsp8800"], m.inbuf["rev8800"],
                                  m.inbuf["pend8800"])
             /\ s = "rev8800" =>
                  /\ Same5500(n, m) /\ m.inbuf["pend8800"] = n.inbuf["pend8800"]
                  /\ ReverseWrites(n.peer["dsp8800"], n.inbuf["dsp8800"],
                                   n.inbuf["rev8800"], b,
                                   m.inbuf["dsp8800"], m.inbuf["rev8800"])
<1> DEFINE m == Write(n, s, b)
<1>1. /\ Wired(m) /\ m.peer = n.peer
      /\ \A t \in Sock :
           m.inbuf[t] = IF t = n.peer[s] THEN n.inbuf[t] \o b
                        ELSE IF t = s /\ n.peer[s] = None THEN <<>>
                        ELSE n.inbuf[t]
      /\ \A t \in Sock : n.status[t] = "closed" => m.status[t] = "closed"
  BY WriteEffect
<1> HIDE DEF m
<1>2. /\ "gui" \in Sock /\ "dsp5500" \in Sock /\ "dsp8800" \in Sock
      /\ "rev8800" \in Sock /\ "pend5500" \in Sock /\ "pend8800" \in Sock
  BY DEF Sock
<1>3. /\ n.peer["gui"] \in {None, "pend5500", "dsp5500"}
      /\ n.peer["dsp8800"] \in {None, "pend8800", "rev8800"}
      /\ n.peer["dsp5500"] \in {None, "gui"}
      /\ n.peer["rev8800"] \in {None, "dsp8800"}
      /\ n.peer["gui"] = "dsp5500" <=> n.peer["dsp5500"] = "gui"
      /\ n.peer["dsp8800"] = "rev8800" <=> n.peer["rev8800"] = "dsp8800"
  BY <1>2 DEF Wired, None
<1>4. StayClosed(n, m)
  BY <1>1 DEF StayClosed, Sock
<1>5. CASE s = "gui"
  BY <1>1, <1>2, <1>3, <1>4, <1>5 DEF m, Same8800, GuiWrites, None
<1>6. CASE s = "dsp5500"
  BY <1>1, <1>2, <1>3, <1>4, <1>6 DEF m, Same8800, DspWrites, None
<1>7. CASE s = "dsp8800"
  BY <1>1, <1>2, <1>3, <1>4, <1>7 DEF m, Same5500, ClientWrites, None
<1>8. CASE s = "rev8800"
  BY <1>1, <1>2, <1>3, <1>4, <1>8 DEF m, Same5500, ReverseWrites, None
<1> QED
  BY <1>1, <1>4, <1>5, <1>6, <1>7, <1>8 DEF m

\* A read.
LEMMA Took ==
  ASSUME NEW n \in NetOf(Byte), Wired(n), NEW s \in Sock,
         NEW k \in 1 .. Len(n.inbuf[s])
  PROVE  LET m == Take(n, s, k)
         IN  /\ Wired(m) /\ StayClosed(n, m) /\ m.peer = n.peer
             /\ m.inbuf[s] = SubSeq(n.inbuf[s], k + 1, Len(n.inbuf[s]))
             /\ \A t \in Sock \ {s} : m.inbuf[t] = n.inbuf[t]
             /\ s \in {"gui", "dsp5500"} => Same8800(n, m)
             /\ s \in {"dsp8800", "rev8800"} => Same5500(n, m)
<1> DEFINE m == Take(n, s, k)
           rest == SubSeq(n.inbuf[s], k + 1, Len(n.inbuf[s]))
<1>1. /\ Wired(m) /\ m.peer = n.peer /\ m.status = n.status
      /\ \A t \in Sock : m.inbuf[t] = IF t = s THEN rest ELSE n.inbuf[t]
  BY TakeEffect
<1> HIDE DEF m, rest
<1> QED
  BY <1>1 DEF m, rest, StayClosed, Same8800, Same5500, Sock

-----------------------------------------------------------------------------
(***************************************************************************)
(* The steps of the connections                                            *)
(***************************************************************************)

\* An acceptor comes.
LEMMA BindInStep ==
  ASSUME WaveTechInv, SessionInv, NEW p \in Program, Bind(p)
  PROVE  SessionInv'
<1>1. pc[p] \in LabelsOf(p) /\ stage' = stage /\ net \in NetOf(Byte)
  BY SessionTypes DEF WaveTechInv, ProgramInv, Bind
<1>2. CASE pc[p] = "d_bind"
  <2>1. /\ p = "dsp" /\ Goto(p, "d_accept") /\ net' = Listen(net, 5500)
    BY <1>1, <1>2 DEF Bind, LabelsOf, GuiLabel, ReverseLabel, EndLabel, Program
  <2>2. Moves("dsp", "d_accept", stage["dsp"])
    BY <1>1, <2>1, MovesOn
  <2>3. Wired(net') /\ Shrunk(net, net')
    BY <1>1, <2>1, ListenSockets DEF SessionInv, Port
  <2>4. /\ GuiLink(net', pc["gui"], stage["gui"], pc["dsp"], stage["dsp"])
        /\ ReverseLink(net', pc["dsp"], stage["dsp"], pc["rev"], stage["rev"])
        /\ StayClosed(net, net')
    BY <2>3, LinksShrink DEF SessionInv
  <2>5. net.status["dsp5500"] = "closed"
    BY <1>2, <2>1 DEF SessionInv, DspUp
  <2>6. Shut(net', "dsp5500") /\ net'.peer["gui"] # "dsp5500"
    <3>1. net'.status["dsp5500"] = "closed"
      BY <2>4, <2>5 DEF StayClosed, Sock
    <3> QED
      BY <2>3, <3>1 DEF Wired, Shut, Sock, None
  <2>7. GuiLink(net', pc["gui"], stage["gui"], "d_accept", stage["dsp"])
    BY <2>4, <2>6, GuiSessionDspFree DEF GuiLink, Shut
  <2>8. net'.peer["dsp8800"] = None /\ net'.inbuf["dsp8800"] = <<>>
    BY <1>2, <2>1, <2>4
       DEF ReverseLink, ReverseSession, ReversePhase, ClientFinds, DspAway
  <2>9. ReverseLink(net', "d_accept", stage["dsp"], pc["rev"], stage["rev"])
    BY <2>4, <2>8, ReverseSessionDspFree DEF ReverseLink
  <2> QED
    BY <2>2, <2>3, <2>4, <2>6, <2>7, <2>9
       DEF SessionInv, Moves, Program, Shut, StayClosed, Sock, GuiLink, ReverseLink
<1>3. CASE pc[p] = "r_bind"
  <2>1. /\ p = "rev" /\ Goto(p, "r_accept") /\ net' = Listen(net, 8800)
    BY <1>1, <1>3 DEF Bind, LabelsOf, GuiLabel, DspLabel, EndLabel, Program
  <2>2. Moves("rev", "r_accept", stage["rev"])
    BY <1>1, <2>1, MovesOn
  <2>3. Wired(net') /\ Shrunk(net, net')
    BY <1>1, <2>1, ListenSockets DEF SessionInv, Port
  <2>4. /\ GuiLink(net', pc["gui"], stage["gui"], pc["dsp"], stage["dsp"])
        /\ ReverseLink(net', pc["dsp"], stage["dsp"], pc["rev"], stage["rev"])
        /\ StayClosed(net, net')
    BY <2>3, LinksShrink DEF SessionInv
  <2>5. net.status["rev8800"] = "closed"
    BY <1>3, <2>1 DEF SessionInv, ReverseUp
  <2>6. Shut(net', "rev8800") /\ net'.peer["dsp8800"] # "rev8800"
    <3>1. net'.status["rev8800"] = "closed"
      BY <2>4, <2>5 DEF StayClosed, Sock
    <3> QED
      BY <2>3, <3>1 DEF Wired, Shut, Sock, None
  <2>7. ReverseLink(net', pc["dsp"], stage["dsp"], "r_accept", stage["rev"])
    BY <2>4, <2>6, ReverseSessionReverseFree DEF ReverseLink, Shut
  <2> QED
    BY <2>2, <2>3, <2>4, <2>6, <2>7
       DEF SessionInv, Moves, Program, Shut, StayClosed, Sock, GuiLink, ReverseLink
<1> QED
  BY <1>2, <1>3 DEF Bind

\* A client is accepted.
LEMMA AcceptInStep ==
  ASSUME WaveTechInv, SessionInv, NEW p \in Program, AcceptClient(p)
  PROVE  SessionInv'
<1>1. pc[p] \in LabelsOf(p) /\ stage' = stage /\ net \in NetOf(Byte)
  BY SessionTypes DEF WaveTechInv, ProgramInv, AcceptClient
<1>2. Pending(5500) = "pend5500" /\ Pending(8800) = "pend8800"
  BY DEF Pending
<1>3. CASE pc[p] = "d_accept"
  <2>1. /\ p = "dsp" /\ Goto(p, "d_loop") /\ CanAccept(net, 5500)
        /\ net' = Accept(net, "dsp5500", 5500)
    BY <1>1, <1>3 DEF AcceptClient, LabelsOf, GuiLabel, ReverseLabel, EndLabel, Program
  <2>2. Moves("dsp", "d_loop", stage["dsp"])
    BY <1>1, <2>1, MovesOn
  <2>3. net.status["dsp5500"] = "closed"
    BY <1>3, <2>1 DEF SessionInv, DspUp
  <2>4. /\ Wired(net') /\ net.peer["gui"] # "dsp5500"
        /\ net'.peer["gui"] = IF net.peer["gui"] = "pend5500" THEN "dsp5500"
                              ELSE net.peer["gui"]
        /\ net'.inbuf["dsp5500"] = net.inbuf["pend5500"]
        /\ net'.inbuf["pend5500"] = <<>>
        /\ \A t \in Sock \ {"dsp5500", "pend5500"} :
             net'.inbuf[t] = net.inbuf[t] /\ net'.status[t] = net.status[t]
        /\ \A t \in Sock \ {"dsp5500", "pend5500", "gui"} :
             net'.peer[t] = net.peer[t]
    BY <1>1, <1>2, <2>1, <2>3, AcceptEffect DEF SessionInv
  <2>5. GuiLink(net', pc["gui"], stage["gui"], "d_loop", stage["dsp"])
    <3>1. GuiLink(net, pc["gui"], stage["gui"], pc["dsp"], stage["dsp"])
      BY DEF SessionInv
    <3>2. net'.inbuf["gui"] = net.inbuf["gui"]
      BY <2>4 DEF Sock
    <3> QED
      BY <2>4, <3>1, <3>2, GuiSessionAccepted DEF GuiLink
  <2>6. ReverseLink(net', "d_loop", stage["dsp"], pc["rev"], stage["rev"])
    <3>1. ReverseLink(net, pc["dsp"], stage["dsp"], pc["rev"], stage["rev"])
      BY DEF SessionInv
    <3>2. net.peer["dsp8800"] = None /\ net.inbuf["dsp8800"] = <<>>
      BY <1>3, <2>1, <3>1
         DEF ReverseLink, ReverseSession, ReversePhase, ClientFinds, DspAway
    <3>3. /\ net'.peer["dsp8800"] = None /\ net'.inbuf["dsp8800"] = <<>>
          /\ net'.inbuf["rev8800"] = net.inbuf["rev8800"]
          /\ net'.inbuf["pend8800"] = net.inbuf["pend8800"]
      BY <2>4, <3>2 DEF Sock
    <3> QED
      BY <3>1, <3>2, <3>3, ReverseSessionDspFree DEF ReverseLink
  <2>7. net'.status["rev8800"] = net.status["rev8800"]
    BY <2>4 DEF Sock
  <2> QED
    BY <2>2, <2>4, <2>5, <2>6, <2>7
       DEF SessionInv, Moves, Program, DspUp, EndLabel, GuiLink, ReverseLink
<1>4. CASE pc[p] = "r_accept"
  <2>1. /\ p = "rev" /\ Goto(p, "r_recv") /\ CanAccept(net, 8800)
        /\ net' = Accept(net, "rev8800", 8800)
    BY <1>1, <1>4 DEF AcceptClient, LabelsOf, GuiLabel, DspLabel, EndLabel, Program
  <2>2. Moves("rev", "r_recv", stage["rev"])
    BY <1>1, <2>1, MovesOn
  <2>3. net.status["rev8800"] = "closed"
    BY <1>4, <2>1 DEF SessionInv, ReverseUp
  <2>4. /\ Wired(net') /\ net.peer["dsp8800"] # "rev8800"
        /\ net'.peer["dsp8800"] = IF net.peer["dsp8800"] = "pend8800" THEN "rev8800"
                                  ELSE net.peer["dsp8800"]
        /\ net'.inbuf["rev8800"] = net.inbuf["pend8800"]
        /\ net'.inbuf["pend8800"] = <<>>
        /\ \A t \in Sock \ {"rev8800", "pend8800"} :
             net'.inbuf[t] = net.inbuf[t] /\ net'.status[t] = net.status[t]
        /\ \A t \in Sock \ {"rev8800", "pend8800", "dsp8800"} :
             net'.peer[t] = net.peer[t]
    BY <1>1, <1>2, <2>1, <2>3, AcceptEffect DEF SessionInv
  <2>5. ReverseLink(net', pc["dsp"], stage["dsp"], "r_recv", stage["rev"])
    <3>1. ReverseLink(net, pc["dsp"], stage["dsp"], pc["rev"], stage["rev"])
      BY DEF SessionInv
    <3>2. net'.inbuf["dsp8800"] = net.inbuf["dsp8800"]
      BY <2>4 DEF Sock
    <3> QED
      BY <2>4, <3>1, <3>2, ReverseSessionAccepted DEF ReverseLink
  <2>6. Same5500(net, net') /\ net'.status["dsp5500"] = net.status["dsp5500"]
    BY <2>4 DEF Sock, Same5500
  <2> QED
    BY <2>2, <2>4, <2>5, <2>6
       DEF SessionInv, Moves, Program, ReverseUp, EndLabel, GuiLink, ReverseLink,
           Same5500
<1> QED
  BY <1>3, <1>4 DEF AcceptClient

\* The dsp connects to the reverse service.
LEMMA ConnectInStep ==
  ASSUME WaveTechInv, SessionInv, NEW p \in Program, ConnectReverse(p)
  PROVE  SessionInv'
<1> DEFINE l == IF pc[p] = "d_connect" THEN "d_run" ELSE "d_stop"
           k == Close(net, "dsp8800")
<1>1. /\ pc[p] \in LabelsOf(p) /\ pc[p] \in {"d_connect", "d_xconnect"}
      /\ BacklogFree(net, 8800) /\ net \in NetOf(Byte)
  BY SessionTypes DEF WaveTechInv, ProgramInv, ConnectReverse
<1>2. p = "dsp"
  BY <1>1 DEF LabelsOf, GuiLabel, ReverseLabel, EndLabel, Program
<1>3. CASE ~net.listening[8800]
  BY <1>3, SessionEnds DEF ConnectReverse
<1>4. CASE net.listening[8800]
  <2>1. net' = Connect(net, "dsp8800", 8800) /\ Goto(p, l) /\ stage' = stage
    BY <1>4 DEF ConnectReverse
  <2>2. /\ l \in {"d_run", "d_stop"}
        /\ \/ pc[p] \in DspWork /\ l \in DspWork
           \/ pc[p] \in DspIdle /\ l \in DspIdle
    BY <1>1 DEF DspWork, DspIdle
  <2> HIDE DEF l
  <2>3. Moves("dsp", l, stage["dsp"])
    BY <1>2, <2>1, MovesOn
  <2>4. /\ Wired(k) /\ Shrunk(net, k) /\ Shut(k, "dsp8800")
        /\ Wired(net') /\ net'.peer["dsp8800"] = "pend8800"
        /\ net'.inbuf["dsp8800"] = <<>> /\ net'.inbuf["pend8800"] = <<>>
        /\ \A t \in Sock \ {"dsp8800", "pend8800"} : net'.peer[t] = k.peer[t]
             /\ net'.inbuf[t] = k.inbuf[t] /\ net'.status[t] = k.status[t]
    BY <1>1, <2>1, ConnectEffect DEF SessionInv
  <2> HIDE DEF k
  <2>5. /\ GuiLink(k, pc["gui"], stage["gui"], pc["dsp"], stage["dsp"])
        /\ ReverseLink(k, pc["dsp"], stage["dsp"], pc["rev"], stage["rev"])
        /\ StayClosed(net, k)
    BY <2>4, LinksShrink DEF SessionInv
  <2>6. /\ Same5500(k, net') /\ net'.inbuf["rev8800"] = k.inbuf["rev8800"]
        /\ StayClosed(net, net')
    BY <2>4, <2>5 DEF Same5500, StayClosed, Sock
  <2>7. GuiLink(net', pc["gui"], stage["gui"], l, stage["dsp"])
    <3>1. GuiLink(k, pc["gui"], stage["gui"], l, stage["dsp"])
      BY <1>2, <2>2, <2>5, GuiSessionDspElsewhere DEF GuiLink
    <3> QED
      BY <2>6, <3>1 DEF GuiLink, Same5500
  <2>8. ReverseLink(net', l, stage["dsp"], pc["rev"], stage["rev"])
    BY <2>2, <2>4, <2>5, <2>6, ReverseSessionConnects DEF ReverseLink, Shut
  <2>9. l \notin DspUp
    BY <2>2 DEF DspUp, EndLabel
  <2> QED
    BY <2>3, <2>4, <2>6, <2>7, <2>8, <2>9, DspMoves
<1> QED
  BY <1>3, <1>4

\* The gui connects.
LEMMA StartInStep ==
  ASSUME WaveTechInv, SessionInv, StartGui
  PROVE  SessionInv'
<1> DEFINE k == Close(net, "gui")
<1>1. /\ "gui" \in Program /\ BacklogFree(net, 5500) /\ net \in NetOf(Byte)
  BY SessionTypes DEF Program, StartGui
<1>2. CASE ~net.listening[5500]
  BY <1>1, <1>2, SessionEnds DEF StartGui
<1>3. CASE net.listening[5500]
  <2>1. net' = Connect(net, "gui", 5500) /\ Goto("gui", "menu") /\ stage' = stage
    BY <1>3 DEF StartGui
  <2>2. Moves("gui", "menu", stage["gui"])
    BY <1>1, <2>1, MovesOn
  <2>3. /\ Wired(k) /\ Shrunk(net, k) /\ Shut(k, "gui")
        /\ Wired(net') /\ net'.peer["gui"] = "pend5500"
        /\ net'.inbuf["gui"] = <<>> /\ net'.inbuf["pend5500"] = <<>>
        /\ \A t \in Sock \ {"gui", "pend5500"} : net'.peer[t] = k.peer[t]
             /\ net'.inbuf[t] = k.inbuf[t] /\ net'.status[t] = k.status[t]
    BY <1>1, <2>1, ConnectEffect DEF SessionInv
  <2> HIDE DEF k
  <2>4. /\ GuiLink(k, pc["gui"], stage["gui"], pc["dsp"], stage["dsp"])
        /\ ReverseLink(k, pc["dsp"], stage["dsp"], pc["rev"], stage["rev"])
        /\ StayClosed(net, k)
    BY <2>3, LinksShrink DEF SessionInv
  <2>5. /\ Same8800(k, net') /\ net'.inbuf["dsp5500"] = k.inbuf["dsp5500"]
        /\ StayClosed(net, net')
    BY <2>3, <2>4 DEF Same8800, StayClosed, Sock
  <2>6. GuiLink(net', "menu", stage["gui"], pc["dsp"], stage["dsp"])
    BY <2>3, <2>4, <2>5, GuiSessionConnects DEF GuiLink, Shut
  <2>7. ReverseLink(net', pc["dsp"], stage["dsp"], pc["rev"], stage["rev"])
    BY <2>4, <2>5 DEF ReverseLink, Same8800
  <2> QED
    BY <2>2, <2>3, <2>5, <2>6, <2>7
       DEF SessionInv, Moves, Program, StayClosed, GuiLink, ReverseLink
<1> QED
  BY <1>2, <1>3

\* disconnect, and the end of the pipe.
LEMMA DisconnectInStep ==
  ASSUME WaveTechInv, SessionInv, NEW p \in Program, Disconnect(p) \/ DropPipe(p)
  PROVE  SessionInv'
<1>1. (\E l : EndWith(p, l)) \/
        /\ pc[p] = "r_disc" /\ Goto(p, "r_drop") /\ stage' = stage
        /\ net' = Close(net, IF p = "dsp" THEN "dsp5500" ELSE "rev8800")
  BY Zenon DEF Disconnect, DropPipe
<1>2. CASE \E l : EndWith(p, l)
  BY <1>2, SessionEnds
<1>3. CASE /\ pc[p] = "r_disc" /\ Goto(p, "r_drop") /\ stage' = stage
           /\ net' = Close(net, IF p = "dsp" THEN "dsp5500" ELSE "rev8800")
  <2>1. p = "rev" /\ net' = Close(net, "rev8800") /\ net \in NetOf(Byte)
    BY <1>3, SessionTypes
       DEF WaveTechInv, ProgramInv, LabelsOf, GuiLabel, DspLabel, EndLabel, Program
  <2>2. Moves("rev", "r_drop", stage["rev"])
    BY <1>3, <2>1, MovesOn
  <2>3. Wired(net') /\ Shrunk(net, net') /\ Shut(net', "rev8800")
    BY <2>1, CloseShrinks DEF SessionInv, Sock
  <2>4. /\ GuiLink(net', pc["gui"], stage["gui"], pc["dsp"], stage["dsp"])
        /\ ReverseLink(net', pc["dsp"], stage["dsp"], pc["rev"], stage["rev"])
        /\ StayClosed(net, net')
    BY <2>3, LinksShrink DEF SessionInv
  <2>5. net'.peer["dsp8800"] # "rev8800"
    BY <2>3 DEF Shut, Wired, None, Sock
  <2>6. ReverseLink(net', pc["dsp"], stage["dsp"], "r_drop", stage["rev"])
    BY <2>3, <2>4, <2>5, ReverseSessionReverseFree DEF ReverseLink, Shut
  <2> QED
    BY <2>2, <2>3, <2>4, <2>6
       DEF SessionInv, Moves, Program, StayClosed, GuiLink, ReverseLink, Shut
<1> QED
  BY <1>1, <1>2, <1>3

\* The steps that touch no socket.
LEMMA QuietInStep ==
  ASSUME WaveTechInv, SessionInv, NEW p \in Program,
         ReverseAudio(p) \/ SetAudioBuffer(p) \/ Quit(p) \/ SendAborts(p) \/ Die(p)
  PROVE  SessionInv'
<1>1. CASE \E l : EndWith(p, l)
  BY <1>1, SessionEnds
<1>2. Wired(net) /\ Same5500(net, net) /\ Same8800(net, net) /\ StayClosed(net, net)
  BY DEF SessionInv, Same5500, Same8800, StayClosed
<1>3. CASE ReverseAudio(p)
  <2>1. /\ pc[p] = "r_reverse" /\ Goto(p, "r_done") /\ stage' = stage /\ net' = net
        /\ pc[p] \in LabelsOf(p)
    BY <1>3 DEF ReverseAudio, WaveTechInv, ProgramInv
  <2>2. p = "rev"
    BY <2>1 DEF LabelsOf, GuiLabel, DspLabel, EndLabel, Program
  <2>3. Moves("rev", "r_done", stage["rev"])
    BY <2>1, <2>2, MovesOn
  <2>4. ReverseLink(net, pc["dsp"], stage["dsp"], "r_done", stage["rev"])
    BY <2>1, <2>2, ReverseReverses DEF SessionInv, ReverseLink
  <2> QED
    BY <1>2, <2>1, <2>3, <2>4, ReverseMoves DEF ReverseUp, EndLabel
<1>4. CASE SetAudioBuffer(p) /\ ~\E l : EndWith(p, l)
  <2>1. /\ pc[p] = "g_set" /\ Goto(p, "menu") /\ stage' = stage /\ net' = net
        /\ pc[p] \in LabelsOf(p)
    BY <1>4 DEF SetAudioBuffer, WaveTechInv, ProgramInv
  <2>2. p = "gui"
    BY <2>1 DEF LabelsOf, ReverseLabel, DspLabel, EndLabel, Program
  <2>3. Moves("gui", "menu", stage["gui"])
    BY <2>1, <2>2, MovesOn
  <2>4. GuiLink(net, "menu", stage["gui"], pc["dsp"], stage["dsp"])
    <3>1. pc["gui"] \in GuiIdle /\ "menu" \in GuiIdle
      BY <2>1, <2>2 DEF GuiIdle
    <3> QED
      BY <3>1, GuiSessionGuiElsewhere DEF SessionInv, GuiLink
  <2> QED
    BY <1>2, <2>1, <2>3, <2>4, GuiMoves
<1> QED
  BY <1>1, <1>3, <1>4 DEF Quit, SendAborts, Die

\* A menu choice.
LEMMA UserInStep ==
  ASSUME WaveTechInv, SessionInv, User
  PROVE  SessionInv'
<1>1. Wired(net) /\ Same8800(net, net) /\ StayClosed(net, net)
  BY DEF SessionInv, Same8800, StayClosed
<1>2. "gui" \in Program /\ pc["gui"] = "menu" /\ stage' = stage /\ net' = net
  BY DEF User, Program
<1>3. PICK l \in GuiIdle : Moves("gui", l, stage["gui"])
  <2>1. CASE pc' = pc
    BY <1>2, <2>1, MovesOn DEF GuiIdle
  <2>2. ASSUME NEW cmd \in Command \ {"load"}, Choose(cmd)
        PROVE  \E l \in GuiIdle : Moves("gui", l, stage["gui"])
    <3> DEFINE l == CASE cmd = "reverse" -> "g_reverse"
                      [] cmd = "stretch" -> "g_stretch"
                      [] cmd = "shift"   -> "g_shift"
                      [] cmd = "exit"    -> "g_exit"
    <3>1. l \in GuiIdle
      <4>1. cmd \in {"reverse", "stretch", "shift", "exit"}
        BY DEF Command
      <4>2. CASE cmd = "reverse"
        BY <4>2, Zenon DEF GuiIdle
      <4>3. CASE cmd = "stretch"
        BY <4>3, Zenon DEF GuiIdle
      <4>4. CASE cmd = "shift"
        BY <4>4, Zenon DEF GuiIdle
      <4>5. CASE cmd = "exit"
        BY <4>5, Zenon DEF GuiIdle
      <4> HIDE DEF l
      <4> QED
        BY <4>1, <4>2, <4>3, <4>4, <4>5
    <3>2. Goto("gui", l)
      BY <2>2, Zenon DEF Choose
    <3> HIDE DEF l
    <3> QED
      BY <1>2, <3>1, <3>2, MovesOn
  <2> QED
    BY <2>1, <2>2 DEF User, Load
<1>4. GuiLink(net, l, stage["gui"], pc["dsp"], stage["dsp"])
  <2>1. pc["gui"] \in GuiIdle
    BY <1>2 DEF GuiIdle
  <2> QED
    BY <2>1, GuiSessionGuiElsewhere DEF SessionInv, GuiLink
<1> QED
  BY <1>1, <1>2, <1>3, <1>4, GuiMoves

\* A program starts again.
LEMMA RestartInStep ==
  ASSUME WaveTechInv, SessionInv, NEW p \in Program, Restart(p)
  PROVE  SessionInv'
<1>1. /\ pc[p] \in EndLabel /\ Goto(p, Entry[p]) /\ Advance(p, "left")
      /\ net' = net
  BY DEF Restart, EndLabel
<1>2. Moves(p, Entry[p], "left")
  BY <1>1, SessionTypes DEF Goto, Advance, Moves
<1>3. Wired(net) /\ Same5500(net, net) /\ Same8800(net, net) /\ StayClosed(net, net)
  BY DEF SessionInv, Same5500, Same8800, StayClosed
<1>4. CASE p = "gui"
  <2>1. Moves("gui", "g_connect", "left")
    BY <1>2, <1>4 DEF Entry
  <2>2. net.peer["gui"] = None /\ net.inbuf["gui"] = <<>>
    BY <1>1, <1>4
       DEF SessionInv, GuiLink, GuiSession, GuiFinds, GuiPhase, GuiIdle, EndLabel
  <2>3. GuiLink(net, "g_connect", "left", pc["dsp"], stage["dsp"])
    BY <2>2, GuiSessionGuiFree DEF SessionInv, GuiLink
  <2> QED
    BY <1>1, <1>3, <2>1, <2>3, GuiMoves
<1>5. CASE p = "dsp"
  <2>1. Moves("dsp", "d_bind", "left")
    BY <1>2, <1>5 DEF Entry
  <2>2. net.status["dsp5500"] = "closed"
    BY <1>1, <1>5 DEF SessionInv, DspUp
  <2>3. net.peer["gui"] # "dsp5500" /\ net.inbuf["dsp5500"] = <<>>
    BY <2>2 DEF SessionInv, Wired, Sock, None
  <2>4. GuiLink(net, pc["gui"], stage["gui"], "d_bind", "left")
    BY <2>3, GuiSessionDspFree DEF SessionInv, GuiLink
  <2>5. net.peer["dsp8800"] = None /\ net.inbuf["dsp8800"] = <<>>
    BY <1>1, <1>5
       DEF SessionInv, ReverseLink, ReverseSession, ReversePhase, ClientFinds,
           DspAway, EndLabel
  <2>6. ReverseLink(net, "d_bind", "left", pc["rev"], stage["rev"])
    BY <2>5, ReverseSessionDspFree DEF SessionInv, ReverseLink
  <2> QED
    BY <1>1, <2>1, <2>2, <2>4, <2>6
       DEF SessionInv, Moves, Program, GuiLink, ReverseLink
<1>6. CASE p = "rev"
  <2>1. Moves("rev", "r_bind", "left")
    BY <1>2, <1>6 DEF Entry
  <2>2. net.status["rev8800"] = "closed"
    BY <1>1, <1>6 DEF SessionInv, ReverseUp
  <2>3. net.peer["dsp8800"] # "rev8800" /\ net.inbuf["rev8800"] = <<>>
    BY <2>2 DEF SessionInv, Wired, Sock, None
  <2>4. ReverseLink(net, pc["dsp"], stage["dsp"], "r_bind", "left")
    BY <2>3, ReverseSessionReverseFree DEF SessionInv, ReverseLink
  <2> QED
    BY <1>1, <2>1, <2>2, <2>4
       DEF SessionInv, Moves, Program, GuiLink, ReverseLink
<1> QED
  BY <1>4, <1>5, <1>6 DEF Program

-----------------------------------------------------------------------------
(***************************************************************************)
(* The steps of the dialogues                                              *)
(***************************************************************************)

\* The calls of send_message.
LEMMA SendTable ==
  ASSUME WaveTechInv, NEW p \in Program, In(p, "send_message")
  PROVE  /\ stage[p] = "left"
         /\ \/ /\ p = "gui" /\ Site(p).sock = "gui" /\ pc[p] \in GuiIdle
               /\ Site(p).text \in Message
               /\ IF Site(p).text = "reverse" THEN Site(p).next = "g_ready"
                  ELSE Site(p).next \in GuiIdle
            \/ /\ p = "dsp" /\ Site(p) = Send("dsp5500", "ready", "d_rxgui")
               /\ pc[p] = "d_ready"
            \/ /\ p = "dsp" /\ Site(p) = Send("dsp8800", "run", "d_started")
               /\ pc[p] = "d_run"
            \/ /\ p = "dsp" /\ Site(p) = Send("dsp8800", "exit", "d_disc")
               /\ pc[p] = "d_stop"
            \/ /\ p = "dsp" /\ Site(p) = Send("dsp8800", "ready", "d_rxrev")
               /\ pc[p] = "d_fetch"
            \/ /\ p = "rev" /\ Site(p) = Send("rev8800", "ready", "r_rx")
               /\ pc[p] = "r_ready"
            \/ /\ p = "rev" /\ Site(p) = Send("rev8800", "done", "r_fetch")
               /\ pc[p] = "r_done"
<1>1. pc[p] \in DOMAIN GuiCalls \cup DOMAIN DspCalls \cup DOMAIN ReverseCalls
  BY DEF In, Calls
<1>2. pc[p] \in LabelsOf(p)
  BY DEF WaveTechInv, ProgramInv
<1>3. stage[p] = "left"
  BY <1>2, SendSites DEF WaveTechInv, ProgramInv
<1>4. CASE p = "gui"
  <2>1. pc[p] \in {"g_exit", "g_stretch", "g_shift", "g_reverse", "g_ready",
                   "g_tx", "g_rx"}
    BY <1>1, <1>2, <1>4, Domains DEF LabelsOf, GuiLabel, EndLabel
  <2> QED
    BY <1>3, <1>4, <2>1, GuiSites
       DEF In, Site, Send, Recv, SendAudio, RecvAudio, Message, GuiIdle
<1>5. CASE p = "dsp"
  <2>1. pc[p] \in {"d_loop", "d_ready", "d_rxgui", "d_run", "d_started", "d_txrev",
                   "d_done", "d_fetch", "d_rxrev", "d_txgui", "d_stop"}
    BY <1>1, <1>2, <1>5, Domains DEF LabelsOf, DspLabel, EndLabel
  <2>2. pc[p] \in {"d_ready", "d_run", "d_fetch", "d_stop"}
    BY <2>1, DspSites DEF In, Site, Recv, SendAudio, RecvAudio
  <2> QED
    BY <1>3, <1>5, <2>2, DspSites DEF Site
<1>6. CASE p = "rev"
  <2>1. pc[p] \in {"r_recv", "r_ready", "r_rx", "r_done", "r_fetch", "r_tx"}
    BY <1>1, <1>2, <1>6, Domains DEF LabelsOf, ReverseLabel, EndLabel
  <2>2. pc[p] \in {"r_ready", "r_done"}
    BY <2>1, ReverseSites DEF In, Site, Recv, SendAudio, RecvAudio
  <2> QED
    BY <1>3, <1>6, <2>2, ReverseSites DEF Site
<1> QED
  BY <1>4, <1>5, <1>6 DEF Program

\* send_message
LEMMA SendMessageInStep ==
  ASSUME WaveTechInv, SessionInv, NEW p \in Program, SendMessage(p)
  PROVE  SessionInv'
<1> DEFINE s == Site(p).sock
           b == TextBytes(Site(p).text)
<1>1. CASE WriteFails(net, s)
  BY <1>1, SessionEnds DEF SendMessage
<1>2. CASE ~WriteFails(net, s)
  <2>1. /\ net' = Write(net, s, b) /\ Goto(p, Site(p).next) /\ stage' = stage
        /\ In(p, "send_message")
    BY <1>2 DEF SendMessage
  <2>2. Moves(p, Site(p).next, "left") /\ stage[p] = "left"
    BY <2>1, SendTable, MovesOn
  <2>3. Wired(net) /\ net \in NetOf(Byte) /\ \A t \in Sock : net.inbuf[t] \in Seq(Byte)
    BY SessionTypes DEF SessionInv
  <2>4. /\ GuiLink(net, pc["gui"], stage["gui"], pc["dsp"], stage["dsp"])
        /\ ReverseLink(net, pc["dsp"], stage["dsp"], pc["rev"], stage["rev"])
    BY DEF SessionInv
  <2>5. /\ "gui" \in Sock /\ "dsp5500" \in Sock /\ "dsp8800" \in Sock
        /\ "rev8800" \in Sock /\ "pend5500" \in Sock /\ "pend8800" \in Sock
    BY DEF Sock
  <2>6. CASE /\ p = "gui" /\ s = "gui" /\ pc[p] \in GuiIdle
             /\ Site(p).text \in Message
             /\ IF Site(p).text = "reverse" THEN Site(p).next = "g_ready"
                ELSE Site(p).next \in GuiIdle
    <3>1. /\ Wired(net') /\ StayClosed(net, net') /\ Same8800(net, net')
          /\ net'.peer["gui"] = net.peer["gui"]
          /\ GuiWrites(net.peer["gui"], net.inbuf["gui"], net.inbuf["dsp5500"],
                       net.inbuf["pend5500"], b, net'.inbuf["gui"],
                       net'.inbuf["dsp5500"], net'.inbuf["pend5500"])
      BY <2>1, <2>3, <2>5, <2>6, Wrote
    <3>2. GuiLink(net', Site(p).next, "left", pc["dsp"], stage["dsp"])
      BY <2>3, <2>4, <2>5, <2>6, <3>1, GuiCommands DEF GuiLink
    <3> QED
      BY <2>2, <2>6, <3>1, <3>2, GuiMoves
  <2>7. CASE p = "dsp" /\ pc[p] = "d_ready" /\ Site(p) = Send("dsp5500", "ready", "d_rxgui")
    <3>1. s = "dsp5500" /\ b = TextBytes("ready") /\ Site(p).next = "d_rxgui"
      BY <2>7 DEF Send
    <3> HIDE DEF s, b
    <3>2. /\ Wired(net') /\ StayClosed(net, net') /\ Same8800(net, net')
          /\ net'.peer["gui"] = net.peer["gui"]
          /\ net'.inbuf["pend5500"] = net.inbuf["pend5500"]
          /\ DspWrites(net.peer["gui"], net.inbuf["gui"], net.inbuf["dsp5500"], b,
                       net'.inbuf["gui"], net'.inbuf["dsp5500"])
      BY <2>1, <2>3, <2>5, <3>1, Wrote
    <3>3. GuiLink(net', pc["gui"], stage["gui"], "d_rxgui", "left")
      BY <2>4, <2>7, <3>1, <3>2, DspAnswers DEF GuiLink
    <3>4. ReverseLink(net', "d_rxgui", "left", pc["rev"], stage["rev"])
      <4>1. pc["dsp"] \in DspAway \ {"d_disc"} /\ "d_rxgui" \in DspAway
        BY <2>7 DEF DspAway
      <4>2. ReverseLink(net, "d_rxgui", "left", pc["rev"], stage["rev"])
        BY <2>4, <4>1, ReverseSessionDspElsewhere DEF ReverseLink
      <4> QED
        BY <3>2, <4>2 DEF ReverseLink, Same8800
    <3>5. "d_rxgui" \notin DspUp
      BY DEF DspUp, EndLabel
    <3> QED
      BY <2>2, <2>7, <3>1, <3>2, <3>3, <3>4, <3>5, DspMoves
  <2>8. ASSUME NEW m \in Message, NEW l, p = "dsp", Site(p) = Send("dsp8800", m, l),
               \/ pc[p] = "d_run" /\ m = "run" /\ l = "d_started"
               \/ pc[p] = "d_stop" /\ m = "exit" /\ l = "d_disc"
               \/ pc[p] = "d_fetch" /\ m = "ready" /\ l = "d_rxrev"
        PROVE  SessionInv'
    <3>1. s = "dsp8800" /\ b = TextBytes(m) /\ Site(p).next = l
      BY <2>8 DEF Send
    <3> HIDE DEF s, b
    <3>2. /\ Wired(net') /\ StayClosed(net, net') /\ Same5500(net, net')
          /\ net'.peer["dsp8800"] = net.peer["dsp8800"]
          /\ ClientWrites(net.peer["dsp8800"], net.inbuf["dsp8800"],
                          net.inbuf["rev8800"], net.inbuf["pend8800"], b,
                          net'.inbuf["dsp8800"], net'.inbuf["rev8800"],
                          net'.inbuf["pend8800"])
      BY <2>1, <2>3, <2>5, <3>1, Wrote
    <3>3. ReverseLink(net', l, "left", pc["rev"], stage["rev"])
      <4>1. CASE pc[p] = "d_fetch" /\ m = "ready" /\ l = "d_rxrev"
        BY <2>4, <2>8, <3>1, <3>2, <4>1, ClientFetches DEF ReverseLink
      <4>2. CASE \/ pc[p] = "d_run" /\ m = "run" /\ l = "d_started"
                 \/ pc[p] = "d_stop" /\ m = "exit" /\ l = "d_disc"
        BY <2>4, <2>8, <3>1, <3>2, <4>2, ClientOrders DEF ReverseLink
      <4> QED
        BY <2>8, <4>1, <4>2
    <3>4. GuiLink(net', pc["gui"], stage["gui"], l, "left")
      <4>1. \/ pc["dsp"] \in DspWork /\ l \in DspWork
            \/ pc["dsp"] \in DspIdle /\ l \in DspIdle
        BY <2>8 DEF DspWork, DspIdle
      <4>2. GuiLink(net, pc["gui"], stage["gui"], l, "left")
        BY <2>4, <4>1, GuiSessionDspElsewhere DEF GuiLink
      <4> QED
        BY <3>2, <4>2 DEF GuiLink, Same5500
    <3>5. l \notin DspUp
      BY <2>8 DEF DspUp, EndLabel
    <3> QED
      BY <2>2, <2>8, <3>1, <3>2, <3>3, <3>4, <3>5, DspMoves
  <2>9. ASSUME NEW m \in Message, NEW l, p = "rev", Site(p) = Send("rev8800", m, l),
               \/ pc[p] = "r_ready" /\ m = "ready" /\ l = "r_rx"
               \/ pc[p] = "r_done" /\ m = "done" /\ l = "r_fetch"
        PROVE  SessionInv'
    <3>1. s = "rev8800" /\ b = TextBytes(m) /\ Site(p).next = l
      BY <2>9 DEF Send
    <3> HIDE DEF s, b
    <3>2. /\ Wired(net') /\ StayClosed(net, net') /\ Same5500(net, net')
          /\ net'.peer["dsp8800"] = net.peer["dsp8800"]
          /\ net'.inbuf["pend8800"] = net.inbuf["pend8800"]
          /\ ReverseWrites(net.peer["dsp8800"], net.inbuf["dsp8800"],
                           net.inbuf["rev8800"], b,
                           net'.inbuf["dsp8800"], net'.inbuf["rev8800"])
      BY <2>1, <2>3, <2>5, <3>1, Wrote
    <3>3. ReverseLink(net', pc["dsp"], stage["dsp"], l, "left")
      BY <2>4, <2>9, <3>1, <3>2, ReverseAnswers DEF ReverseLink
    <3>4. l \notin ReverseUp
      BY <2>9 DEF ReverseUp, EndLabel
    <3> QED
      BY <2>2, <2>9, <3>1, <3>2, <3>3, <3>4, ReverseMoves
  <2>10. "run" \in Message /\ "exit" \in Message /\ "ready" \in Message /\ "done" \in Message
    BY DEF Message
  <2> QED
    BY <2>1, <2>6, <2>7, <2>8, <2>9, <2>10, SendTable
<1> QED
  BY <1>1, <1>2

\* The calls of recv_message.
LEMMA RecvTable ==
  ASSUME WaveTechInv, NEW p \in Program, In(p, "recv_message")
  PROVE  /\ stage[p] = "left"
         /\ \/ p = "gui" /\ pc[p] = "g_ready" /\ Site(p).sock = "gui"
            \/ p = "dsp" /\ pc[p] = "d_loop" /\ Site(p).sock = "dsp5500"
            \/ p = "dsp" /\ pc[p] = "d_started" /\ Site(p).sock = "dsp8800"
            \/ p = "dsp" /\ pc[p] = "d_done" /\ Site(p).sock = "dsp8800"
            \/ p = "rev" /\ pc[p] = "r_recv" /\ Site(p).sock = "rev8800"
            \/ p = "rev" /\ pc[p] = "r_fetch" /\ Site(p).sock = "rev8800"
<1>1. pc[p] \in LabelsOf(p)
  BY DEF WaveTechInv, ProgramInv
<1>2. \/ p = "gui" /\ pc[p] = "g_ready"
      \/ p = "dsp" /\ pc[p] \in {"d_loop", "d_started", "d_done"}
      \/ p = "rev" /\ pc[p] \in {"r_recv", "r_fetch"}
  BY <1>1, RecvSites
<1>3. stage[p] = "left"
  <2>1. pc[p] \notin SendAudioLabel \cup RecvAudioLabel \cup EndLabel
    BY <1>2 DEF SendAudioLabel, RecvAudioLabel, EndLabel
  <2> QED
    BY <2>1 DEF WaveTechInv, ProgramInv
<1> QED
  BY <1>2, <1>3, GuiSites, DspSites, ReverseSites DEF Site, Recv

\* The comparisons that follow them.
LEMMA AfterTexts ==
  ASSUME NEW text
  PROVE  /\ AfterText("g_ready", text) = "g_tx"
         /\ AfterText("d_loop", text) = DspCommand(text)
         /\ AfterText("d_started", text) = DspStarted(text)
         /\ AfterText("d_done", text) = "d_fetch"
         /\ AfterText("r_recv", text) = ReverseCommand(text)
         /\ AfterText("r_fetch", text) = ReverseFetch(text)
<1>1. AfterText("g_ready", text) = "g_tx"
  BY Zenon DEF AfterText
<1>2. AfterText("d_loop", text) = DspCommand(text)
  BY Zenon DEF AfterText
<1>3. AfterText("d_started", text) = DspStarted(text)
  BY Zenon DEF AfterText
<1>4. AfterText("d_done", text) = "d_fetch"
  BY Zenon DEF AfterText
<1>5. AfterText("r_recv", text) = ReverseCommand(text)
  BY Zenon DEF AfterText
<1>6. AfterText("r_fetch", text) = ReverseFetch(text)
  BY Zenon DEF AfterText
<1> QED
  BY <1>1, <1>2, <1>3, <1>4, <1>5, <1>6

\* What a read does to the sockets.
LEMMA Reads ==
  ASSUME WaveTechInv, SessionInv, NEW s \in Sock, NEW cap \in Nat \ {0},
         NEW n \in ReadSizes(Len(net.inbuf[s]), cap), net' = Take(net, s, n)
  PROVE  /\ net.inbuf[s] \in Seq(Byte) /\ net.inbuf[s] # <<>>
         /\ n \in 1 .. Len(net.inbuf[s])
         /\ Wired(net') /\ StayClosed(net, net')
         /\ net'.peer = net.peer
         /\ net'.inbuf[s] = SubSeq(net.inbuf[s], n + 1, Len(net.inbuf[s]))
         /\ \A t \in Sock \ {s} : net'.inbuf[t] = net.inbuf[t]
         /\ s \in {"gui", "dsp5500"} => Same8800(net, net')
         /\ s \in {"dsp8800", "rev8800"} => Same5500(net, net')
<1>1. net \in NetOf(Byte) /\ net.inbuf[s] \in Seq(Byte) /\ Wired(net)
  BY SessionTypes DEF SessionInv
<1>2. n \in 1 .. Len(net.inbuf[s])
  BY <1>1, ReadSize
<1>3. net.inbuf[s] # <<>>
  BY <1>2
<1> QED
  BY <1>1, <1>2, <1>3, Took

\* recv_message
LEMMA RecvMessageInStep ==
  ASSUME WholeReads, WaveTechInv, SessionInv, NEW p \in Program, RecvMessage(p)
  PROVE  SessionInv'
<1> DEFINE s == Site(p).sock
<1>1. In(p, "recv_message")
  BY DEF RecvMessage
<1>2. CASE EndWith(p, "crashed")
  BY <1>2, SessionEnds
<1>3. ASSUME NEW n \in ReadSizes(Len(net.inbuf[s]), RECV_CAP),
             Goto(p, AfterText(pc[p], SubSeq(net.inbuf[s], 1, n))),
             net' = Take(net, s, n), stage' = stage
      PROVE  SessionInv'
  <2> DEFINE text == SubSeq(net.inbuf[s], 1, n)
             e == AfterText(pc[p], text)
  <2>1. stage[p] = "left" /\ s \in Sock /\ RECV_CAP \in Nat \ {0}
    BY <1>1, RecvTable, StreamAssumption DEF Sock
  <2>2. Moves(p, e, "left")
    <3>1. Goto(p, e)
      BY <1>3
    <3> HIDE DEF e
    <3> QED
      BY <1>3, <2>1, <3>1, MovesOn
  <2>3. /\ net.inbuf[s] \in Seq(Byte) /\ net.inbuf[s] # <<>>
        /\ n \in 1 .. Len(net.inbuf[s])
        /\ Wired(net') /\ StayClosed(net, net')
        /\ net'.peer = net.peer
        /\ net'.inbuf[s] = SubSeq(net.inbuf[s], n + 1, Len(net.inbuf[s]))
        /\ \A t \in Sock \ {s} : net'.inbuf[t] = net.inbuf[t]
        /\ s \in {"gui", "dsp5500"} => Same8800(net, net')
        /\ s \in {"dsp8800", "rev8800"} => Same5500(net, net')
    BY <1>3, <2>1, Reads
  <2>4. /\ GuiLink(net, pc["gui"], stage["gui"], pc["dsp"], stage["dsp"])
        /\ ReverseLink(net, pc["dsp"], stage["dsp"], pc["rev"], stage["rev"])
    BY DEF SessionInv
  <2>5. /\ "gui" \in Sock /\ "dsp5500" \in Sock /\ "dsp8800" \in Sock
        /\ "rev8800" \in Sock /\ "pend5500" \in Sock /\ "pend8800" \in Sock
    BY DEF Sock
  <2>6. ASSUME NEW m \in Message, net.inbuf[s] = TextBytes(m)
        PROVE  text = TextBytes(m) /\ net'.inbuf[s] = <<>>
    BY <1>3, <2>3, <2>6, ReadText
  <2>7. "ready" \in Message /\ "done" \in Message /\ "run" \in Message /\ "exit" \in Message
    BY DEF Message
  <2> HIDE DEF text
  <2>8. CASE p = "gui" /\ pc[p] = "g_ready" /\ s = "gui"
    <3>1. e = "g_tx"
      BY <2>8, AfterTexts
    <3>2. /\ net.inbuf["gui"] = TextBytes("ready")
          /\ GuiSession(net.peer["gui"], <<>>, net.inbuf["dsp5500"],
                        net.inbuf["pend5500"], "g_tx", "left",
                        pc["dsp"], stage["dsp"])
      BY <2>3, <2>4, <2>8, GuiAnswered DEF GuiLink
    <3>3. net'.inbuf["gui"] = <<>>
      BY <2>6, <2>7, <2>8, <3>2
    <3>4. GuiLink(net', "g_tx", "left", pc["dsp"], stage["dsp"])
      BY <2>3, <2>5, <2>8, <3>2, <3>3 DEF GuiLink
    <3> HIDE DEF e
    <3> QED
      BY <2>2, <2>3, <2>8, <3>1, <3>4, GuiMoves
  <2>9. CASE p = "dsp" /\ pc[p] = "d_loop" /\ s = "dsp5500"
    <3>1. e = DspCommand(text)
      BY <2>9, AfterTexts
    <3>2. /\ IF text = TextBytes("reverse") THEN e = "d_ready" ELSE e \in DspIdle
          /\ e \in {"d_ready", "d_xconnect", "d_loop"}
      BY <3>1 DEF DspCommand, DspIdle
    <3> HIDE DEF e
    <3>3. GuiLink(net', pc["gui"], stage["gui"], e, "left")
      <4>1. GuiSession(net.peer["gui"], net.inbuf["gui"],
                       SubSeq(net.inbuf["dsp5500"], n + 1, Len(net.inbuf["dsp5500"])),
                       net.inbuf["pend5500"], pc["gui"], stage["gui"], e, "left")
        BY <2>3, <2>4, <2>9, <3>2, DspHears DEF GuiLink, text
      <4> QED
        BY <2>3, <2>5, <2>9, <4>1 DEF GuiLink
    <3>4. ReverseLink(net', e, "left", pc["rev"], stage["rev"])
      <4>1. pc["dsp"] \in DspAway \ {"d_disc"} /\ e \in DspAway
        BY <2>9, <3>2 DEF DspAway
      <4>2. ReverseLink(net, e, "left", pc["rev"], stage["rev"])
        BY <2>4, <4>1, ReverseSessionDspElsewhere DEF ReverseLink
      <4> QED
        BY <2>3, <2>9, <4>2 DEF ReverseLink, Same8800
    <3>5. e \notin DspUp
      BY <3>2 DEF DspUp, EndLabel
    <3> QED
      BY <2>2, <2>3, <2>9, <3>3, <3>4, <3>5, DspMoves
  <2>10. ASSUME p = "dsp", s = "dsp8800", NEW l \in DspWork, e = l,
                pc[p] \in DspWork, net'.inbuf["dsp8800"] = <<>>,
                ReverseSession(net.peer["dsp8800"], <<>>, net.inbuf["rev8800"],
                               net.inbuf["pend8800"], l, "left",
                               pc["rev"], stage["rev"])
         PROVE  SessionInv'
    <3>1. ReverseLink(net', l, "left", pc["rev"], stage["rev"])
      BY <2>3, <2>5, <2>10 DEF ReverseLink
    <3>2. GuiLink(net, pc["gui"], stage["gui"], l, "left")
      BY <2>4, <2>10, GuiSessionDspElsewhere DEF GuiLink
    <3>3. GuiLink(net', pc["gui"], stage["gui"], l, "left")
      BY <2>3, <2>10, <3>2 DEF GuiLink, Same5500
    <3>4. l \notin DspUp
      BY DEF DspUp, EndLabel, DspWork
    <3> HIDE DEF e
    <3> QED
      BY <2>2, <2>3, <2>10, <3>1, <3>3, <3>4, DspMoves
  <2>11. CASE p = "dsp" /\ pc[p] = "d_started" /\ s = "dsp8800"
    <3>1. /\ net.inbuf["dsp8800"] = TextBytes("ready")
          /\ ReverseSession(net.peer["dsp8800"], <<>>, net.inbuf["rev8800"],
                            net.inbuf["pend8800"], "d_txrev", "left",
                            pc["rev"], stage["rev"])
      BY <2>3, <2>4, <2>11, ClientStarted DEF ReverseLink
    <3>2. text = TextBytes("ready") /\ net'.inbuf["dsp8800"] = <<>>
      BY <2>6, <2>7, <2>11, <3>1
    <3>3. e = "d_txrev"
      BY <2>11, <3>2, AfterTexts DEF DspStarted
    <3>4. pc[p] \in DspWork /\ "d_txrev" \in DspWork
      BY <2>11 DEF DspWork
    <3> HIDE DEF e
    <3> QED
      BY <2>10, <2>11, <3>1, <3>2, <3>3, <3>4
  <2>12. CASE p = "dsp" /\ pc[p] = "d_done" /\ s = "dsp8800"
    <3>1. /\ net.inbuf["dsp8800"] = TextBytes("done")
          /\ ReverseSession(net.peer["dsp8800"], <<>>, net.inbuf["rev8800"],
                            net.inbuf["pend8800"], "d_fetch", "left",
                            pc["rev"], stage["rev"])
      BY <2>3, <2>4, <2>12, ClientDone DEF ReverseLink
    <3>2. net'.inbuf["dsp8800"] = <<>>
      BY <2>6, <2>7, <2>12, <3>1
    <3>3. e = "d_fetch"
      BY <2>12, AfterTexts
    <3>4. pc[p] \in DspWork /\ "d_fetch" \in DspWork
      BY <2>12 DEF DspWork
    <3> HIDE DEF e
    <3> QED
      BY <2>10, <2>12, <3>1, <3>2, <3>3, <3>4
  <2>13. ASSUME p = "rev", s = "rev8800", NEW l, e = l, l \notin ReverseUp,
                net'.inbuf["rev8800"] = <<>>,
                ReverseSession(net.peer["dsp8800"], net.inbuf["dsp8800"], <<>>,
                               net.inbuf["pend8800"], pc["dsp"], stage["dsp"],
                               l, "left")
         PROVE  SessionInv'
    <3>1. ReverseLink(net', pc["dsp"], stage["dsp"], l, "left")
      BY <2>3, <2>5, <2>13 DEF ReverseLink
    <3> HIDE DEF e
    <3> QED
      BY <2>2, <2>3, <2>13, <3>1, ReverseMoves
  <2>14. CASE p = "rev" /\ pc[p] = "r_recv" /\ s = "rev8800"
    <3> DEFINE in == net.inbuf["rev8800"]
               l  == IF in = TextBytes("run") THEN "r_ready" ELSE "r_xdisc"
    <3>1. /\ in \in Order
          /\ ReverseSession(net.peer["dsp8800"], net.inbuf["dsp8800"], <<>>,
                            net.inbuf["pend8800"], pc["dsp"], stage["dsp"],
                            l, "left")
      <4>1. l = IF net.inbuf["rev8800"] = TextBytes("run")
                THEN "r_ready" ELSE "r_xdisc"
        OBVIOUS
      <4>2. /\ ReverseSession(net.peer["dsp8800"], net.inbuf["dsp8800"],
                              net.inbuf["rev8800"], net.inbuf["pend8800"],
                              pc["dsp"], stage["dsp"], "r_recv", stage["rev"])
            /\ net.inbuf["rev8800"] # <<>>
        BY <2>3, <2>4, <2>14 DEF ReverseLink
      <4> HIDE DEF l
      <4> QED
        BY <4>1, <4>2, ReverseHears
    <3>2. text = in /\ net'.inbuf["rev8800"] = <<>>
      BY <2>6, <2>7, <2>14, <3>1 DEF Order
    <3>3. ReverseCommand(in) = l
      BY <2>7, <3>1, TextsDiffer DEF ReverseCommand, Order
    <3>4. e = l
      BY <2>14, <3>2, <3>3, AfterTexts
    <3>5. l \notin ReverseUp
      BY DEF ReverseUp, EndLabel
    <3> HIDE DEF e, l
    <3> QED
      BY <2>13, <2>14, <3>1, <3>2, <3>4, <3>5
  <2>15. CASE p = "rev" /\ pc[p] = "r_fetch" /\ s = "rev8800"
    <3>1. /\ net.inbuf["rev8800"] = TextBytes("ready")
          /\ ReverseSession(net.peer["dsp8800"], net.inbuf["dsp8800"], <<>>,
                            net.inbuf["pend8800"], pc["dsp"], stage["dsp"],
                            "r_tx", "left")
      BY <2>3, <2>4, <2>15, ReverseFetched DEF ReverseLink
    <3>2. text = TextBytes("ready") /\ net'.inbuf["rev8800"] = <<>>
      BY <2>6, <2>7, <2>15, <3>1
    <3>3. e = "r_tx"
      BY <2>15, <3>2, AfterTexts DEF ReverseFetch
    <3>4. "r_tx" \notin ReverseUp
      BY DEF ReverseUp, EndLabel
    <3> HIDE DEF e
    <3> QED
      BY <2>13, <2>15, <3>1, <3>2, <3>3, <3>4
  <2> QED
    BY <1>1, <2>8, <2>9, <2>11, <2>12, <2>14, <2>15, RecvTable
<1> QED
  BY <1>2, <1>3 DEF RecvMessage

\* The dsp does something with the gui, or with the service.
LEMMA DspWithGui ==
  ASSUME SessionInv, NEW l \in DspAway, NEW st, Moves("dsp", l, st),
         pc["dsp"] \in DspAway \ {"d_disc"},
         Wired(net'), StayClosed(net, net'), Same8800(net, net'),
         GuiLink(net', pc["gui"], stage["gui"], l, st)
  PROVE  SessionInv'
<1>1. ReverseLink(net, l, st, pc["rev"], stage["rev"])
  BY ReverseSessionDspElsewhere DEF SessionInv, ReverseLink
<1>2. ReverseLink(net', l, st, pc["rev"], stage["rev"])
  BY <1>1 DEF ReverseLink, Same8800
<1>3. l \notin DspUp
  BY DEF DspUp, DspAway, EndLabel
<1> QED
  BY <1>2, <1>3, DspMoves

LEMMA DspWithReverse ==
  ASSUME SessionInv, NEW l, NEW st, Moves("dsp", l, st),
         pc["dsp"] \in DspWork,
         l \in DspWork \/ (l = "d_txgui" /\ st = "left"),
         Wired(net'), StayClosed(net, net'), Same5500(net, net'),
         ReverseLink(net', l, st, pc["rev"], stage["rev"])
  PROVE  SessionInv'
<1>1. GuiLink(net, pc["gui"], stage["gui"], l, st)
  BY GuiSessionDspElsewhere DEF SessionInv, GuiLink
<1>2. GuiLink(net', pc["gui"], stage["gui"], l, st)
  BY <1>1 DEF GuiLink, Same5500
<1>3. l \notin DspUp
  BY DEF DspUp, DspWork, EndLabel
<1> QED
  BY <1>2, <1>3, DspMoves

\* The calls of send_audio.
LEMMA SendAudioTable ==
  ASSUME WaveTechInv, NEW p \in Program, In(p, "send_audio")
  PROVE  \/ p = "gui" /\ pc[p] = "g_tx" /\ Site(p).sock = "gui" /\ Site(p).next = "g_rx"
         \/ p = "dsp" /\ pc[p] = "d_txrev" /\ Site(p).sock = "dsp8800" /\ Site(p).next = "d_done"
         \/ p = "dsp" /\ pc[p] = "d_txgui" /\ Site(p).sock = "dsp5500" /\ Site(p).next = "d_loop"
         \/ p = "rev" /\ pc[p] = "r_tx" /\ Site(p).sock = "rev8800" /\ Site(p).next = "r_disc"
<1>1. pc[p] \in LabelsOf(p)
  BY DEF WaveTechInv, ProgramInv
<1>2. pc[p] \in SendAudioLabel
  BY <1>1, SendAudioSites
<1>3. \/ p = "gui" /\ pc[p] = "g_tx"
      \/ p = "dsp" /\ pc[p] \in {"d_txrev", "d_txgui"}
      \/ p = "rev" /\ pc[p] = "r_tx"
  BY <1>1, <1>2
     DEF Program, LabelsOf, GuiLabel, DspLabel, ReverseLabel, EndLabel, SendAudioLabel
<1> QED
  BY <1>3, GuiSites, DspSites, ReverseSites DEF Site, SendAudio

\* The calls of recv_audio.
LEMMA RecvAudioTable ==
  ASSUME WaveTechInv, NEW p \in Program, In(p, "recv_audio")
  PROVE  \/ p = "gui" /\ pc[p] = "g_rx" /\ Site(p).sock = "gui" /\ Site(p).next = "g_set"
         \/ p = "dsp" /\ pc[p] = "d_rxgui" /\ Site(p).sock = "dsp5500" /\ Site(p).next = "d_connect"
         \/ p = "dsp" /\ pc[p] = "d_rxrev" /\ Site(p).sock = "dsp8800" /\ Site(p).next = "d_txgui"
         \/ p = "rev" /\ pc[p] = "r_rx" /\ Site(p).sock = "rev8800" /\ Site(p).next = "r_reverse"
<1>1. pc[p] \in LabelsOf(p)
  BY DEF WaveTechInv, ProgramInv
<1>2. pc[p] \in RecvAudioLabel
  BY <1>1, RecvAudioSites
<1>3. \/ p = "gui" /\ pc[p] = "g_rx"
      \/ p = "dsp" /\ pc[p] \in {"d_rxgui", "d_rxrev"}
      \/ p = "rev" /\ pc[p] = "r_rx"
  BY <1>1, <1>2
     DEF Program, LabelsOf, GuiLabel, DspLabel, ReverseLabel, EndLabel, RecvAudioLabel
<1> QED
  BY <1>3, GuiSites, DspSites, ReverseSites DEF Site, RecvAudio

\* Where the loops of send_audio and recv_audio go next; more says whether the
\* channel goes on.
LEMMA LoopMoves ==
  ASSUME WaveTechInv, NEW p \in Program, NEW more \in BOOLEAN,
         stage[p] \in {"left", "right"},
         IF more THEN UNCHANGED <<pc, stage>>
         ELSE IF stage[p] = "left" THEN Advance(p, "confirm") /\ UNCHANGED pc
         ELSE Advance(p, "left") /\ Goto(p, Site(p).next)
  PROVE  \E l, st :
           /\ Moves(p, l, st)
           /\ IF more THEN l = pc[p] /\ st = stage[p]
              ELSE IF stage[p] = "left" THEN l = pc[p] /\ st = "confirm"
              ELSE l = Site(p).next /\ st = "left"
<1>1. CASE more
  <2>1. Moves(p, pc[p], stage[p])
    BY <1>1, SessionTypes DEF Moves
  <2> QED
    BY <1>1, <2>1
<1>2. CASE ~more /\ stage[p] = "left"
  <2>1. Moves(p, pc[p], "confirm")
    BY <1>2, SessionTypes DEF Advance, Moves
  <2> QED
    BY <1>2, <2>1
<1>3. CASE ~more /\ stage[p] = "right"
  <2>1. Moves(p, Site(p).next, "left")
    BY <1>3, SessionTypes DEF Goto, Advance, Moves
  <2> QED
    BY <1>3, <2>1
<1> QED
  BY <1>1, <1>2, <1>3

\* One chunk of send_audio.
LEMMA SendChunkInStep ==
  ASSUME WaveTechInv, SessionInv, NEW p \in Program, SendChunk(p)
  PROVE  SessionInv'
<1> DEFINE s    == Site(p).sock
           ch   == Outgoing(p)[ChannelOf(p)]
           idx  == buffer_idx[p]
           c    == Chunk(ch, idx)
           more == ~LastChunk(ch, idx)
<1>1. /\ In(p, "send_audio") /\ stage[p] \in {"left", "right"}
      /\ pc[p] \in LabelsOf(p)
  BY SessionTypes DEF SendChunk, WaveTechInv, ProgramInv
<1>2. /\ net' = IF c = <<>> THEN net ELSE Write(net, s, AudioBytes(c))
      /\ IF more THEN UNCHANGED <<pc, stage>>
         ELSE IF stage[p] = "left" THEN Advance(p, "confirm") /\ UNCHANGED pc
         ELSE Advance(p, "left") /\ Goto(p, Site(p).next)
  BY DEF SendChunk
<1>3. /\ idx \in Nat /\ ch \in Seq(Float) /\ Multiple(idx)
      /\ idx < Len(Cells(ch)) /\ pc[p] \in SendAudioLabel
  BY <1>1, OutgoingType, SendAudioSites DEF WaveTechInv, ProgramInv, SharedInv
<1>4. c \in Seq(Float) /\ (more => Len(c) = CHUNK_SIZE) /\ more \in BOOLEAN
  <2> HIDE DEF ch, idx
  <2>1. c \in Seq(Float) /\ Len(c) = ChunkLen(ch, idx)
    <3> DEFINE x == Cells(ch)
               k == ChunkLen(ch, idx)
    <3>1. /\ k \in Nat /\ idx + k <= Len(x) /\ Chunk(ch, idx) \in Seq(Float)
      BY <1>3, ChunkOfFloats
    <3>0. x \in Seq(Float)
      <4>1. Garbage \in Float
        BY DEF Float
      <4>2. <<Garbage>> \in Seq(Float)
        BY <4>1
      <4> QED
        BY <1>3, <4>2 DEF Cells
    <3>2. Chunk(ch, idx) = SubSeq(x, idx + 1, idx + k)
      BY DEF Chunk
    <3> HIDE DEF x, k
    <3>3. Len(SubSeq(x, idx + 1, idx + k)) = k
      BY <1>3, <3>0, <3>1
    <3> QED
      BY <3>1, <3>2, <3>3 DEF k
  <2> QED
    BY <2>1 DEF ChunkLen, LastChunk
<1>5. more => c # <<>>
  <2> HIDE DEF c, more
  <2> QED
    BY <1>4, StreamAssumption
<1> HIDE DEF c, more, ch, idx
<1>6. PICK l, st :
        /\ Moves(p, l, st)
        /\ IF more THEN l = pc[p] /\ st = stage[p]
           ELSE IF stage[p] = "left" THEN l = pc[p] /\ st = "confirm"
           ELSE l = Site(p).next /\ st = "left"
  BY <1>1, <1>2, <1>4, LoopMoves
<1>7. /\ net \in NetOf(Byte) /\ Wired(net) /\ \A t \in Sock : net.inbuf[t] \in Seq(Byte)
      /\ GuiLink(net, pc["gui"], stage["gui"], pc["dsp"], stage["dsp"])
      /\ ReverseLink(net, pc["dsp"], stage["dsp"], pc["rev"], stage["rev"])
  BY SessionTypes DEF SessionInv
<1>8. /\ "gui" \in Sock /\ "dsp5500" \in Sock /\ "dsp8800" \in Sock
      /\ "rev8800" \in Sock /\ "pend5500" \in Sock /\ "pend8800" \in Sock
  BY DEF Sock
<1>9. \/ net' = Write(net, s, AudioBytes(c))
      \/ ~more /\ net' = net
  BY <1>2, <1>5
<1>10. CASE p = "gui" /\ pc[p] = "g_tx" /\ s = "gui" /\ Site(p).next = "g_rx"
  <2>1. /\ Wired(net') /\ StayClosed(net, net') /\ Same8800(net, net')
        /\ net'.peer["gui"] = net.peer["gui"]
        /\ \/ GuiWrites(net.peer["gui"], net.inbuf["gui"], net.inbuf["dsp5500"],
                        net.inbuf["pend5500"], AudioBytes(c), net'.inbuf["gui"],
                        net'.inbuf["dsp5500"], net'.inbuf["pend5500"])
           \/ /\ ~more /\ net'.inbuf["gui"] = net.inbuf["gui"]
              /\ net'.inbuf["dsp5500"] = net.inbuf["dsp5500"]
              /\ net'.inbuf["pend5500"] = net.inbuf["pend5500"]
    <3>1. CASE net' = Write(net, s, AudioBytes(c))
      BY <1>7, <1>8, <1>10, <3>1, Wrote
    <3>2. CASE ~more /\ net' = net
      BY <1>7, <3>2 DEF StayClosed, Same8800
    <3> QED
      BY <1>9, <3>1, <3>2
  <2>2. GuiLink(net', l, st, pc["dsp"], stage["dsp"])
    <3>1. GuiSession(net.peer["gui"], net.inbuf["gui"], net.inbuf["dsp5500"],
                     net.inbuf["pend5500"], "g_tx", stage["gui"],
                     pc["dsp"], stage["dsp"])
      BY <1>7, <1>10 DEF GuiLink
    <3>2. GuiSession(net.peer["gui"], net'.inbuf["gui"], net'.inbuf["dsp5500"],
                     net'.inbuf["pend5500"], l, st, pc["dsp"], stage["dsp"])
      BY <1>1, <1>4, <1>6, <1>7, <1>8, <1>10, <2>1, <3>1, GuiSendsChunk
    <3> QED
      BY <2>1, <3>2 DEF GuiLink
  <2> QED
    BY <1>6, <1>10, <2>1, <2>2, GuiMoves
<1>11. CASE p = "dsp" /\ pc[p] = "d_txrev" /\ s = "dsp8800" /\ Site(p).next = "d_done"
  <2>1. /\ Wired(net') /\ StayClosed(net, net') /\ Same5500(net, net')
        /\ net'.peer["dsp8800"] = net.peer["dsp8800"]
        /\ \/ ClientWrites(net.peer["dsp8800"], net.inbuf["dsp8800"],
                           net.inbuf["rev8800"], net.inbuf["pend8800"], AudioBytes(c),
                           net'.inbuf["dsp8800"], net'.inbuf["rev8800"],
                           net'.inbuf["pend8800"])
           \/ /\ ~more /\ net'.inbuf["dsp8800"] = net.inbuf["dsp8800"]
              /\ net'.inbuf["rev8800"] = net.inbuf["rev8800"]
              /\ net'.inbuf["pend8800"] = net.inbuf["pend8800"]
    <3>1. CASE net' = Write(net, s, AudioBytes(c))
      BY <1>7, <1>8, <1>11, <3>1, Wrote
    <3>2. CASE ~more /\ net' = net
      BY <1>7, <3>2 DEF StayClosed, Same5500
    <3> QED
      BY <1>9, <3>1, <3>2
  <2>2. ReverseLink(net', l, st, pc["rev"], stage["rev"])
    <3>1. ReverseSession(net.peer["dsp8800"], net.inbuf["dsp8800"],
                         net.inbuf["rev8800"], net.inbuf["pend8800"],
                         "d_txrev", stage["dsp"], pc["rev"], stage["rev"])
      BY <1>7, <1>11 DEF ReverseLink
    <3>2. ReverseSession(net.peer["dsp8800"], net'.inbuf["dsp8800"],
                         net'.inbuf["rev8800"], net'.inbuf["pend8800"],
                         l, st, pc["rev"], stage["rev"])
      BY <1>1, <1>4, <1>6, <1>7, <1>8, <1>11, <2>1, <3>1, ClientSendsChunk
    <3> QED
      BY <2>1, <3>2 DEF ReverseLink
  <2>3. pc["dsp"] \in DspWork /\ l \in DspWork
    BY <1>6, <1>11 DEF DspWork
  <2> QED
    BY <1>6, <1>11, <2>1, <2>2, <2>3, DspWithReverse
<1>12. CASE p = "dsp" /\ pc[p] = "d_txgui" /\ s = "dsp5500" /\ Site(p).next = "d_loop"
  <2>1. /\ Wired(net') /\ StayClosed(net, net') /\ Same8800(net, net')
        /\ net'.peer["gui"] = net.peer["gui"]
        /\ net'.inbuf["pend5500"] = net.inbuf["pend5500"]
        /\ \/ DspWrites(net.peer["gui"], net.inbuf["gui"], net.inbuf["dsp5500"],
                        AudioBytes(c), net'.inbuf["gui"], net'.inbuf["dsp5500"])
           \/ /\ ~more /\ net'.inbuf["gui"] = net.inbuf["gui"]
              /\ net'.inbuf["dsp5500"] = net.inbuf["dsp5500"]
    <3>1. CASE net' = Write(net, s, AudioBytes(c))
      BY <1>7, <1>8, <1>12, <3>1, Wrote
    <3>2. CASE ~more /\ net' = net
      BY <1>7, <3>2 DEF StayClosed, Same8800
    <3> QED
      BY <1>9, <3>1, <3>2
  <2>2. GuiLink(net', pc["gui"], stage["gui"], l, st)
    <3>1. GuiSession(net.peer["gui"], net.inbuf["gui"], net.inbuf["dsp5500"],
                     net.inbuf["pend5500"], pc["gui"], stage["gui"],
                     "d_txgui", stage["dsp"])
      BY <1>7, <1>12 DEF GuiLink
    <3>2. GuiSession(net.peer["gui"], net'.inbuf["gui"], net'.inbuf["dsp5500"],
                     net.inbuf["pend5500"], pc["gui"], stage["gui"], l, st)
      BY <1>1, <1>4, <1>6, <1>7, <1>8, <1>12, <2>1, <3>1, DspSendsChunk
    <3> QED
      BY <2>1, <3>2 DEF GuiLink
  <2>3. pc["dsp"] \in DspAway \ {"d_disc"} /\ l \in DspAway
    BY <1>6, <1>12 DEF DspAway
  <2> QED
    BY <1>6, <1>12, <2>1, <2>2, <2>3, DspWithGui
<1>13. CASE p = "rev" /\ pc[p] = "r_tx" /\ s = "rev8800" /\ Site(p).next = "r_disc"
  <2>1. /\ Wired(net') /\ StayClosed(net, net') /\ Same5500(net, net')
        /\ net'.peer["dsp8800"] = net.peer["dsp8800"]
        /\ net'.inbuf["pend8800"] = net.inbuf["pend8800"]
        /\ \/ ReverseWrites(net.peer["dsp8800"], net.inbuf["dsp8800"],
                            net.inbuf["rev8800"], AudioBytes(c),
                            net'.inbuf["dsp8800"], net'.inbuf["rev8800"])
           \/ /\ ~more /\ net'.inbuf["dsp8800"] = net.inbuf["dsp8800"]
              /\ net'.inbuf["rev8800"] = net.inbuf["rev8800"]
    <3>1. CASE net' = Write(net, s, AudioBytes(c))
      BY <1>7, <1>8, <1>13, <3>1, Wrote
    <3>2. CASE ~more /\ net' = net
      BY <1>7, <3>2 DEF StayClosed, Same5500
    <3> QED
      BY <1>9, <3>1, <3>2
  <2>2. ReverseLink(net', pc["dsp"], stage["dsp"], l, st)
    <3>1. ReverseSession(net.peer["dsp8800"], net.inbuf["dsp8800"],
                         net.inbuf["rev8800"], net.inbuf["pend8800"],
                         pc["dsp"], stage["dsp"], "r_tx", stage["rev"])
      BY <1>7, <1>13 DEF ReverseLink
    <3>2. ReverseSession(net.peer["dsp8800"], net'.inbuf["dsp8800"],
                         net'.inbuf["rev8800"], net.inbuf["pend8800"],
                         pc["dsp"], stage["dsp"], l, st)
      BY <1>1, <1>4, <1>6, <1>7, <1>8, <1>13, <2>1, <3>1, ReverseSendsChunk
    <3> QED
      BY <2>1, <3>2 DEF ReverseLink
  <2>3. l \notin ReverseUp
    BY <1>6, <1>13 DEF ReverseUp, EndLabel
  <2> QED
    BY <1>6, <1>13, <2>1, <2>2, <2>3, ReverseMoves
<1> QED
  BY <1>1, <1>10, <1>11, <1>12, <1>13, SendAudioTable

\* The confirmation that send_audio waits for is there, and nothing else.
LEMMA RecvConfirmationInStep ==
  ASSUME WholeReads, WaveTechInv, SessionInv, NEW p \in Program,
         RecvConfirmation(p)
  PROVE  SessionInv'
<1> DEFINE s == Site(p).sock
<1>1. In(p, "send_audio") /\ stage[p] = "confirm"
  BY DEF RecvConfirmation
<1>2. CASE EndWith(p, "crashed")
  BY <1>2, SessionEnds
<1>3. ASSUME NEW n \in ReadSizes(Len(net.inbuf[s]), RECV_CAP),
             net' = Take(net, s, n),
             SubSeq(net.inbuf[s], 1, n) = TextBytes("CONFIRMED") =>
               Advance(p, "right") /\ UNCHANGED pc
      PROVE  SessionInv'
  <2>1. s \in Sock /\ RECV_CAP \in Nat \ {0} /\ "CONFIRMED" \in Message
    BY <1>1, SendAudioTable, StreamAssumption DEF Sock, Message
  <2>2. ASSUME net.inbuf[s] = TextBytes("CONFIRMED")
        PROVE  /\ Moves(p, pc[p], "right")
               /\ net'.inbuf[s] = <<>>
    <3>1. SubSeq(net.inbuf[s], 1, n) = TextBytes("CONFIRMED") /\ net'.inbuf[s] = <<>>
      BY <1>3, <2>1, <2>2, ReadText, Reads
    <3> QED
      BY <1>3, <3>1, SessionTypes DEF Advance, Moves
  <2>3. /\ net.inbuf[s] \in Seq(Byte) /\ net.inbuf[s] # <<>>
        /\ n \in 1 .. Len(net.inbuf[s])
        /\ Wired(net') /\ StayClosed(net, net')
        /\ net'.peer = net.peer
        /\ net'.inbuf[s] = SubSeq(net.inbuf[s], n + 1, Len(net.inbuf[s]))
        /\ \A t \in Sock \ {s} : net'.inbuf[t] = net.inbuf[t]
        /\ s \in {"gui", "dsp5500"} => Same8800(net, net')
        /\ s \in {"dsp8800", "rev8800"} => Same5500(net, net')
    BY <1>3, <2>1, Reads
  <2>4. /\ GuiLink(net, pc["gui"], stage["gui"], pc["dsp"], stage["dsp"])
        /\ ReverseLink(net, pc["dsp"], stage["dsp"], pc["rev"], stage["rev"])
    BY DEF SessionInv
  <2>5. /\ "gui" \in Sock /\ "dsp5500" \in Sock /\ "dsp8800" \in Sock
        /\ "rev8800" \in Sock /\ "pend5500" \in Sock /\ "pend8800" \in Sock
    BY DEF Sock
  <2>6. CASE p = "gui" /\ pc[p] = "g_tx" /\ s = "gui"
    <3>1. GuiSession(net.peer["gui"], net.inbuf["gui"], net.inbuf["dsp5500"],
                     net.inbuf["pend5500"], "g_tx", "confirm", pc["dsp"], stage["dsp"])
      BY <1>1, <2>4, <2>6 DEF GuiLink
    <3>2. /\ net.inbuf["gui"] = TextBytes("CONFIRMED")
          /\ GuiSession(net.peer["gui"], <<>>, net.inbuf["dsp5500"],
                        net.inbuf["pend5500"], "g_tx", "right", pc["dsp"], stage["dsp"])
      BY <2>3, <2>6, <3>1, GuiConfirmed
    <3>3. Moves("gui", "g_tx", "right") /\ net'.inbuf["gui"] = <<>>
      BY <2>2, <2>6, <3>2
    <3>4. GuiLink(net', "g_tx", "right", pc["dsp"], stage["dsp"])
      BY <2>3, <2>5, <2>6, <3>2, <3>3 DEF GuiLink
    <3> QED
      BY <2>3, <2>6, <3>3, <3>4, GuiMoves
  <2>7. CASE p = "dsp" /\ pc[p] = "d_txrev" /\ s = "dsp8800"
    <3>1. ReverseSession(net.peer["dsp8800"], net.inbuf["dsp8800"], net.inbuf["rev8800"],
                         net.inbuf["pend8800"], "d_txrev", "confirm", pc["rev"], stage["rev"])
      BY <1>1, <2>4, <2>7 DEF ReverseLink
    <3>2. /\ net.inbuf["dsp8800"] = TextBytes("CONFIRMED")
          /\ ReverseSession(net.peer["dsp8800"], <<>>, net.inbuf["rev8800"],
                            net.inbuf["pend8800"], "d_txrev", "right", pc["rev"], stage["rev"])
      BY <2>3, <2>7, <3>1, ClientConfirmed
    <3>3. Moves("dsp", "d_txrev", "right") /\ net'.inbuf["dsp8800"] = <<>>
      BY <2>2, <2>7, <3>2
    <3>4. ReverseLink(net', "d_txrev", "right", pc["rev"], stage["rev"])
      BY <2>3, <2>5, <2>7, <3>2, <3>3 DEF ReverseLink
    <3>5. pc["dsp"] \in DspWork /\ "d_txrev" \in DspWork
      BY <2>7 DEF DspWork
    <3> QED
      BY <2>3, <2>7, <3>3, <3>4, <3>5, DspWithReverse
  <2>8. CASE p = "dsp" /\ pc[p] = "d_txgui" /\ s = "dsp5500"
    <3>1. GuiSession(net.peer["gui"], net.inbuf["gui"], net.inbuf["dsp5500"],
                     net.inbuf["pend5500"], pc["gui"], stage["gui"], "d_txgui", "confirm")
      BY <1>1, <2>4, <2>8 DEF GuiLink
    <3>2. /\ net.inbuf["dsp5500"] = TextBytes("CONFIRMED")
          /\ GuiSession(net.peer["gui"], net.inbuf["gui"], <<>>,
                        net.inbuf["pend5500"], pc["gui"], stage["gui"], "d_txgui", "right")
      BY <2>3, <2>8, <3>1, DspConfirmed
    <3>3. Moves("dsp", "d_txgui", "right") /\ net'.inbuf["dsp5500"] = <<>>
      BY <2>2, <2>8, <3>2
    <3>4. GuiLink(net', pc["gui"], stage["gui"], "d_txgui", "right")
      BY <2>3, <2>5, <2>8, <3>2, <3>3 DEF GuiLink
    <3>5. pc["dsp"] \in DspAway \ {"d_disc"} /\ "d_txgui" \in DspAway
      BY <2>8 DEF DspAway
    <3> QED
      BY <2>3, <2>8, <3>3, <3>4, <3>5, DspWithGui
  <2>9. CASE p = "rev" /\ pc[p] = "r_tx" /\ s = "rev8800"
    <3>1. ReverseSession(net.peer["dsp8800"], net.inbuf["dsp8800"], net.inbuf["rev8800"],
                         net.inbuf["pend8800"], pc["dsp"], stage["dsp"], "r_tx", "confirm")
      BY <1>1, <2>4, <2>9 DEF ReverseLink
    <3>2. /\ net.inbuf["rev8800"] = TextBytes("CONFIRMED")
          /\ ReverseSession(net.peer["dsp8800"], net.inbuf["dsp8800"], <<>>,
                            net.inbuf["pend8800"], pc["dsp"], stage["dsp"], "r_tx", "right")
      BY <2>3, <2>9, <3>1, ReverseConfirmed
    <3>3. Moves("rev", "r_tx", "right") /\ net'.inbuf["rev8800"] = <<>>
      BY <2>2, <2>9, <3>2
    <3>4. ReverseLink(net', pc["dsp"], stage["dsp"], "r_tx", "right")
      BY <2>3, <2>5, <2>9, <3>2, <3>3 DEF ReverseLink
    <3>5. "r_tx" \notin ReverseUp
      BY DEF ReverseUp, EndLabel
    <3> QED
      BY <2>3, <2>9, <3>3, <3>4, <3>5, ReverseMoves
  <2> QED
    BY <1>1, <2>6, <2>7, <2>8, <2>9, SendAudioTable
<1> QED
  BY <1>2, <1>3 DEF RecvConfirmation

\* One read of recv_audio.
LEMMA RecvChunkInStep ==
  ASSUME WholeReads, WaveTechInv, SessionInv, NEW p \in Program, RecvChunk(p)
  PROVE  SessionInv'
<1> DEFINE s == Site(p).sock
<1>1. In(p, "recv_audio") /\ stage[p] \in {"left", "right"}
  BY SessionTypes DEF RecvChunk
<1>2. CASE EndWith(p, "crashed")
  BY <1>2, SessionEnds
<1>3. ASSUME NEW n \in ReadSizes(Len(net.inbuf[s]), CHUNK_SIZE * FLOAT_BYTES),
             net' = Take(net, s, n),
             IF Len(Floats(SubSeq(net.inbuf[s], 1, n))) = CHUNK_SIZE
             THEN UNCHANGED <<pc, stage>>
             ELSE IF stage[p] = "left" THEN Advance(p, "confirm") /\ UNCHANGED pc
             ELSE Advance(p, "left") /\ Goto(p, Site(p).next)
      PROVE  SessionInv'
  <2> DEFINE full == Len(Floats(SubSeq(net.inbuf[s], 1, n))) = CHUNK_SIZE
             rest == SubSeq(net.inbuf[s], n + 1, Len(net.inbuf[s]))
  <2>1. s \in Sock /\ CHUNK_SIZE * FLOAT_BYTES \in Nat \ {0}
    <3>1. s \in Sock
      BY <1>1, RecvAudioTable DEF Sock
    <3> QED
      BY <3>1, StreamAssumption
  <2>2. PICK l, st :
          /\ Moves(p, l, st)
          /\ IF full THEN l = pc[p] /\ st = stage[p]
             ELSE IF stage[p] = "left" THEN l = pc[p] /\ st = "confirm"
             ELSE l = Site(p).next /\ st = "left"
    <3>1. /\ full \in BOOLEAN
          /\ IF full THEN UNCHANGED <<pc, stage>>
             ELSE IF stage[p] = "left" THEN Advance(p, "confirm") /\ UNCHANGED pc
             ELSE Advance(p, "left") /\ Goto(p, Site(p).next)
      BY <1>3
    <3> HIDE DEF full
    <3> QED
      BY <1>1, <3>1, LoopMoves
  <2>3. /\ net.inbuf[s] \in Seq(Byte) /\ net.inbuf[s] # <<>>
        /\ n \in 1 .. Len(net.inbuf[s])
        /\ Wired(net') /\ StayClosed(net, net')
        /\ net'.peer = net.peer
        /\ net'.inbuf[s] = SubSeq(net.inbuf[s], n + 1, Len(net.inbuf[s]))
        /\ \A t \in Sock \ {s} : net'.inbuf[t] = net.inbuf[t]
        /\ s \in {"gui", "dsp5500"} => Same8800(net, net')
        /\ s \in {"dsp8800", "rev8800"} => Same5500(net, net')
    BY <1>3, <2>1, Reads
  <2>4. /\ GuiLink(net, pc["gui"], stage["gui"], pc["dsp"], stage["dsp"])
        /\ ReverseLink(net, pc["dsp"], stage["dsp"], pc["rev"], stage["rev"])
    BY DEF SessionInv
  <2>5. /\ "gui" \in Sock /\ "dsp5500" \in Sock /\ "dsp8800" \in Sock
        /\ "rev8800" \in Sock /\ "pend5500" \in Sock /\ "pend8800" \in Sock
    BY DEF Sock
  <2>6. ASSUME IsSamples(net.inbuf[s])
        PROVE  /\ IsSamples(rest) /\ full \in BOOLEAN /\ net'.inbuf[s] = rest
               /\ ~full => rest = <<>>
               /\ FullChunks(net.inbuf[s]) => full /\ FullChunks(rest)
    BY <1>3, <2>3, <2>6, ReadSamples
  <2> HIDE DEF full, rest
  <2>7. CASE /\ p = "gui" /\ pc[p] = "g_rx" /\ s = "gui"
             /\ Site(p).next = "g_set"
    <3>1. GuiSession(net.peer["gui"], net.inbuf["gui"], net.inbuf["dsp5500"],
                     net.inbuf["pend5500"], "g_rx", stage["gui"], pc["dsp"], stage["dsp"])
      BY <2>4, <2>7 DEF GuiLink
    <3>2. IsSamples(net.inbuf["gui"]) /\ net.inbuf["gui"] # <<>>
      BY <1>1, <2>3, <2>7, <3>1 DEF GuiSession, GuiFinds
    <3>3. /\ IsSamples(rest) /\ full \in BOOLEAN /\ net'.inbuf["gui"] = rest
          /\ ~full => rest = <<>>
          /\ FullChunks(net.inbuf["gui"]) => full /\ FullChunks(rest)
      BY <2>6, <2>7, <3>2
    <3>4. GuiSession(net.peer["gui"], rest, net.inbuf["dsp5500"],
                     net.inbuf["pend5500"], l, st, pc["dsp"], stage["dsp"])
      BY <1>1, <2>2, <2>7, <3>1, <3>2, <3>3, GuiReadsChunk
    <3>5. GuiLink(net', l, st, pc["dsp"], stage["dsp"])
      BY <2>3, <2>5, <2>7, <3>3, <3>4 DEF GuiLink
    <3> QED
      BY <2>2, <2>3, <2>7, <3>5, GuiMoves
  <2>8. CASE /\ p = "dsp" /\ pc[p] = "d_rxgui" /\ s = "dsp5500"
             /\ Site(p).next = "d_connect"
    <3>1. GuiSession(net.peer["gui"], net.inbuf["gui"], net.inbuf["dsp5500"],
                     net.inbuf["pend5500"], pc["gui"], stage["gui"], "d_rxgui", stage["dsp"])
      BY <2>4, <2>8 DEF GuiLink
    <3>2. IsSamples(net.inbuf["dsp5500"]) /\ net.inbuf["dsp5500"] # <<>>
      BY <1>1, <2>3, <2>8, <3>1 DEF GuiSession, DspFinds, DspIdle
    <3>3. /\ IsSamples(rest) /\ full \in BOOLEAN /\ net'.inbuf["dsp5500"] = rest
          /\ ~full => rest = <<>>
          /\ FullChunks(net.inbuf["dsp5500"]) => full /\ FullChunks(rest)
      BY <2>6, <2>8, <3>2
    <3>4. GuiSession(net.peer["gui"], net.inbuf["gui"], rest,
                     net.inbuf["pend5500"], pc["gui"], stage["gui"], l, st)
      BY <1>1, <2>2, <2>8, <3>1, <3>2, <3>3, DspReadsChunk
    <3>5. GuiLink(net', pc["gui"], stage["gui"], l, st)
      BY <2>3, <2>5, <2>8, <3>3, <3>4 DEF GuiLink
    <3>6. pc["dsp"] \in DspAway \ {"d_disc"} /\ l \in DspAway
      BY <2>2, <2>8 DEF DspAway
    <3> QED
      BY <2>2, <2>3, <2>8, <3>5, <3>6, DspWithGui
  <2>9. CASE /\ p = "dsp" /\ pc[p] = "d_rxrev" /\ s = "dsp8800"
             /\ Site(p).next = "d_txgui"
    <3>1. ReverseSession(net.peer["dsp8800"], net.inbuf["dsp8800"], net.inbuf["rev8800"],
                         net.inbuf["pend8800"], "d_rxrev", stage["dsp"], pc["rev"], stage["rev"])
      BY <2>4, <2>9 DEF ReverseLink
    <3>2. IsSamples(net.inbuf["dsp8800"]) /\ net.inbuf["dsp8800"] # <<>>
      BY <1>1, <2>3, <2>9, <3>1 DEF ReverseSession, ClientFinds
    <3>3. /\ IsSamples(rest) /\ full \in BOOLEAN /\ net'.inbuf["dsp8800"] = rest
          /\ ~full => rest = <<>>
          /\ FullChunks(net.inbuf["dsp8800"]) => full /\ FullChunks(rest)
      BY <2>6, <2>9, <3>2
    <3>4. ReverseSession(net.peer["dsp8800"], rest, net.inbuf["rev8800"],
                         net.inbuf["pend8800"], l, st, pc["rev"], stage["rev"])
      BY <1>1, <2>2, <2>9, <3>1, <3>2, <3>3, ClientReadsChunk
    <3>5. ReverseLink(net', l, st, pc["rev"], stage["rev"])
      BY <2>3, <2>5, <2>9, <3>3, <3>4 DEF ReverseLink
    <3>6. pc["dsp"] \in DspWork /\ (l \in DspWork \/ (l = "d_txgui" /\ st = "left"))
      BY <2>2, <2>9 DEF DspWork
    <3> QED
      BY <2>2, <2>3, <2>9, <3>5, <3>6, DspWithReverse
  <2>10. CASE /\ p = "rev" /\ pc[p] = "r_rx" /\ s = "rev8800"
             /\ Site(p).next = "r_reverse"
    <3>1. ReverseSession(net.peer["dsp8800"], net.inbuf["dsp8800"], net.inbuf["rev8800"],
                         net.inbuf["pend8800"], pc["dsp"], stage["dsp"], "r_rx", stage["rev"])
      BY <2>4, <2>10 DEF ReverseLink
    <3>2. IsSamples(net.inbuf["rev8800"]) /\ net.inbuf["rev8800"] # <<>>
      BY <1>1, <2>3, <2>10, <3>1 DEF ReverseSession, ReverseFinds
    <3>3. /\ IsSamples(rest) /\ full \in BOOLEAN /\ net'.inbuf["rev8800"] = rest
          /\ ~full => rest = <<>>
          /\ FullChunks(net.inbuf["rev8800"]) => full /\ FullChunks(rest)
      BY <2>6, <2>10, <3>2
    <3>4. ReverseSession(net.peer["dsp8800"], net.inbuf["dsp8800"], rest,
                         net.inbuf["pend8800"], pc["dsp"], stage["dsp"], l, st)
      BY <1>1, <2>2, <2>10, <3>1, <3>2, <3>3, ReverseReadsChunk
    <3>5. ReverseLink(net', pc["dsp"], stage["dsp"], l, st)
      BY <2>3, <2>5, <2>10, <3>3, <3>4 DEF ReverseLink
    <3>6. l \notin ReverseUp
      BY <2>2, <2>10 DEF ReverseUp, EndLabel
    <3> QED
      BY <2>2, <2>3, <2>10, <3>5, <3>6, ReverseMoves
  <2> QED
    BY <1>1, <2>7, <2>8, <2>9, <2>10, RecvAudioTable
<1> QED
  BY <1>2, <1>3 DEF RecvChunk

\* The confirmation that recv_audio sends.
LEMMA SendConfirmationInStep ==
  ASSUME WaveTechInv, SessionInv, NEW p \in Program, SendConfirmation(p)
  PROVE  SessionInv'
<1> DEFINE s == Site(p).sock
           b == TextBytes("CONFIRMED")
<1>1. In(p, "recv_audio") /\ stage[p] = "confirm"
  BY DEF SendConfirmation
<1>2. CASE WriteFails(net, s)
  BY <1>2, SessionEnds DEF SendConfirmation
<1>3. CASE ~WriteFails(net, s)
  <2>1. net' = Write(net, s, b) /\ Advance(p, "right") /\ UNCHANGED pc
    BY <1>3 DEF SendConfirmation
  <2>2. Moves(p, pc[p], "right")
    BY <2>1, SessionTypes DEF Advance, Moves
  <2>3. /\ net \in NetOf(Byte) /\ Wired(net)
        /\ \A t \in Sock : net.inbuf[t] \in Seq(Byte)
    BY SessionTypes DEF SessionInv
  <2>4. /\ GuiLink(net, pc["gui"], stage["gui"], pc["dsp"], stage["dsp"])
        /\ ReverseLink(net, pc["dsp"], stage["dsp"], pc["rev"], stage["rev"])
    BY DEF SessionInv
  <2>5. /\ "gui" \in Sock /\ "dsp5500" \in Sock /\ "dsp8800" \in Sock
        /\ "rev8800" \in Sock /\ "pend5500" \in Sock /\ "pend8800" \in Sock
    BY DEF Sock
  <2>6. CASE p = "gui" /\ pc[p] = "g_rx" /\ s = "gui"
    <3>1. /\ Wired(net') /\ StayClosed(net, net') /\ Same8800(net, net')
          /\ net'.peer["gui"] = net.peer["gui"]
          /\ GuiWrites(net.peer["gui"], net.inbuf["gui"], net.inbuf["dsp5500"],
                       net.inbuf["pend5500"], b, net'.inbuf["gui"],
                       net'.inbuf["dsp5500"], net'.inbuf["pend5500"])
      BY <2>1, <2>3, <2>5, <2>6, Wrote
    <3>2. GuiLink(net, "g_rx", "confirm", pc["dsp"], stage["dsp"])
      BY <1>1, <2>4, <2>6
    <3>3. GuiLink(net', "g_rx", "right", pc["dsp"], stage["dsp"])
      BY <3>1, <3>2, GuiConfirms DEF GuiLink
    <3>4. Moves("gui", "g_rx", "right")
      BY <2>2, <2>6
    <3> QED
      BY <3>1, <3>3, <3>4, GuiMoves
  <2>7. CASE p = "dsp" /\ pc[p] = "d_rxgui" /\ s = "dsp5500"
    <3>1. /\ Wired(net') /\ StayClosed(net, net') /\ Same8800(net, net')
          /\ net'.peer["gui"] = net.peer["gui"]
          /\ net'.inbuf["pend5500"] = net.inbuf["pend5500"]
          /\ DspWrites(net.peer["gui"], net.inbuf["gui"], net.inbuf["dsp5500"], b,
                       net'.inbuf["gui"], net'.inbuf["dsp5500"])
      BY <2>1, <2>3, <2>5, <2>7, Wrote
    <3>2. GuiLink(net, pc["gui"], stage["gui"], "d_rxgui", "confirm")
      BY <1>1, <2>4, <2>7
    <3>3. GuiLink(net', pc["gui"], stage["gui"], "d_rxgui", "right")
      BY <3>1, <3>2, DspConfirms DEF GuiLink
    <3>4. Moves("dsp", "d_rxgui", "right")
      BY <2>2, <2>7
    <3>5. pc["dsp"] \in DspAway \ {"d_disc"} /\ "d_rxgui" \in DspAway
      BY <2>7 DEF DspAway
    <3> QED
      BY <3>1, <3>3, <3>4, <3>5, DspWithGui
  <2>8. CASE p = "dsp" /\ pc[p] = "d_rxrev" /\ s = "dsp8800"
    <3>1. /\ Wired(net') /\ StayClosed(net, net') /\ Same5500(net, net')
          /\ net'.peer["dsp8800"] = net.peer["dsp8800"]
          /\ ClientWrites(net.peer["dsp8800"], net.inbuf["dsp8800"],
                          net.inbuf["rev8800"], net.inbuf["pend8800"], b,
                          net'.inbuf["dsp8800"], net'.inbuf["rev8800"],
                          net'.inbuf["pend8800"])
      BY <2>1, <2>3, <2>5, <2>8, Wrote
    <3>2. ReverseLink(net, "d_rxrev", "confirm", pc["rev"], stage["rev"])
      BY <1>1, <2>4, <2>8
    <3>3. ReverseLink(net', "d_rxrev", "right", pc["rev"], stage["rev"])
      BY <3>1, <3>2, ClientConfirms DEF ReverseLink
    <3>4. Moves("dsp", "d_rxrev", "right")
      BY <2>2, <2>8
    <3>5. pc["dsp"] \in DspWork /\ "d_rxrev" \in DspWork
      BY <2>8 DEF DspWork
    <3> QED
      BY <3>1, <3>3, <3>4, <3>5, DspWithReverse
  <2>9. CASE p = "rev" /\ pc[p] = "r_rx" /\ s = "rev8800"
    <3>1. /\ Wired(net') /\ StayClosed(net, net') /\ Same5500(net, net')
          /\ net'.peer["dsp8800"] = net.peer["dsp8800"]
          /\ net'.inbuf["pend8800"] = net.inbuf["pend8800"]
          /\ ReverseWrites(net.peer["dsp8800"], net.inbuf["dsp8800"],
                           net.inbuf["rev8800"], b,
                           net'.inbuf["dsp8800"], net'.inbuf["rev8800"])
      BY <2>1, <2>3, <2>5, <2>9, Wrote
    <3>2. ReverseLink(net, pc["dsp"], stage["dsp"], "r_rx", "confirm")
      BY <1>1, <2>4, <2>9
    <3>3. ReverseLink(net', pc["dsp"], stage["dsp"], "r_rx", "right")
      BY <3>1, <3>2, ReverseConfirms DEF ReverseLink
    <3>4. Moves("rev", "r_rx", "right")
      BY <2>2, <2>9
    <3>5. "r_rx" \notin ReverseUp
      BY DEF ReverseUp, EndLabel
    <3> QED
      BY <3>1, <3>3, <3>4, <3>5, ReverseMoves
  <2> QED
    BY <1>1, <2>6, <2>7, <2>8, <2>9, RecvAudioTable
<1> QED
  BY <1>2, <1>3
-----------------------------------------------------------------------------
(***************************************************************************)
(* The theorems                                                            *)
(***************************************************************************)

\* Nothing is connected when the programs start.
LEMMA SessionInit ==
  ASSUME Init
  PROVE  SessionInv
<1>1. \A s \in Sock : /\ net.status[s] = "closed" /\ net.peer[s] = None
                      /\ net.inbuf[s] = <<>>
  BY DEF Init, NoNet
<1>2. Wired(net)
  BY <1>1 DEF Wired, Sock
<1>3. GuiLink(net, pc["gui"], stage["gui"], pc["dsp"], stage["dsp"])
  BY <1>1, EmptyStream DEF GuiLink, GuiSession, GuiFinds, DspFinds, None, Sock
<1>4. ReverseLink(net, pc["dsp"], stage["dsp"], pc["rev"], stage["rev"])
  BY <1>1 DEF ReverseLink, ReverseSession, ClientFinds, ReverseFinds, None, Sock
<1> QED
  BY <1>1, <1>2, <1>3, <1>4 DEF SessionInv, Sock

\* Every step keeps the dialogues in step.
LEMMA SessionNext ==
  ASSUME WholeReads, WaveTechInv, SessionInv, [Next]_vars
  PROVE  SessionInv'
<1>1. CASE UNCHANGED vars
  BY <1>1 DEF vars, SessionInv, GuiLink, ReverseLink, Wired
<1>2. CASE StartGui
  BY <1>2, StartInStep
<1>3. CASE User
  BY <1>3, UserInStep
<1>4. ASSUME NEW p \in Program, Step(p)
      PROVE  SessionInv'
  BY <1>4, SendMessageInStep, RecvMessageInStep, SendChunkInStep,
     RecvConfirmationInStep, RecvChunkInStep, SendConfirmationInStep, BindInStep,
     AcceptInStep, ConnectInStep, DisconnectInStep, QuietInStep DEF Step
<1>5. ASSUME NEW p \in Program, Die(p)
      PROVE  SessionInv'
  BY <1>5, QuietInStep
<1>6. ASSUME NEW p \in Program, Restart(p)
      PROVE  SessionInv'
  BY <1>6, RestartInStep
<1> QED
  BY <1>1, <1>2, <1>3, <1>4, <1>5, <1>6 DEF Next

\* A text, or commands of the gui, are bytes of messages.
LEMMA TextOnStream ==
  ASSUME NEW s, \/ net.inbuf[s] = <<>>
                \/ Request(net.inbuf[s])
                \/ \E m \in Message : net.inbuf[s] = TextBytes(m)
  PROVE  IsText(s)
<1>1. CASE net.inbuf[s] = <<>>
  BY <1>1 DEF IsText
<1>2. CASE Request(net.inbuf[s])
  BY <1>2 DEF IsText, Request
<1>3. ASSUME NEW m \in Message, net.inbuf[s] = TextBytes(m)
      PROVE  IsText(s)
  <2>1. DOMAIN TextBytes(m) = 1 .. MSG_BYTES
    BY DEF TextBytes
  <2> QED
    BY <1>3, <2>1, TextShape DEF IsText
<1> QED
  BY <1>1, <1>2, <1>3

\* The dialogues are in step.
LEMMA InStep ==
  ASSUME WaveTechInv, SessionInv
  PROVE  StreamsInStep /\ NothingStaleAtPrompt
<1>1. /\ GuiFinds(net.inbuf["gui"], pc["gui"], stage["gui"])
      /\ DspFinds(net.inbuf["dsp5500"], pc["dsp"], stage["dsp"])
      /\ ClientFinds(net.inbuf["dsp8800"], pc["dsp"], stage["dsp"])
      /\ ReverseFinds(net.inbuf["rev8800"], pc["rev"], stage["rev"])
  BY DEF SessionInv, GuiLink, GuiSession, ReverseLink, ReverseSession
<1>2. {"ready", "done", "CONFIRMED", "run", "exit"} \subseteq Message
  BY DEF Message
<1>3. ASSUME NEW p \in Program, In(p, "recv_message")
      PROVE  IsText(Site(p).sock)
  <2>1. CASE p = "gui"
    <3>1. pc["gui"] = "g_ready" /\ Site(p).sock = "gui"
      BY <1>3, <2>1, RecvTable
    <3> QED
      BY <1>1, <1>2, <3>1, TextOnStream DEF GuiFinds
  <2>2. CASE p = "dsp" /\ pc["dsp"] = "d_loop"
    <3>1. Site(p).sock = "dsp5500"
      BY <1>3, <2>2, RecvTable
    <3> QED
      BY <1>1, <1>2, <2>2, <3>1, TextOnStream DEF DspFinds
  <2>3. CASE p = "dsp" /\ pc["dsp"] # "d_loop"
    <3>1. pc["dsp"] \in {"d_started", "d_done"} /\ Site(p).sock = "dsp8800"
      BY <1>3, <2>3, RecvTable
    <3> QED
      BY <1>1, <1>2, <3>1, TextOnStream DEF ClientFinds
  <2>4. CASE p = "rev"
    <3>1. pc["rev"] \in {"r_recv", "r_fetch"} /\ Site(p).sock = "rev8800"
      BY <1>3, <2>4, RecvTable
    <3> QED
      BY <1>1, <1>2, <3>1, TextOnStream DEF ReverseFinds, Order
  <2> QED
    BY <2>1, <2>2, <2>3, <2>4 DEF Program
<1>4. ASSUME NEW p \in Program, In(p, "send_audio")
      PROVE  IsText(Site(p).sock)
  <2>1. CASE p = "gui" /\ pc[p] = "g_tx" /\ Site(p).sock = "gui"
    BY <1>1, <1>2, <2>1, TextOnStream DEF GuiFinds
  <2>2. CASE p = "dsp" /\ pc[p] = "d_txrev" /\ Site(p).sock = "dsp8800"
    BY <1>1, <1>2, <2>2, TextOnStream DEF ClientFinds
  <2>3. CASE p = "dsp" /\ pc[p] = "d_txgui" /\ Site(p).sock = "dsp5500"
    BY <1>1, <1>2, <2>3, TextOnStream DEF DspFinds, DspIdle
  <2>4. CASE p = "rev" /\ pc[p] = "r_tx" /\ Site(p).sock = "rev8800"
    BY <1>1, <1>2, <2>4, TextOnStream DEF ReverseFinds
  <2> QED
    BY <1>4, <2>1, <2>2, <2>3, <2>4, SendAudioTable
<1>5. ASSUME NEW p \in Program, In(p, "recv_audio")
      PROVE  IsAudio(Site(p).sock)
  <2>1. \A s : IsSamples(net.inbuf[s]) => IsAudio(s)
    BY DEF IsSamples, IsAudio
  <2>2. \A s : net.inbuf[s] = <<>> => IsAudio(s)
    BY DEF IsAudio
  <2>3. CASE p = "gui" /\ pc[p] = "g_rx" /\ Site(p).sock = "gui"
    BY <1>1, <2>1, <2>2, <2>3 DEF GuiFinds
  <2>4. CASE p = "dsp" /\ pc[p] = "d_rxgui" /\ Site(p).sock = "dsp5500"
    BY <1>1, <2>1, <2>2, <2>4 DEF DspFinds, DspIdle
  <2>5. CASE p = "dsp" /\ pc[p] = "d_rxrev" /\ Site(p).sock = "dsp8800"
    BY <1>1, <2>1, <2>2, <2>5 DEF ClientFinds
  <2>6. CASE p = "rev" /\ pc[p] = "r_rx" /\ Site(p).sock = "rev8800"
    BY <1>1, <2>1, <2>2, <2>6 DEF ReverseFinds
  <2> QED
    BY <1>5, <2>3, <2>4, <2>5, <2>6, RecvAudioTable
<1>6. NothingStaleAtPrompt
  BY <1>1 DEF GuiFinds, NothingStaleAtPrompt
<1> QED
  BY <1>3, <1>4, <1>5, <1>6 DEF StreamsInStep

\* With whole reads, and whatever the user does and whichever program dies and
\* is started again at any moment, a recv_message of gui.cpp, dsp.cpp and
\* reverse.cpp, and the one in send_audio that waits for the confirmation,
\* never finds samples, and a recv_audio never finds the bytes of a message:
\* the order of the calls is enough to keep text and audio on one stream apart.
THEOREM TextAndAudioKeptApart == ASSUME WholeReads PROVE Spec => []StreamsInStep
<1>1. Init => WaveTechInv /\ SessionInv
  BY WaveTechInit, SessionInit
<1>2. WaveTechInv /\ SessionInv /\ [Next]_vars => (WaveTechInv /\ SessionInv)'
  BY WaveTechNext, SessionNext
<1>3. WaveTechInv /\ SessionInv => StreamsInStep
  BY InStep
<1> QED
  BY <1>1, <1>2, <1>3, PTL DEF Spec

\* With whole reads, when the gui is back at a menu (gui.cpp) nothing is left
\* on its stream that the next command could take for its answer, whatever
\* has become of the dsp and of the reverse service in the meantime.
THEOREM PromptIsClean == ASSUME WholeReads PROVE Spec => []NothingStaleAtPrompt
<1>1. Init => WaveTechInv /\ SessionInv
  BY WaveTechInit, SessionInit
<1>2. WaveTechInv /\ SessionInv /\ [Next]_vars => (WaveTechInv /\ SessionInv)'
  BY WaveTechNext, SessionNext
<1>3. WaveTechInv /\ SessionInv => NothingStaleAtPrompt
  BY InStep
<1> QED
  BY <1>1, <1>2, <1>3, PTL DEF Spec
=============================================================================
