------------------------------ MODULE FileProofs ------------------------------
(***************************************************************************)
(* The samples on the two connections of WaveTech, with whole reads: what  *)
(* the gui stores after a reversal is the reversal of the file it had,     *)
(* whichever program dies in between and comes back.  WaveTech implements  *)
(* AudioEditor.  And what a user gets who waits for the services: no call  *)
(* throws, and no recv_message takes more than one message.                *)
(***************************************************************************)
EXTENDS SessionProofs

(***************************************************************************)
(* A recv_audio on its way to S                                            *)
(*                                                                         *)
(* The receiver is in stage st with container con and cursor idx.  What it *)
(* has is the beginning of S, and what is on the stream to it goes on from *)
(* there to sample w of the channel.                                       *)
(***************************************************************************)
ChannelIn(st) == IF st = "left" THEN 1 ELSE 2

\* The container at the next read: a fresh one at the first.
Held(st, con, idx) == IF st = "left" /\ idx = 0 THEN Empty ELSE con

HoldsPart(st, con, idx, S) ==
  LET k == Held(st, con, idx)
  IN  /\ st # "left" => k[1] = S[1]
      /\ st # "right" => k[2] = <<>>
      /\ st # "confirm" => /\ Len(k[ChannelIn(st)]) = idx
                           /\ Agrees(k[ChannelIn(st)], S[ChannelIn(st)])

OnStream(st, idx, in, S, w) ==
  st # "confirm" =>
    /\ Multiple(idx) /\ idx <= w /\ w <= Len(S[ChannelIn(st)])
    /\ Multiple(w) \/ w = Len(S[ChannelIn(st)])
    /\ Carries(in, S[ChannelIn(st)], idx, w)

GetsTo(st, con, idx, in, S, w) ==
  HoldsPart(st, con, idx, S) /\ OnStream(st, idx, in, S, w)

Gets(st, con, idx, in, S) == \E w \in Nat : GetsTo(st, con, idx, in, S, w)

\* While a send_audio writes the channel that is being read, its cursor is
\* where the stream ends.  The right channel is not read before that.
Pace(ss, si, rs, ri, con, in, S) ==
  /\ (ss = rs /\ ss # "confirm") => GetsTo(rs, con, ri, in, S, si)
  /\ (ss = "confirm" /\ rs = "right") => ri = 0

\* One read: the floats f of the first n bytes go to the end of the channel.
ReadOf(st, con, idx, in, n, f, con2, rest) ==
  /\ n \in ReadSizes(Len(in), CHUNK_SIZE * FLOAT_BYTES)
  /\ f = Floats(SubSeq(in, 1, n))
  /\ con2 = [Held(st, con, idx) EXCEPT ![ChannelIn(st)] = @ \o f]
  /\ rest = SubSeq(in, n + 1, Len(in))

-----------------------------------------------------------------------------
(***************************************************************************)
(* Who holds what during a reversal                                        *)
(*                                                                         *)
(* An empty channel is sent as the one float that is read out of bounds.   *)
(***************************************************************************)
Want == [c \in 1 .. 2 |-> Cells(file[c])]
Back == [c \in 1 .. 2 |-> Reverse(Cells(file[c]))]

Live == net.peer["gui"] = "dsp5500"
Linked == net.peer["dsp8800"] = "rev8800"

Got(p, s, S) ==
  Gets(stage[p], audio[p], buffer_idx[p], net.inbuf[s], S)

Paced(p, q, s, S) ==
  Pace(stage[p], buffer_idx[p], stage[q], buffer_idx[q], audio[q],
       net.inbuf[s], S)

\* The gui gets back the reversal, whoever is still there.
GuiGets ==
  /\ pc["gui"] = "g_rx" => Got("gui", "gui", Back)
  /\ pc["gui"] = "g_set" => audio["gui"] = Back

\* The dsp gets the gui's file,
DspGets ==
  (Live /\ pc["dsp"] = "d_rxgui") =>
    /\ Got("dsp", "dsp5500", Want)
    /\ pc["gui"] # "g_rx" => Paced("gui", "dsp", "dsp5500", Want)

\* has it until the reverse service has it, then gets the reversal, and has
\* that.
DspHolds ==
  Live =>
    /\ pc["dsp"] \in {"d_connect", "d_run", "d_started", "d_txrev"} =>
         audio["dsp"] = Want
    /\ pc["dsp"] = "d_rxrev" => Got("dsp", "dsp8800", Back)
    /\ pc["dsp"] = "d_txgui" => audio["dsp"] = Back

\* It sends that to the gui, which has not read before.
GuiPaced ==
  Live =>
    /\ pc["dsp"] = "d_txgui" => Paced("dsp", "gui", "gui", Back)
    /\ (pc["gui"] = "g_rx" /\ pc["dsp"] \in DspWork \cup {"d_rxgui"}) =>
         buffer_idx["gui"] = 0

\* The reverse service gets the file and turns it into the reversal.
ReverseGets ==
  (Live /\ Linked) =>
    /\ pc["rev"] = "r_rx" => Got("rev", "rev8800", Want)
    /\ pc["rev"] = "r_reverse" => audio["rev"] = Want
    /\ pc["rev"] \in {"r_done", "r_fetch", "r_tx"} => audio["rev"] = Back

\* The two of them keep pace, in both directions.
ReversePaced ==
  (Live /\ Linked) =>
    /\ (pc["dsp"] \in {"d_started", "d_txrev"} /\ pc["rev"] = "r_rx") =>
         Paced("dsp", "rev", "rev8800", Want)
    /\ (pc["dsp"] = "d_rxrev" /\ pc["rev"] \in {"r_fetch", "r_tx"}) =>
         Paced("rev", "dsp", "dsp8800", Back)

DataInv ==
  /\ GuiGets /\ DspGets /\ DspHolds
  /\ GuiPaced /\ ReverseGets /\ ReversePaced

-----------------------------------------------------------------------------
(***************************************************************************)
(* One transfer                                                            *)
(***************************************************************************)

\* The two channels of a buffer.
LEMMA ChannelTypes ==
  ASSUME NEW S \in Channels, NEW st
  PROVE  /\ ChannelIn(st) \in 1 .. 2 /\ S[ChannelIn(st)] \in Seq(Float)
         /\ Len(S[ChannelIn(st)]) \in Nat
         /\ S[1] \in Seq(Float) /\ S[2] \in Seq(Float)
BY DEF Channels, ChannelIn

\* What is on the stream is lost.
LEMMA StreamLost ==
  ASSUME NEW S \in Channels, NEW st, NEW con, NEW idx \in Nat, NEW in,
         Gets(st, con, idx, in, S)
  PROVE  GetsTo(st, con, idx, <<>>, S, idx)
<1>1. PICK w \in Nat : GetsTo(st, con, idx, in, S, w)
  BY DEF Gets
<1> DEFINE s == S[ChannelIn(st)]
<1>2. s \in Seq(Float) /\ Len(s) \in Nat
  BY ChannelTypes
<1>3. st # "confirm" => Multiple(idx) /\ idx <= Len(s)
  <2> DEFINE L == Len(s)
  <2>1. st # "confirm" => Multiple(idx) /\ idx <= w /\ w <= L
    BY <1>1 DEF GetsTo, OnStream
  <2> HIDE DEF L
  <2> QED
    BY <1>2, <2>1 DEF L
<1>4. Carries(<<>>, s, idx, idx)
  <2> HIDE DEF s
  <2>1. (idx - idx) * FLOAT_BYTES = 0 /\ 0 .. idx - idx - 1 = {} /\ Len(<<>>) = 0
    BY StreamAssumption
  <2> QED
    BY <2>1 DEF Carries
<1> HIDE DEF s
<1>5. OnStream(st, idx, <<>>, S, idx)
  BY <1>3, <1>4 DEF OnStream, s
<1> QED
  BY <1>1, <1>5 DEF GetsTo

\* The same, or nothing happens.
LEMMA StreamKept ==
  ASSUME NEW S \in Channels, NEW st, NEW con, NEW idx \in Nat, NEW in,
         Gets(st, con, idx, in, S), NEW in2 \in {in, <<>>}
  PROVE  Gets(st, con, idx, in2, S)
<1>1. GetsTo(st, con, idx, <<>>, S, idx)
  BY StreamLost
<1> QED
  BY <1>1 DEF Gets

\* A recv_audio starts.
LEMMA StreamStarts ==
  ASSUME NEW S \in Channels, NEW con
  PROVE  GetsTo("left", con, 0, <<>>, S, 0) /\ Gets("left", con, 0, <<>>, S)
<1>1. Carries(<<>>, S[1], 0, 0) /\ Multiple(0) /\ S[1] \in Seq(Float)
  BY ChannelTypes, FeedingStarts
<1>2. Len(S[1]) >= 0
  BY <1>1
<1>3. Held("left", con, 0) = Empty /\ ChannelIn("left") = 1
  BY DEF Held, ChannelIn
<1>4. Empty[1] = <<>> /\ Empty[2] = <<>> /\ Len(<<>>) = 0 /\ 1 .. 0 = {}
  BY DEF Empty
<1>5. Agrees(<<>>, S[1])
  BY <1>2, <1>4 DEF Agrees
<1>6. HoldsPart("left", con, 0, S)
  BY <1>3, <1>4, <1>5 DEF HoldsPart
<1>7. OnStream("left", 0, <<>>, S, 0)
  BY <1>1, <1>2, <1>3 DEF OnStream
<1> QED
  BY <1>6, <1>7 DEF GetsTo, Gets

\* It goes on with the right channel.
LEMMA StreamConfirmed ==
  ASSUME NEW S \in Channels, NEW con, NEW in, Gets("confirm", con, 0, in, S)
  PROVE  GetsTo("right", con, 0, <<>>, S, 0) /\ Gets("right", con, 0, <<>>, S)
<1>1. HoldsPart("confirm", con, 0, S)
  BY DEF Gets, GetsTo
<1>2. Carries(<<>>, S[2], 0, 0) /\ Multiple(0) /\ S[2] \in Seq(Float)
  BY ChannelTypes, FeedingStarts
<1>3. Len(S[2]) >= 0
  BY <1>2
<1>4. /\ Held("confirm", con, 0) = con /\ Held("right", con, 0) = con
      /\ ChannelIn("right") = 2 /\ Len(<<>>) = 0 /\ 1 .. 0 = {}
  BY DEF Held, ChannelIn
<1>5. con[1] = S[1] /\ con[2] = <<>>
  BY <1>1, <1>4 DEF HoldsPart
<1>6. Agrees(con[2], S[2]) /\ Len(con[2]) = 0
  BY <1>3, <1>4, <1>5 DEF Agrees
<1>7. HoldsPart("right", con, 0, S)
  BY <1>4, <1>5, <1>6 DEF HoldsPart
<1>8. OnStream("right", 0, <<>>, S, 0)
  BY <1>2, <1>3, <1>4 DEF OnStream
<1> QED
  BY <1>7, <1>8 DEF GetsTo, Gets

\* send_audio writes the chunk of a channel ch at si.  Where ch is empty, what
\* is written is its one cell.
LEMMA StreamFed ==
  ASSUME NEW S \in Channels, NEW st \in {"left", "right"},
         NEW ch \in Seq(Float), Cells(ch) = S[ChannelIn(st)],
         NEW si \in Nat, Multiple(si), si < Len(Cells(ch)),
         NEW con, NEW ri \in Nat, NEW in \in Seq(Byte),
         GetsTo(st, con, ri, in, S, si),
         NEW in2, in2 = in \o AudioBytes(Chunk(ch, si))
  PROVE  /\ ~LastChunk(ch, si) => GetsTo(st, con, ri, in2, S, si + CHUNK_SIZE)
         /\ Gets(st, con, ri, in2, S)
<1> DEFINE s == S[ChannelIn(st)]
           n == ChunkLen(ch, si)
           L == Len(s)
<1>1. s \in Seq(Float) /\ L \in Nat /\ CHUNK_SIZE \in Nat \ {0}
  BY ChannelTypes, StreamAssumption
<1>2. /\ n \in Nat /\ si + n <= L
      /\ ~LastChunk(ch, si) => n = CHUNK_SIZE /\ Multiple(si + CHUNK_SIZE)
      /\ LastChunk(ch, si) => si + n = L \/ Multiple(si + n)
  BY ChunkOfFloats
<1>3. Chunk(ch, si) = SubSeq(s, si + 1, si + n)
  BY DEF Chunk
<1>4. Multiple(ri) /\ ri <= si /\ Carries(in, s, ri, si)
  BY DEF GetsTo, OnStream
<1> HIDE DEF n, L
<1>5. PICK w \in Nat : w = si + n
  BY <1>2
<1>6. si <= w /\ w <= L /\ ri <= w /\ (Multiple(w) \/ w = L)
  <2>1. si <= w /\ w <= L /\ ri <= w
    BY <1>1, <1>2, <1>4, <1>5
  <2>2. CASE LastChunk(ch, si)
    BY <1>2, <1>5, <2>1, <2>2
  <2>3. CASE ~LastChunk(ch, si)
    BY <1>2, <1>5, <2>1, <2>3
  <2> QED
    BY <2>2, <2>3
<1>7. Carries(in2, s, ri, w)
  <2>1. w <= Len(s)
    BY <1>6 DEF L
  <2> HIDE DEF s
  <2> QED
    BY <1>1, <1>3, <1>4, <1>5, <1>6, <2>1, CarriesAppend
<1>8. OnStream(st, ri, in2, S, w)
  BY <1>4, <1>6, <1>7 DEF OnStream, L
<1>9. GetsTo(st, con, ri, in2, S, w)
  BY <1>8 DEF GetsTo
<1> QED
  BY <1>2, <1>5, <1>9 DEF Gets

\* recv_audio reads.
LEMMA StreamRead ==
  ASSUME WholeReads, NEW S \in Channels, NEW st \in {"left", "right"},
         NEW con \in Channels, NEW idx \in Nat, NEW in \in Seq(Byte),
         Gets(st, con, idx, in, S),
         NEW n, NEW f, NEW con2, NEW rest,
         ReadOf(st, con, idx, in, n, f, con2, rest)
  PROVE  /\ Len(f) = CHUNK_SIZE =>
              \A w \in Nat : GetsTo(st, con, idx, in, S, w) =>
                               GetsTo(st, con2, idx + CHUNK_SIZE, rest, S, w)
         /\ Len(f) = CHUNK_SIZE => Gets(st, con2, idx + CHUNK_SIZE, rest, S)
         /\ (Len(f) # CHUNK_SIZE /\ st = "left") =>
              \A in2 : Gets("confirm", con2, 0, in2, S)
         /\ (Len(f) # CHUNK_SIZE /\ st = "right") => con2 = S
         /\ (Len(f) # CHUNK_SIZE /\ in # <<>>) => ~Multiple(Len(S[ChannelIn(st)]))
<1> DEFINE c == ChannelIn(st)
           s == S[c]
           k == Held(st, con, idx)
           t == k[c]
           C == CHUNK_SIZE
<1> USE DEF ReadOf
<1>1. /\ c \in 1 .. 2 /\ s \in Seq(Float) /\ C \in Nat \ {0}
      /\ k \in Channels /\ t \in Seq(Float)
  BY ChannelTypes, EmptyType, StreamAssumption DEF Held, Channels
<1>2. HoldsPart(st, con, idx, S)
  BY DEF Gets, GetsTo
<1>3. Len(t) = idx /\ Agrees(t, s)
  BY <1>2 DEF HoldsPart
<1>4. /\ con2 \in [1 .. 2 -> Seq(Float) \cup {t \o f}]
      /\ con2[c] = t \o f
      /\ \A d \in 1 .. 2 : d # c => con2[d] = k[d]
  BY <1>1 DEF Channels
<1>5. rest = Rest(in, n)
  BY DEF Rest
<1>6. ASSUME NEW w \in Nat, GetsTo(st, con, idx, in, S, w)
      PROVE  /\ ReadOutcome(s, in, idx, w, n) /\ w <= Len(s)
             /\ w = Len(s) \/ Multiple(w)
  <2>1. /\ Multiple(idx) /\ idx <= w /\ w <= Len(s)
        /\ Multiple(w) \/ w = Len(s)
        /\ Carries(in, s, idx, w)
    BY <1>6 DEF GetsTo, OnStream
  <2> HIDE DEF s
  <2> QED
    BY <1>1, <2>1, ReadStep
<1>7. PICK v \in Nat : GetsTo(st, con, idx, in, S, v)
  BY DEF Gets
<1>8. /\ f \in Seq(Float) /\ idx + Len(f) <= v /\ v <= Len(s)
      /\ \A i \in 1 .. Len(f) : f[i] = s[idx + i]
      /\ (Len(f) < C) => idx + Len(f) = Len(s)
  <2>1. ReadOutcome(s, in, idx, v, n) /\ v <= Len(s) /\ (v = Len(s) \/ Multiple(v))
    BY <1>6, <1>7
  <2> HIDE DEF s
  <2> QED
    BY <2>1 DEF ReadOutcome, WholeReads
<1>9. Len(f) \in Nat /\ Len(f) <= C
  <2>1. n \in Nat /\ n <= C * FLOAT_BYTES /\ n <= Len(in)
    <3> DEFINE B == C * FLOAT_BYTES
               A == Len(in)
    <3>1. B \in Nat /\ A \in Nat /\ n \in ReadSizes(A, B)
      BY <1>1, StreamAssumption
    <3> HIDE DEF A, B
    <3>2. n \in Nat /\ n <= B /\ n <= A
      BY <3>1 DEF ReadSizes
    <3> QED
      BY <3>2 DEF A, B
  <2>2. Len(SubSeq(in, 1, n)) = n
    BY <2>1
  <2>3. /\ (n \div FLOAT_BYTES) \in Nat /\ (n % FLOAT_BYTES) \in 0 .. FLOAT_BYTES - 1
        /\ n = (n \div FLOAT_BYTES) * FLOAT_BYTES + (n % FLOAT_BYTES)
    BY <2>1, StreamAssumption, DivMod
  <2>4. Len(f) = n \div FLOAT_BYTES
    <3> DEFINE q == n \div FLOAT_BYTES
               x == SubSeq(in, 1, n)
    <3>1. f = [i \in 1 .. q |-> FloatAt(x, i)] /\ q \in Nat
      BY <2>2, <2>3 DEF Floats
    <3> HIDE DEF q, x
    <3> QED
      BY <3>1 DEF q
  <2> DEFINE m == Len(f)
             F == FLOAT_BYTES
             r == n % FLOAT_BYTES
  <2>5. m \in Nat /\ m * F <= C * F /\ F \in Nat \ {0}
    <3>1. /\ m \in Nat /\ r \in 0 .. F - 1 /\ n = m * F + r /\ n <= C * F
          /\ F \in Nat \ {0} /\ n \in Nat
      BY <2>1, <2>3, <2>4, StreamAssumption
    <3> HIDE DEF m, F, r, C
    <3>2. m * F \in Nat /\ C * F \in Nat
      BY <1>1, <3>1
    <3> QED
      BY <3>1, <3>2
  <2> HIDE DEF m, F, C
  <2>6. ASSUME m >= C + 1 PROVE FALSE
    <3>1. (C + 1) * F <= m * F
      BY <1>1, <2>5, <2>6, MulMono
    <3>2. (C + 1) * F = C * F + F /\ C * F \in Nat /\ m * F \in Nat
      BY <1>1, <2>5
    <3> QED
      BY <2>5, <3>1, <3>2
  <2> QED
    BY <1>1, <2>5, <2>6 DEF m
<1>10. t \o f \in Seq(Float) /\ Len(t \o f) = idx + Len(f) /\ con2 \in Channels
  <2> HIDE DEF t
  <2>1. t \o f \in Seq(Float) /\ Len(t \o f) = Len(t) + Len(f)
    BY <1>1, <1>8, ConcatShape
  <2> QED
    BY <1>3, <1>4, <2>1 DEF Channels
<1>11. Agrees(t \o f, s)
  <2> DEFINE L == Len(s)
             m == Len(f)
  <2>1. L \in Nat /\ m \in Nat /\ idx + m <= v /\ v <= L
    BY <1>1, <1>8, <1>9
  <2>2. idx + m <= L
    <3> HIDE DEF L, m
    <3> QED
      BY <2>1
  <2> HIDE DEF t, s
  <2> QED
    BY <1>1, <1>3, <1>8, <2>2, AgreesMore
<1> HIDE DEF t, s, k
<1>12. ASSUME Len(f) = C
       PROVE  /\ HoldsPart(st, con2, idx + C, S)
              /\ \A w \in Nat : GetsTo(st, con, idx, in, S, w) =>
                                  GetsTo(st, con2, idx + C, rest, S, w)
  <2>1. Held(st, con2, idx + C) = con2
    BY <1>1 DEF Held
  <2>2. HoldsPart(st, con2, idx + C, S)
    <3>1. Len(con2[c]) = idx + C /\ Agrees(con2[c], s)
      BY <1>4, <1>10, <1>11, <1>12
    <3>2. CASE st = "left"
      <4>1. c = 1 /\ k[2] = <<>>
        BY <1>2, <3>2 DEF HoldsPart, ChannelIn, k
      <4>2. con2[2] = <<>>
        BY <1>4, <4>1
      <4> QED
        BY <2>1, <3>1, <3>2, <4>1, <4>2 DEF HoldsPart, s
    <3>3. CASE st = "right"
      <4>1. c = 2 /\ k[1] = S[1]
        BY <1>2, <3>3 DEF HoldsPart, ChannelIn, k
      <4>2. con2[1] = S[1]
        BY <1>4, <4>1
      <4> QED
        BY <2>1, <3>1, <3>3, <4>1, <4>2 DEF HoldsPart, s
    <3> QED
      BY <3>2, <3>3
  <2>3. ASSUME NEW w \in Nat, GetsTo(st, con, idx, in, S, w)
        PROVE  GetsTo(st, con2, idx + C, rest, S, w)
    <3>1. ReadOutcome(s, in, idx, w, n) /\ w <= Len(s) /\ (w = Len(s) \/ Multiple(w))
      BY <1>6, <2>3
    <3>2. ~(Len(f) < C)
      BY <1>1, <1>12
    <3>3. /\ Multiple(idx + C) /\ idx + C <= w
          /\ Carries(rest, s, idx + C, w)
      BY <1>5, <1>12, <3>1, <3>2 DEF ReadOutcome
    <3>4. OnStream(st, idx + C, rest, S, w)
      BY <3>1, <3>3 DEF OnStream, s
    <3> QED
      BY <2>2, <3>4 DEF GetsTo
  <2> QED
    BY <2>2, <2>3
<1>13. ASSUME Len(f) # C PROVE con2[c] = s
  <2>1. Len(f) < C
    BY <1>1, <1>9, <1>13
  <2>2. Len(t \o f) = Len(s)
    BY <1>8, <1>10, <2>1
  <2> QED
    BY <1>1, <1>4, <1>10, <1>11, <2>2, AgreesAll
<1>14. ASSUME Len(f) # C, st = "left"
       PROVE  \A in2 : Gets("confirm", con2, 0, in2, S)
  <2>1. c = 1 /\ k[2] = <<>>
    BY <1>2, <1>14 DEF HoldsPart, ChannelIn, k
  <2>2. con2[1] = S[1] /\ con2[2] = <<>>
    BY <1>4, <1>13, <1>14, <2>1 DEF s
  <2>3. HoldsPart("confirm", con2, 0, S)
    BY <2>2 DEF HoldsPart, Held
  <2>4. \A in2 : GetsTo("confirm", con2, 0, in2, S, 0)
    BY <2>3 DEF GetsTo, OnStream
  <2> QED
    BY <2>4 DEF Gets
<1>15. ASSUME Len(f) # C, st = "right" PROVE con2 = S
  <2>1. c = 2 /\ k[1] = S[1]
    BY <1>2, <1>15 DEF HoldsPart, ChannelIn, k
  <2>2. con2[1] = S[1] /\ con2[2] = S[2]
    BY <1>4, <1>13, <1>15, <2>1 DEF s
  <2>3. \A d \in 1 .. 2 : con2[d] = S[d]
    BY <2>2
  <2>4. DOMAIN con2 = 1 .. 2 /\ DOMAIN S = 1 .. 2
    BY <1>10 DEF Channels
  <2> QED
    BY <1>10, <2>3, <2>4 DEF Channels
<1>16. ASSUME Len(f) # C, in # <<>>
       PROVE  ~Multiple(Len(S[ChannelIn(st)]))
  <2> DEFINE m == Len(f)
             L == Len(s)
             F == FLOAT_BYTES
  <2>1. /\ m \in Nat /\ m < C /\ idx + m = L /\ v <= L /\ idx + m <= v
        /\ Multiple(idx) /\ Len(in) = (v - idx) * F
    <3>1. Multiple(idx) /\ Carries(in, s, idx, v)
      BY <1>7 DEF GetsTo, OnStream, s
    <3>2. Len(in) = (v - idx) * F
      BY <3>1 DEF Carries
    <3>3. m \in Nat /\ m <= C /\ m # C
      BY <1>9, <1>16
    <3>4. m < C
      <4> HIDE DEF m, C
      <4> QED
        BY <1>1, <3>3
    <3>5. idx + m = L /\ v <= L /\ idx + m <= v
      BY <1>8, <3>4
    <3> QED
      BY <3>1, <3>2, <3>3, <3>4, <3>5
  <2>2. Len(in) # 0 /\ F \in Nat /\ L \in Nat
    BY <1>1, <1>16, StreamAssumption
  <2>3. PICK q \in Nat : idx = q * C
    BY <2>1 DEF Multiple
  <2> HIDE DEF m, L, F, C
  <2>4. v = L /\ v - idx = m
    BY <2>1, <2>2
  <2>5. m # 0
    BY <2>1, <2>2, <2>4
  <2>6. ASSUME NEW u \in Nat, L = u * C PROVE FALSE
    <3>1. L = u * C + 0 /\ 0 \in 0 .. C - 1 /\ m \in 0 .. C - 1 /\ L = q * C + m
      BY <1>1, <2>1, <2>3, <2>6
    <3>2. ((u * C + 0) % C) = 0
      BY <1>1, <3>1, DivUnique
    <3>3. ((q * C + m) % C) = m
      BY <1>1, <3>1, DivUnique
    <3>4. u * C + 0 = q * C + m
      BY <3>1
    <3> QED
      BY <2>5, <3>2, <3>3, <3>4
  <2> QED
    BY <2>6 DEF Multiple, L, C, s
<1> QED
  BY <1>7, <1>12, <1>14, <1>15, <1>16 DEF Gets

-----------------------------------------------------------------------------
(***************************************************************************)
(* The two ends of a transfer                                              *)
(***************************************************************************)

\* send_audio and recv_audio start together.
LEMMA PaceStarts ==
  ASSUME NEW S \in Channels, NEW con
  PROVE  Pace("left", 0, "left", 0, con, <<>>, S)
BY StreamStarts DEF Pace

\* send_audio writes a chunk.
LEMMA PaceFed ==
  ASSUME NEW S \in Channels, NEW ss \in {"left", "right"}, NEW rs, NEW back,
         NEW in \in Seq(Byte), Transfer(ss, rs, back, in),
         NEW ch \in Seq(Float), Cells(ch) = S[ChannelIn(ss)],
         NEW si \in Nat, Multiple(si), si < Len(Cells(ch)),
         NEW con, NEW ri \in Nat, Pace(ss, si, rs, ri, con, in, S),
         NEW in2, in2 = in \o AudioBytes(Chunk(ch, si)),
         NEW ss2, NEW si2,
         IF ~LastChunk(ch, si) THEN ss2 = ss /\ si2 = si + CHUNK_SIZE
         ELSE ss = "left" => ss2 = "confirm"
  PROVE  /\ Gets(rs, con, ri, in2, S)
         /\ ~LastChunk(ch, si) \/ ss = "left" =>
              Pace(ss2, si2, rs, ri, con, in2, S)
<1>1. rs = ss
  BY DEF Transfer
<1>2. GetsTo(ss, con, ri, in, S, si)
  BY <1>1 DEF Pace
<1>3. /\ ~LastChunk(ch, si) => GetsTo(ss, con, ri, in2, S, si + CHUNK_SIZE)
      /\ Gets(ss, con, ri, in2, S)
  BY <1>2, StreamFed
<1> QED
  BY <1>1, <1>3 DEF Pace

\* send_audio gets the confirmation.
LEMMA PaceConfirmed ==
  ASSUME NEW S \in Channels, NEW rs, NEW back, NEW in,
         Transfer("confirm", rs, back, in), back # <<>>,
         NEW si, NEW con, NEW ri \in Nat,
         Gets(rs, con, ri, in, S), Pace("confirm", si, rs, ri, con, in, S)
  PROVE  Pace("right", 0, rs, ri, con, in, S)
<1>1. rs = "right" /\ in = <<>> /\ ri = 0
  BY DEF Transfer, Pace
<1>2. GetsTo("right", con, 0, <<>>, S, 0)
  BY <1>1, StreamLost
<1> QED
  BY <1>1, <1>2 DEF Pace

\* recv_audio reads a full chunk.
LEMMA PaceRead ==
  ASSUME WholeReads, NEW S \in Channels, NEW rs \in {"left", "right"},
         NEW con \in Channels, NEW ri \in Nat, NEW in \in Seq(Byte),
         Gets(rs, con, ri, in, S),
         NEW n, NEW f, NEW con2, NEW rest,
         ReadOf(rs, con, ri, in, n, f, con2, rest), Len(f) = CHUNK_SIZE,
         NEW ss, NEW si \in Nat, NEW back, Transfer(ss, rs, back, in),
         Pace(ss, si, rs, ri, con, in, S)
  PROVE  Pace(ss, si, rs, ri + CHUNK_SIZE, con2, rest, S)
<1>1. \A w \in Nat : GetsTo(rs, con, ri, in, S, w) =>
                       GetsTo(rs, con2, ri + CHUNK_SIZE, rest, S, w)
  BY StreamRead
<1>2. in # <<>>
  BY EmptyStream DEF ReadOf
<1>3. ~(ss = "confirm" /\ rs = "right")
  BY <1>2 DEF Transfer
<1> QED
  BY <1>1, <1>3 DEF Pace

\* recv_audio has read the left channel, and confirms it.
LEMMA PaceConfirms ==
  ASSUME NEW S, NEW ss, NEW si, NEW con, NEW in
  PROVE  /\ Pace(ss, si, "confirm", 0, con, in, S)
         /\ \A back, on : Transfer(ss, "confirm", back, on) =>
                            Pace(ss, si, "right", 0, con, in, S)
BY DEF Pace, Transfer

-----------------------------------------------------------------------------
(***************************************************************************)
(* What a step leaves alone                                                *)
(***************************************************************************)

\* The types of what is handed around, and what sending it sends.
LEMMA DataTypes ==
  ASSUME WaveTechInv
  PROVE  /\ Want \in Channels /\ Back \in Channels /\ file \in Channels
         /\ \A p \in Program : /\ audio[p] \in Channels
                               /\ buffer_idx[p] \in Nat
                               /\ stage[p] \in {"left", "confirm", "right"}
         /\ audio \in [Program -> Channels]
         /\ \A s \in Sock : net.inbuf[s] \in Seq(Byte)
         /\ \A c \in 1 .. 2 : /\ Cells(file[c]) = Want[c]
                              /\ Cells(Want[c]) = Want[c]
                              /\ Cells(Back[c]) = Back[c]
                              /\ Back[c] = Reverse(Want[c])
<1>1. /\ file \in Channels /\ audio \in [Program -> Channels]
      /\ buffer_idx \in [Program -> Nat]
      /\ stage \in [Program -> {"left", "confirm", "right"}]
  BY DEF WaveTechInv, SharedInv
<1>2. ASSUME NEW c \in 1 .. 2
      PROVE  /\ Cells(file[c]) \in Seq(Float) /\ Cells(file[c]) # <<>>
             /\ Reverse(Cells(file[c])) \in Seq(Float)
             /\ Reverse(Cells(file[c])) # <<>>
  <2>1. file[c] \in Seq(Float) /\ <<Garbage>> \in Seq(Float) /\ <<Garbage>> # <<>>
    BY <1>1 DEF Channels, Float
  <2>2. Cells(file[c]) \in Seq(Float) /\ Cells(file[c]) # <<>>
    BY <2>1 DEF Cells
  <2> DEFINE s == Cells(file[c])
             L == Len(s)
  <2>3. s \in Seq(Float) /\ L \in Nat \ {0} /\ \A i \in 1 .. L : s[i] \in Float
    BY <2>2
  <2>4. Reverse(s) = [i \in 1 .. L |-> s[(L - i) + 1]]
    BY DEF Reverse
  <2> HIDE DEF s, L
  <2>5. \A i \in 1 .. L : (L - i) + 1 \in 1 .. L
    BY <2>3
  <2>6. Reverse(s) \in Seq(Float) /\ Len(Reverse(s)) = L
    BY <2>3, <2>4, <2>5
  <2>7. Reverse(s) # <<>>
    BY <2>3, <2>6
  <2> QED
    BY <2>2, <2>6, <2>7 DEF s
<1>3. Want \in Channels /\ Back \in Channels
  BY <1>2 DEF Want, Back, Channels
<1>4. ASSUME NEW c \in 1 .. 2
      PROVE  /\ Cells(file[c]) = Want[c] /\ Cells(Want[c]) = Want[c]
             /\ Cells(Back[c]) = Back[c] /\ Back[c] = Reverse(Want[c])
  <2>1. Want[c] = Cells(file[c]) /\ Back[c] = Reverse(Cells(file[c]))
    BY DEF Want, Back
  <2>2. Want[c] # <<>> /\ Back[c] # <<>>
    BY <1>2, <2>1
  <2> QED
    BY <2>1, <2>2 DEF Cells
<1> QED
  BY <1>1, <1>3, <1>4, SessionTypes

\* The same file is to be reversed.
LEMMA SameFile ==
  ASSUME file' = file
  PROVE  Want' = Want /\ Back' = Back
BY DEF Want, Back

\* Program p does nothing.
Still(p) ==
  /\ pc'[p] = pc[p] /\ stage'[p] = stage[p]
  /\ buffer_idx'[p] = buffer_idx[p] /\ audio'[p] = audio[p]

\* The gui keeps what it has got, whatever happens to the stream.
LEMMA GuiGetsKept ==
  ASSUME WaveTechInv, GuiGets, file' = file, Still("gui"),
         net'.inbuf["gui"] \in {net.inbuf["gui"], <<>>}
  PROVE  GuiGets'
<1>1. Want' = Want /\ Back' = Back /\ Back \in Channels /\ buffer_idx["gui"] \in Nat
  BY SameFile, DataTypes DEF Program
<1>2. pc["gui"] = "g_rx" => Got("gui", "gui", Back)'
  <2> SUFFICES ASSUME pc["gui"] = "g_rx" PROVE Got("gui", "gui", Back)'
    OBVIOUS
  <2>1. Gets(stage["gui"], audio["gui"], buffer_idx["gui"], net.inbuf["gui"], Back)
    BY DEF GuiGets, Got
  <2>2. Gets(stage["gui"], audio["gui"], buffer_idx["gui"], net'.inbuf["gui"], Back)
    BY <1>1, <2>1, StreamKept
  <2> QED
    BY <1>1, <2>2 DEF Got, Still
<1> QED
  BY <1>1, <1>2 DEF GuiGets, Still

\* A dsp that has not been asked, or is gone, holds nothing.
LEMMA DspFree ==
  ASSUME SessionInv', GuiGets',
         pc'["dsp"] \notin DspWork \cup {"d_rxgui", "d_txgui"}
  PROVE  DataInv'
<1>1. pc'["dsp"] \notin {"d_rxgui", "d_txgui", "d_connect", "d_run", "d_started",
                         "d_txrev", "d_done", "d_fetch", "d_rxrev"}
  BY DEF DspWork
<1>2. Linked' => pc'["rev"] \in {"r_recv", "r_disc", "r_xdisc"}
  <2>1. ReverseLink(net', pc'["dsp"], stage'["dsp"], pc'["rev"], stage'["rev"])
    BY DEF SessionInv
  <2>2. Linked' => ReversePhase(pc'["dsp"], stage'["dsp"], pc'["rev"], stage'["rev"],
                                net'.inbuf["dsp8800"], net'.inbuf["rev8800"])
    BY <2>1 DEF ReverseLink, ReverseSession, Linked
  <2> QED
    BY <1>1, <2>2 DEF ReversePhase
<1>3. DspGets' /\ DspHolds' /\ GuiPaced'
  BY <1>1 DEF DspGets, DspHolds, GuiPaced, DspWork
<1>4. ReverseGets' /\ ReversePaced'
  BY <1>1, <1>2 DEF ReverseGets, ReversePaced
<1> QED
  BY <1>3, <1>4 DEF DataInv

\* No reversal is under way.
LEMMA NoReversal ==
  ASSUME SessionInv',
         \/ pc'["gui"] \notin {"g_ready", "g_tx", "g_rx", "g_set"}
         \/ pc'["gui"] = "g_ready" /\ pc'["dsp"] # "d_rxgui"
  PROVE  DataInv'
<1>1. GuiGets'
  BY DEF GuiGets
<1>2. CASE Live'
  <2>1. GuiPhase(pc'["gui"], stage'["gui"], pc'["dsp"], stage'["dsp"],
                 net'.inbuf["gui"], net'.inbuf["dsp5500"])
    BY <1>2 DEF SessionInv, GuiLink, GuiSession, Live
  <2>2. pc'["dsp"] \in DspIdle \cup {"d_ready"}
    BY <2>1 DEF GuiPhase
  <2>3. pc'["dsp"] \notin DspWork \cup {"d_rxgui", "d_txgui"}
    BY <2>2 DEF DspIdle, DspWork
  <2> QED
    BY <1>1, <2>3, DspFree
<1>3. CASE ~Live'
  BY <1>1, <1>3 DEF DataInv, DspGets, DspHolds, GuiPaced, ReverseGets, ReversePaced
<1> QED
  BY <1>2, <1>3

\* The gui has lost the dsp.
LEMMA GuiAlone ==
  ASSUME GuiGets', ~Live'
  PROVE  DataInv'
BY DEF DataInv, DspGets, DspHolds, GuiPaced, ReverseGets, ReversePaced

\* A step of the gui.
LEMMA GuiFrame ==
  ASSUME DataInv, file' = file, Still("dsp"), Still("rev"),
         net'.peer["gui"] = net.peer["gui"], Same8800(net, net'),
         GuiGets', DspGets', GuiPaced'
  PROVE  DataInv'
<1>1. Want' = Want /\ Back' = Back /\ Live' = Live /\ Linked' = Linked
  BY SameFile DEF Live, Linked, Same8800
<1>2. /\ net'.inbuf["dsp8800"] = net.inbuf["dsp8800"]
      /\ net'.inbuf["rev8800"] = net.inbuf["rev8800"]
  BY DEF Same8800
<1>3. DspHolds'
  BY <1>1, <1>2 DEF DataInv, DspHolds, Still, Got
<1>4. ReverseGets' /\ ReversePaced'
  BY <1>1, <1>2 DEF DataInv, ReverseGets, ReversePaced, Still, Got, Paced
<1> QED
  BY <1>3, <1>4 DEF DataInv

\* A step of the reverse service, or of the dsp towards it.
LEMMA BackFrame ==
  ASSUME DataInv, file' = file, Still("gui"), Still("dsp"),
         Live' => Live /\ net'.inbuf["gui"] = net.inbuf["gui"]
                       /\ net'.inbuf["dsp5500"] = net.inbuf["dsp5500"],
         GuiGets', DspHolds', ReverseGets', ReversePaced'
  PROVE  DataInv'
<1>1. Want' = Want /\ Back' = Back
  BY SameFile
<1>2. DspGets'
  BY <1>1 DEF DataInv, DspGets, Still, Got, Paced
<1>3. GuiPaced'
  BY <1>1 DEF DataInv, GuiPaced, Still, Got, Paced
<1> QED
  BY <1>2, <1>3 DEF DataInv

\* A reverse service that has not been asked, or is gone, holds nothing.
LEMMA ReverseFree ==
  ASSUME WaveTechInv, DataInv, file' = file, Still("gui"), Still("dsp"),
         Live' => Live /\ net'.inbuf["gui"] = net.inbuf["gui"]
                       /\ net'.inbuf["dsp5500"] = net.inbuf["dsp5500"],
         net'.inbuf["gui"] \in {net.inbuf["gui"], <<>>},
         net'.inbuf["dsp8800"] \in {net.inbuf["dsp8800"], <<>>},
         \/ ~Linked'
         \/ pc'["rev"] \notin {"r_rx", "r_reverse", "r_done", "r_fetch", "r_tx"}
  PROVE  DataInv'
<1>1. GuiGets'
  BY GuiGetsKept DEF DataInv
<1>2. ReverseGets' /\ ReversePaced'
  BY DEF ReverseGets, ReversePaced
<1>3. DspHolds'
  <2>1. Want' = Want /\ Back' = Back /\ Back \in Channels /\ buffer_idx["dsp"] \in Nat
    BY SameFile, DataTypes DEF Program
  <2>2. (Live' /\ pc["dsp"] = "d_rxrev") => Got("dsp", "dsp8800", Back)'
    <3> SUFFICES ASSUME Live', pc["dsp"] = "d_rxrev" PROVE Got("dsp", "dsp8800", Back)'
      OBVIOUS
    <3>1. Gets(stage["dsp"], audio["dsp"], buffer_idx["dsp"], net.inbuf["dsp8800"], Back)
      BY DEF DataInv, DspHolds, Got
    <3>2. Gets(stage["dsp"], audio["dsp"], buffer_idx["dsp"], net'.inbuf["dsp8800"], Back)
      BY <2>1, <3>1, StreamKept
    <3> QED
      BY <2>1, <3>2 DEF Got, Still
  <2> QED
    BY <2>1, <2>2 DEF DataInv, DspHolds, Still
<1> QED
  BY <1>1, <1>2, <1>3, BackFrame

-----------------------------------------------------------------------------
(***************************************************************************)
(* What each call of a pipe does, when it does not end its program         *)
(***************************************************************************)

\* The bytes b are written on socket s.
Sent(s, b) ==
  /\ net'.peer = net.peer
  /\ \A t \in Sock \ {s} :
       net'.inbuf[t] = IF t = net.peer[s] THEN net.inbuf[t] \o b ELSE net.inbuf[t]
  /\ net'.inbuf[s] \in {net.inbuf[s], <<>>}
  /\ net.peer[s] # None => net'.inbuf[s] = net.inbuf[s]

\* Something is read from socket s.
Received(s) ==
  /\ net'.peer = net.peer /\ net.inbuf[s] # <<>>
  /\ \A t \in Sock \ {s} : net'.inbuf[t] = net.inbuf[t]

\* Only program p moves, to call l, stage st and cursor i.
Turn(p, l, st, i) ==
  /\ pc'[p] = l /\ stage'[p] = st /\ buffer_idx'[p] = i
  /\ file' = file
  /\ \A q \in Program \ {p} : Still(q)

LEMMA WriteSends ==
  ASSUME WaveTechInv, SessionInv, NEW s \in Sock, NEW b, net' = Write(net, s, b)
  PROVE  Sent(s, b)
<1>1. /\ net'.peer = net.peer
      /\ \A t \in Sock :
           net'.inbuf[t] = IF t = net.peer[s] THEN net.inbuf[t] \o b
                           ELSE IF t = s /\ net.peer[s] = None THEN <<>>
                           ELSE net.inbuf[t]
  BY SessionTypes, WriteEffect DEF SessionInv
<1>2. net.peer[s] # s
  <2>1. Wired(net)
    BY DEF SessionInv
  <2> QED
    BY <2>1 DEF Wired, Sock, None
<1> QED
  BY <1>1, <1>2 DEF Sent

\* A call of send_audio writes a chunk.
LEMMA ChunkSent ==
  ASSUME WaveTechInv, SessionInv, NEW p \in Program, SendChunk(p),
         NEW ch, ch = Outgoing(p)[ChannelIn(stage[p])],
         NEW idx, idx = buffer_idx[p]
  PROVE  /\ stage[p] \in {"left", "right"}
         /\ ch \in Seq(Float) /\ idx \in Nat /\ Multiple(idx)
         /\ idx < Len(Cells(ch))
         /\ audio' = audio
         /\ Sent(Site(p).sock, AudioBytes(Chunk(ch, idx)))
         /\ IF ~LastChunk(ch, idx) THEN Turn(p, pc[p], stage[p], idx + CHUNK_SIZE)
            ELSE IF stage[p] = "left" THEN Turn(p, pc[p], "confirm", 0)
            ELSE Turn(p, Site(p).next, "left", 0)
<1>1. /\ In(p, "send_audio") /\ stage[p] \in {"left", "right"}
      /\ pc[p] \in LabelsOf(p)
  BY SessionTypes DEF SendChunk, WaveTechInv, ProgramInv
<1>2. ChannelOf(p) = ChannelIn(stage[p])
  BY DEF ChannelOf, ChannelIn
<1>3. ch = Outgoing(p)[ChannelOf(p)]
  BY <1>2
<1>4. /\ idx \in Nat /\ ch \in Seq(Float) /\ Multiple(idx)
      /\ idx < Len(Cells(ch)) /\ Site(p).sock \in Sock
  BY <1>1, <1>3, OutgoingType, SendAudioSites DEF WaveTechInv, ProgramInv, SharedInv
<1> DEFINE c == Chunk(ch, idx)
           s == Site(p).sock
<1>5. /\ net' = IF c = <<>> THEN net ELSE Write(net, s, AudioBytes(c))
      /\ IF ~LastChunk(ch, idx)
         THEN /\ buffer_idx' = [buffer_idx EXCEPT ![p] = idx + CHUNK_SIZE]
              /\ UNCHANGED <<pc, stage>>
         ELSE IF stage[p] = "left" THEN Advance(p, "confirm") /\ UNCHANGED pc
         ELSE Advance(p, "left") /\ Goto(p, Site(p).next)
      /\ UNCHANGED <<audio, file>>
  BY <1>3 DEF SendChunk
<1>6. Sent(s, AudioBytes(c))
  <2>1. CASE c = <<>>
    <3>1. c \in Seq(Float) /\ Len(c) = 0 /\ FLOAT_BYTES \in Nat
      BY <2>1, StreamAssumption
    <3> HIDE DEF c
    <3>2. AudioBytes(c) \in Seq(Byte) /\ Len(AudioBytes(c)) = 0
      <4>1. /\ AudioBytes(c) \in Seq(Byte)
            /\ Len(AudioBytes(c)) = Len(c) * FLOAT_BYTES
        BY <3>1, AudioBytesIndex
      <4>2. Len(c) * FLOAT_BYTES = 0
        BY <3>1
      <4> QED
        BY <4>1, <4>2
    <3>3. AudioBytes(c) = <<>>
      <4>1. \A b \in Seq(Byte) : Len(b) = 0 => b = <<>>
        OBVIOUS
      <4> QED
        BY <3>2, <4>1
    <3>4. \A t \in Sock : net.inbuf[t] \o <<>> = net.inbuf[t]
      BY SessionTypes
    <3>5. net' = net
      BY <1>5, <2>1 DEF c
    <3> QED
      BY <3>3, <3>4, <3>5 DEF Sent
  <2>2. CASE c # <<>>
    BY <1>4, <1>5, <2>2, WriteSends
  <2> QED
    BY <2>1, <2>2
<1>7. IF ~LastChunk(ch, idx) THEN Turn(p, pc[p], stage[p], idx + CHUNK_SIZE)
      ELSE IF stage[p] = "left" THEN Turn(p, pc[p], "confirm", 0)
      ELSE Turn(p, Site(p).next, "left", 0)
  <2>1. /\ pc \in [Program -> Label] /\ buffer_idx \in [Program -> Nat]
        /\ stage \in [Program -> {"left", "confirm", "right"}]
    BY DEF WaveTechInv, SharedInv
  <2> QED
    BY <1>5, <2>1 DEF Turn, Still, Advance, Goto
<1> QED
  BY <1>1, <1>4, <1>5, <1>6, <1>7

\* A call of recv_audio reads a chunk.
LEMMA ChunkRead ==
  ASSUME WaveTechInv, SessionInv, NEW p \in Program, RecvChunk(p),
         ~EndWith(p, "crashed")
  PROVE  LET s == Site(p).sock
         IN  /\ stage[p] \in {"left", "right"} /\ Received(s)
             /\ \E n, f :
                  /\ ReadOf(stage[p], audio[p], buffer_idx[p], net.inbuf[s],
                            n, f, audio'[p], net'.inbuf[s])
                  /\ IF Len(f) = CHUNK_SIZE
                     THEN Turn(p, pc[p], stage[p], buffer_idx[p] + CHUNK_SIZE)
                     ELSE IF stage[p] = "left" THEN Turn(p, pc[p], "confirm", 0)
                     ELSE Turn(p, Site(p).next, "left", 0)
<1> DEFINE s == Site(p).sock
           k == Held(stage[p], audio[p], buffer_idx[p])
<1>1. /\ In(p, "recv_audio") /\ stage[p] \in {"left", "right"}
      /\ pc[p] \in LabelsOf(p)
  BY SessionTypes DEF RecvChunk, WaveTechInv, ProgramInv
<1>2. PICK n \in ReadSizes(Len(net.inbuf[s]), CHUNK_SIZE * FLOAT_BYTES) :
        LET floats    == Floats(SubSeq(net.inbuf[s], 1, n))
            first     == stage[p] = "left" /\ buffer_idx[p] = 0
            container == IF first THEN Empty ELSE audio[p]
        IN
        /\ net' = Take(net, s, n)
        /\ audio' = [audio EXCEPT ![p] =
                       [container EXCEPT ![ChannelOf(p)] = @ \o floats]]
        /\ IF Len(floats) = CHUNK_SIZE
           THEN /\ buffer_idx' = [buffer_idx EXCEPT ![p] = @ + CHUNK_SIZE]
                /\ UNCHANGED <<pc, stage>>
           ELSE IF stage[p] = "left"
           THEN Advance(p, "confirm") /\ UNCHANGED pc
           ELSE Advance(p, "left") /\ Goto(p, Site(p).next)
        /\ UNCHANGED <<file, loaded, commands>>
  BY DEF RecvChunk
<1> DEFINE f == Floats(SubSeq(net.inbuf[s], 1, n))
<1>3. ChannelOf(p) = ChannelIn(stage[p])
  BY DEF ChannelOf, ChannelIn
<1>4. /\ net' = Take(net, s, n)
      /\ audio' = [audio EXCEPT ![p] = [k EXCEPT ![ChannelIn(stage[p])] = @ \o f]]
      /\ IF Len(f) = CHUNK_SIZE
         THEN /\ buffer_idx' = [buffer_idx EXCEPT ![p] = buffer_idx[p] + CHUNK_SIZE]
              /\ UNCHANGED <<pc, stage>>
         ELSE IF stage[p] = "left" THEN Advance(p, "confirm") /\ UNCHANGED pc
         ELSE Advance(p, "left") /\ Goto(p, Site(p).next)
      /\ file' = file
  BY <1>2, <1>3 DEF Held
<1>5. s \in Sock /\ CHUNK_SIZE * FLOAT_BYTES \in Nat \ {0}
  <2>1. s \in Sock
    BY <1>1, RecvAudioTable DEF Sock
  <2> QED
    BY <2>1, StreamAssumption
<1>6. /\ net.inbuf[s] # <<>> /\ net'.peer = net.peer
      /\ net'.inbuf[s] = SubSeq(net.inbuf[s], n + 1, Len(net.inbuf[s]))
      /\ \A t \in Sock \ {s} : net'.inbuf[t] = net.inbuf[t]
  BY <1>4, <1>5, Reads
<1>7. /\ pc \in [Program -> Label] /\ buffer_idx \in [Program -> Nat]
      /\ stage \in [Program -> {"left", "confirm", "right"}]
      /\ audio \in [Program -> Channels]
  BY DEF WaveTechInv, SharedInv
<1>8. /\ audio'[p] = [k EXCEPT ![ChannelIn(stage[p])] = @ \o f]
      /\ \A q \in Program \ {p} : audio'[q] = audio[q]
  BY <1>4, <1>7, Zenon
<1>9. ReadOf(stage[p], audio[p], buffer_idx[p], net.inbuf[s], n, f,
             audio'[p], net'.inbuf[s])
  BY <1>2, <1>6, <1>8, Zenon DEF ReadOf
<1> HIDE DEF f, k, s
<1>10. IF Len(f) = CHUNK_SIZE
       THEN Turn(p, pc[p], stage[p], buffer_idx[p] + CHUNK_SIZE)
       ELSE IF stage[p] = "left" THEN Turn(p, pc[p], "confirm", 0)
       ELSE Turn(p, Site(p).next, "left", 0)
  <2>1. \A q \in Program \ {p} : audio'[q] = audio[q]
    BY <1>8
  <2>2. /\ IF Len(f) = CHUNK_SIZE
           THEN /\ buffer_idx' = [buffer_idx EXCEPT ![p] = buffer_idx[p] + CHUNK_SIZE]
                /\ UNCHANGED <<pc, stage>>
           ELSE IF stage[p] = "left" THEN Advance(p, "confirm") /\ UNCHANGED pc
           ELSE Advance(p, "left") /\ Goto(p, Site(p).next)
        /\ file' = file
    BY <1>4
  <2> QED
    BY <1>7, <2>1, <2>2 DEF Turn, Still, Advance, Goto
<1>11. Received(s)
  BY <1>6 DEF Received
<1> QED
  BY <1>1, <1>9, <1>10, <1>11 DEF s

\* A call of send_audio reads the confirmation.
LEMMA ConfirmationRead ==
  ASSUME WholeReads, WaveTechInv, SessionInv, NEW p \in Program,
         RecvConfirmation(p), ~EndWith(p, "crashed")
  PROVE  LET s == Site(p).sock
         IN  /\ stage[p] = "confirm" /\ Received(s) /\ audio' = audio
             /\ net.inbuf[s] = TextBytes("CONFIRMED") =>
                  Turn(p, pc[p], "right", 0) /\ net'.inbuf[s] = <<>>
<1> DEFINE s == Site(p).sock
<1>1. In(p, "send_audio") /\ stage[p] = "confirm"
  BY DEF RecvConfirmation
<1>2. PICK n \in ReadSizes(Len(net.inbuf[s]), RECV_CAP) :
        /\ net' = Take(net, s, n)
        /\ IF SubSeq(net.inbuf[s], 1, n) = TextBytes("CONFIRMED")
           THEN Advance(p, "right") /\ UNCHANGED pc
           ELSE Advance(p, "left") /\ Goto(p, Site(p).next)
        /\ UNCHANGED <<audio, file>>
  BY DEF RecvConfirmation
<1>3. s \in Sock /\ RECV_CAP \in Nat \ {0} /\ "CONFIRMED" \in Message
  BY <1>1, SendAudioTable, StreamAssumption DEF Sock, Message
<1>4. /\ net.inbuf[s] # <<>> /\ net'.peer = net.peer
      /\ net'.inbuf[s] = SubSeq(net.inbuf[s], n + 1, Len(net.inbuf[s]))
      /\ \A t \in Sock \ {s} : net'.inbuf[t] = net.inbuf[t]
  BY <1>2, <1>3, Reads
<1>5. ASSUME net.inbuf[s] = TextBytes("CONFIRMED")
      PROVE  Turn(p, pc[p], "right", 0) /\ net'.inbuf[s] = <<>>
  <2>1. SubSeq(net.inbuf[s], 1, n) = TextBytes("CONFIRMED") /\ net'.inbuf[s] = <<>>
    BY <1>3, <1>4, <1>5, ReadText
  <2>2. /\ Advance(p, "right") /\ UNCHANGED pc /\ UNCHANGED <<audio, file>>
    BY <1>2, <2>1
  <2>3. /\ pc \in [Program -> Label] /\ buffer_idx \in [Program -> Nat]
        /\ stage \in [Program -> {"left", "confirm", "right"}]
    BY DEF WaveTechInv, SharedInv
  <2> QED
    BY <2>1, <2>2, <2>3 DEF Turn, Still, Advance
<1> QED
  BY <1>1, <1>2, <1>4, <1>5 DEF Received

\* A call of recv_audio sends it.
LEMMA ConfirmationSent ==
  ASSUME WaveTechInv, SessionInv, NEW p \in Program, SendConfirmation(p),
         ~EndWith(p, "crashed")
  PROVE  /\ stage[p] = "confirm" /\ audio' = audio
         /\ Sent(Site(p).sock, TextBytes("CONFIRMED"))
         /\ Turn(p, pc[p], "right", 0)
<1> DEFINE s == Site(p).sock
<1>1. In(p, "recv_audio") /\ stage[p] = "confirm"
  BY DEF SendConfirmation
<1>2. /\ net' = Write(net, s, TextBytes("CONFIRMED"))
      /\ Advance(p, "right") /\ UNCHANGED <<pc, audio, file>>
  BY DEF SendConfirmation
<1>3. s \in Sock
  BY <1>1, RecvAudioTable DEF Sock
<1>4. Sent(s, TextBytes("CONFIRMED"))
  BY <1>2, <1>3, WriteSends
<1>5. /\ pc \in [Program -> Label] /\ buffer_idx \in [Program -> Nat]
      /\ stage \in [Program -> {"left", "confirm", "right"}]
  BY DEF WaveTechInv, SharedInv
<1> QED
  BY <1>1, <1>2, <1>4, <1>5 DEF Turn, Still, Advance

\* A message is sent.
LEMMA MessageSent ==
  ASSUME WaveTechInv, SessionInv, NEW p \in Program, SendMessage(p),
         ~EndWith(p, "crashed")
  PROVE  /\ In(p, "send_message") /\ audio' = audio
         /\ Sent(Site(p).sock, TextBytes(Site(p).text))
         /\ Turn(p, Site(p).next, stage[p], buffer_idx[p])
         /\ stage[p] = "left" /\ buffer_idx[p] = 0
<1>1. In(p, "send_message") /\ pc[p] \in LabelsOf(p)
  BY DEF SendMessage, WaveTechInv, ProgramInv
<1>2. /\ net' = Write(net, Site(p).sock, TextBytes(Site(p).text))
      /\ Goto(p, Site(p).next)
      /\ UNCHANGED <<stage, buffer_idx, audio, file>>
  BY DEF SendMessage
<1>3. Site(p).sock \in Sock /\ pc[p] \notin SendAudioLabel \cup RecvAudioLabel \cup EndLabel
  BY <1>1, SendSites
<1>4. stage[p] = "left" /\ buffer_idx[p] = 0
  BY <1>3 DEF WaveTechInv, ProgramInv
<1>5. pc \in [Program -> Label]
  BY DEF WaveTechInv, SharedInv
<1>6. Turn(p, Site(p).next, stage[p], buffer_idx[p])
  BY <1>2, <1>5 DEF Turn, Still, Goto
<1> QED
  BY <1>1, <1>2, <1>3, <1>4, <1>6, WriteSends

\* A message is received.
LEMMA MessageRead ==
  ASSUME WaveTechInv, SessionInv, NEW p \in Program, RecvMessage(p),
         ~EndWith(p, "crashed")
  PROVE  LET s == Site(p).sock
         IN  /\ In(p, "recv_message") /\ Received(s) /\ audio' = audio
             /\ stage[p] = "left" /\ buffer_idx[p] = 0
             /\ \E n \in ReadSizes(Len(net.inbuf[s]), RECV_CAP) :
                  /\ Turn(p, AfterText(pc[p], SubSeq(net.inbuf[s], 1, n)),
                          stage[p], buffer_idx[p])
                  /\ net'.inbuf[s] = SubSeq(net.inbuf[s], n + 1, Len(net.inbuf[s]))
<1> DEFINE s == Site(p).sock
<1>1. In(p, "recv_message") /\ pc[p] \in LabelsOf(p)
  BY DEF RecvMessage, WaveTechInv, ProgramInv
<1>2. PICK n \in ReadSizes(Len(net.inbuf[s]), RECV_CAP) :
        /\ Goto(p, AfterText(pc[p], SubSeq(net.inbuf[s], 1, n)))
        /\ net' = Take(net, s, n)
        /\ UNCHANGED <<stage, buffer_idx, audio, file>>
  BY DEF RecvMessage
<1>3. s \in Sock /\ RECV_CAP \in Nat \ {0}
  BY <1>1, RecvTable, StreamAssumption DEF Sock
<1>4. /\ net.inbuf[s] # <<>> /\ net'.peer = net.peer
      /\ net'.inbuf[s] = SubSeq(net.inbuf[s], n + 1, Len(net.inbuf[s]))
      /\ \A t \in Sock \ {s} : net'.inbuf[t] = net.inbuf[t]
  BY <1>2, <1>3, Reads
<1>5. stage[p] = "left" /\ buffer_idx[p] = 0
  <2>1. pc[p] \notin SendAudioLabel \cup RecvAudioLabel \cup EndLabel
    BY <1>1, RecvTable DEF SendAudioLabel, RecvAudioLabel, EndLabel
  <2> QED
    BY <2>1 DEF WaveTechInv, ProgramInv
<1>6. pc \in [Program -> Label]
  BY DEF WaveTechInv, SharedInv
<1>7. Turn(p, AfterText(pc[p], SubSeq(net.inbuf[s], 1, n)), stage[p], buffer_idx[p])
  BY <1>2, <1>6 DEF Turn, Still, Goto
<1> QED
  BY <1>1, <1>2, <1>4, <1>5, <1>7 DEF Received

-----------------------------------------------------------------------------
(***************************************************************************)
(* Where a write and a read show                                           *)
(***************************************************************************)

\* What the dialogues say of the two connections.
LEMMA Phases ==
  ASSUME SessionInv
  PROVE  /\ Live => GuiPhase(pc["gui"], stage["gui"], pc["dsp"], stage["dsp"],
                             net.inbuf["gui"], net.inbuf["dsp5500"])
         /\ Linked => ReversePhase(pc["dsp"], stage["dsp"], pc["rev"], stage["rev"],
                                   net.inbuf["dsp8800"], net.inbuf["rev8800"])
         /\ GuiFinds(net.inbuf["gui"], pc["gui"], stage["gui"])
         /\ DspFinds(net.inbuf["dsp5500"], pc["dsp"], stage["dsp"])
         /\ ClientFinds(net.inbuf["dsp8800"], pc["dsp"], stage["dsp"])
         /\ ReverseFinds(net.inbuf["rev8800"], pc["rev"], stage["rev"])
BY DEF SessionInv, GuiLink, ReverseLink, GuiSession, ReverseSession, Live, Linked

\* Who is at the other end.
LEMMA OtherEnd ==
  ASSUME NEW n, Wired(n)
  PROVE  /\ n.peer["gui"] = "dsp5500" <=> n.peer["dsp5500"] = "gui"
         /\ n.peer["dsp8800"] = "rev8800" <=> n.peer["rev8800"] = "dsp8800"
         /\ n.peer["gui"] \in {None, "pend5500", "dsp5500"}
         /\ n.peer["dsp5500"] \in {None, "gui"}
         /\ n.peer["dsp8800"] \in {None, "pend8800", "rev8800"}
         /\ n.peer["rev8800"] \in {None, "dsp8800"}
<1>1. /\ "gui" \in Sock /\ "dsp5500" \in Sock /\ "dsp8800" \in Sock
      /\ "rev8800" \in Sock
  BY DEF Sock
<1> QED
  BY <1>1 DEF Wired, None

LEMMA SentByGui ==
  ASSUME SessionInv, NEW b, Sent("gui", b)
  PROVE  /\ Live' = Live /\ Linked' = Linked /\ Same8800(net, net')
         /\ net'.peer["gui"] = net.peer["gui"]
         /\ Live => /\ net'.inbuf["gui"] = net.inbuf["gui"]
                    /\ net'.inbuf["dsp5500"] = net.inbuf["dsp5500"] \o b
         /\ net'.inbuf["gui"] \in {net.inbuf["gui"], <<>>}
<1>1. Wired(net)
  BY DEF SessionInv
<1>2. /\ net'.peer = net.peer /\ Live' = Live /\ Linked' = Linked
      /\ net'.inbuf["dsp5500"] =
           IF "dsp5500" = net.peer["gui"] THEN net.inbuf["dsp5500"] \o b ELSE net.inbuf["dsp5500"]
      /\ net'.inbuf["dsp8800"] =
           IF "dsp8800" = net.peer["gui"] THEN net.inbuf["dsp8800"] \o b ELSE net.inbuf["dsp8800"]
      /\ net'.inbuf["rev8800"] =
           IF "rev8800" = net.peer["gui"] THEN net.inbuf["rev8800"] \o b ELSE net.inbuf["rev8800"]
      /\ net'.inbuf["pend8800"] =
           IF "pend8800" = net.peer["gui"] THEN net.inbuf["pend8800"] \o b ELSE net.inbuf["pend8800"]
      /\ net'.inbuf["gui"] \in {net.inbuf["gui"], <<>>}
      /\ net.peer["gui"] # None => net'.inbuf["gui"] = net.inbuf["gui"]
  BY DEF Sent, Live, Linked, Sock
<1> QED
  BY <1>1, <1>2, OtherEnd DEF Live, Same8800, None

LEMMA SentByDsp ==
  ASSUME SessionInv, NEW b, Sent("dsp5500", b)
  PROVE  /\ Live' = Live /\ Linked' = Linked /\ Same8800(net, net')
         /\ Live => /\ net'.inbuf["gui"] = net.inbuf["gui"] \o b
                    /\ net'.inbuf["dsp5500"] = net.inbuf["dsp5500"]
         /\ ~Live => net'.inbuf["gui"] = net.inbuf["gui"]
<1>1. Wired(net)
  BY DEF SessionInv
<1>2. /\ net'.peer = net.peer /\ Live' = Live /\ Linked' = Linked
      /\ net'.inbuf["gui"] =
           IF "gui" = net.peer["dsp5500"] THEN net.inbuf["gui"] \o b ELSE net.inbuf["gui"]
      /\ net'.inbuf["dsp8800"] =
           IF "dsp8800" = net.peer["dsp5500"] THEN net.inbuf["dsp8800"] \o b ELSE net.inbuf["dsp8800"]
      /\ net'.inbuf["rev8800"] =
           IF "rev8800" = net.peer["dsp5500"] THEN net.inbuf["rev8800"] \o b ELSE net.inbuf["rev8800"]
      /\ net'.inbuf["pend8800"] =
           IF "pend8800" = net.peer["dsp5500"] THEN net.inbuf["pend8800"] \o b ELSE net.inbuf["pend8800"]
      /\ net'.inbuf["dsp5500"] \in {net.inbuf["dsp5500"], <<>>}
      /\ net.peer["dsp5500"] # None => net'.inbuf["dsp5500"] = net.inbuf["dsp5500"]
  BY DEF Sent, Live, Linked, Sock
<1> QED
  BY <1>1, <1>2, OtherEnd DEF Live, Same8800, None

LEMMA SentByClient ==
  ASSUME SessionInv, NEW b, Sent("dsp8800", b)
  PROVE  /\ Live' = Live /\ Linked' = Linked /\ Same5500(net, net')
         /\ Linked => /\ net'.inbuf["dsp8800"] = net.inbuf["dsp8800"]
                      /\ net'.inbuf["rev8800"] = net.inbuf["rev8800"] \o b
         /\ net'.inbuf["dsp8800"] \in {net.inbuf["dsp8800"], <<>>}
<1>1. Wired(net)
  BY DEF SessionInv
<1>2. /\ net'.peer = net.peer /\ Live' = Live /\ Linked' = Linked
      /\ net'.inbuf["rev8800"] =
           IF "rev8800" = net.peer["dsp8800"] THEN net.inbuf["rev8800"] \o b ELSE net.inbuf["rev8800"]
      /\ net'.inbuf["gui"] =
           IF "gui" = net.peer["dsp8800"] THEN net.inbuf["gui"] \o b ELSE net.inbuf["gui"]
      /\ net'.inbuf["dsp5500"] =
           IF "dsp5500" = net.peer["dsp8800"] THEN net.inbuf["dsp5500"] \o b ELSE net.inbuf["dsp5500"]
      /\ net'.inbuf["pend5500"] =
           IF "pend5500" = net.peer["dsp8800"] THEN net.inbuf["pend5500"] \o b ELSE net.inbuf["pend5500"]
      /\ net'.inbuf["dsp8800"] \in {net.inbuf["dsp8800"], <<>>}
      /\ net.peer["dsp8800"] # None => net'.inbuf["dsp8800"] = net.inbuf["dsp8800"]
  BY DEF Sent, Live, Linked, Sock
<1> QED
  BY <1>1, <1>2, OtherEnd DEF Linked, Same5500, None

LEMMA SentByReverse ==
  ASSUME SessionInv, NEW b, Sent("rev8800", b)
  PROVE  /\ Live' = Live /\ Linked' = Linked /\ Same5500(net, net')
         /\ Linked => /\ net'.inbuf["dsp8800"] = net.inbuf["dsp8800"] \o b
                      /\ net'.inbuf["rev8800"] = net.inbuf["rev8800"]
         /\ ~Linked => net'.inbuf["dsp8800"] = net.inbuf["dsp8800"]
<1>1. Wired(net)
  BY DEF SessionInv
<1>2. /\ net'.peer = net.peer /\ Live' = Live /\ Linked' = Linked
      /\ net'.inbuf["dsp8800"] =
           IF "dsp8800" = net.peer["rev8800"] THEN net.inbuf["dsp8800"] \o b ELSE net.inbuf["dsp8800"]
      /\ net'.inbuf["gui"] =
           IF "gui" = net.peer["rev8800"] THEN net.inbuf["gui"] \o b ELSE net.inbuf["gui"]
      /\ net'.inbuf["dsp5500"] =
           IF "dsp5500" = net.peer["rev8800"] THEN net.inbuf["dsp5500"] \o b ELSE net.inbuf["dsp5500"]
      /\ net'.inbuf["pend5500"] =
           IF "pend5500" = net.peer["rev8800"] THEN net.inbuf["pend5500"] \o b ELSE net.inbuf["pend5500"]
      /\ net'.inbuf["rev8800"] \in {net.inbuf["rev8800"], <<>>}
      /\ net.peer["rev8800"] # None => net'.inbuf["rev8800"] = net.inbuf["rev8800"]
  BY DEF Sent, Live, Linked, Sock
<1> QED
  BY <1>1, <1>2, OtherEnd DEF Linked, Same5500, None

LEMMA ReceivedBy ==
  ASSUME NEW s, Received(s)
  PROVE  /\ Live' = Live /\ Linked' = Linked /\ net.inbuf[s] # <<>>
         /\ s \in {"gui", "dsp5500"} => Same8800(net, net')
         /\ s \in {"dsp8800", "rev8800"} => Same5500(net, net')
         /\ s # "gui" => net'.inbuf["gui"] = net.inbuf["gui"]
         /\ s # "dsp5500" => net'.inbuf["dsp5500"] = net.inbuf["dsp5500"]
         /\ s # "dsp8800" => net'.inbuf["dsp8800"] = net.inbuf["dsp8800"]
         /\ s # "rev8800" => net'.inbuf["rev8800"] = net.inbuf["rev8800"]
<1>1. Live' = Live /\ Linked' = Linked /\ net.inbuf[s] # <<>> /\ net'.peer = net.peer
  BY DEF Received, Live, Linked
<1>2. \A t \in {"gui", "dsp5500", "pend5500", "dsp8800", "rev8800", "pend8800"} :
        t # s => net'.inbuf[t] = net.inbuf[t]
  BY DEF Received, Sock
<1> QED
  BY <1>1, <1>2 DEF Same8800, Same5500

-----------------------------------------------------------------------------
(***************************************************************************)
(* The connections come and go                                             *)
(***************************************************************************)

\* Connections that end take the rest of their streams with them.
LEMMA LossesOnly ==
  ASSUME NEW m, Wired(m), Shrunk(net, m),
         \A s \in Sock \ {"dsp8800", "pend8800"} :
           net'.peer[s] = m.peer[s] /\ net'.inbuf[s] = m.inbuf[s]
  PROVE  /\ net'.inbuf["gui"] \in {net.inbuf["gui"], <<>>}
         /\ Live' => /\ Live /\ net'.inbuf["gui"] = net.inbuf["gui"]
                     /\ net'.inbuf["dsp5500"] = net.inbuf["dsp5500"]
<1>1. m.peer["gui"] = "dsp5500" => m.peer["dsp5500"] = "gui"
  BY OtherEnd
<1> QED
  BY <1>1 DEF Shrunk, Live, Sock, None

\* A program ends.
LEMMA DataEnds ==
  ASSUME WaveTechInv, SessionInv, DataInv, SessionInv',
         NEW p \in Program, NEW l \in EndLabel \cup {"r_bind"}, EndWith(p, l)
  PROVE  DataInv'
<1>1. /\ net' = CloseAll(net, p) /\ file' = file
      /\ pc'[p] = l /\ \A q \in Program \ {p} : Still(q)
  BY SessionTypes DEF EndWith, Goto, Still
<1>2. /\ Wired(net') /\ Shrunk(net, net')
      /\ \A s \in SocketsOf(p) : Shut(net', s)
  BY <1>1, SessionTypes, CloseAllShrinks DEF SessionInv
<1>3. /\ net'.inbuf["gui"] \in {net.inbuf["gui"], <<>>}
      /\ Live' => /\ Live /\ net'.inbuf["gui"] = net.inbuf["gui"]
                  /\ net'.inbuf["dsp5500"] = net.inbuf["dsp5500"]
  BY <1>2, LossesOnly
<1>4. CASE p = "gui"
  BY <1>1, <1>4, NoReversal DEF EndLabel
<1>5. CASE p = "dsp"
  <2>1. GuiGets'
    BY <1>1, <1>3, <1>5, GuiGetsKept DEF DataInv, Program
  <2>2. pc'["dsp"] \notin DspWork \cup {"d_rxgui", "d_txgui"}
    BY <1>1, <1>5 DEF EndLabel, DspWork
  <2> QED
    BY <2>1, <2>2, DspFree
<1>6. CASE p = "rev"
  <2>1. pc'["rev"] \notin {"r_rx", "r_reverse", "r_done", "r_fetch", "r_tx"}
    BY <1>1, <1>6 DEF EndLabel
  <2>2. net'.inbuf["dsp8800"] \in {net.inbuf["dsp8800"], <<>>}
    BY <1>2 DEF Shrunk, Sock
  <2>3. Still("gui") /\ Still("dsp")
    BY <1>1, <1>6 DEF Program
  <2> QED
    BY <1>1, <1>3, <2>1, <2>2, <2>3, ReverseFree
<1> QED
  BY <1>4, <1>5, <1>6 DEF Program

\* An acceptor comes.
LEMMA DataBind ==
  ASSUME WaveTechInv, SessionInv, DataInv, SessionInv',
         NEW p \in Program, Bind(p)
  PROVE  DataInv'
<1>1. pc[p] \in LabelsOf(p) /\ net \in NetOf(Byte)
  BY SessionTypes DEF WaveTechInv, ProgramInv
<1>2. /\ \/ p = "dsp" /\ pc'[p] = "d_accept" /\ net' = Listen(net, 5500)
         \/ p = "rev" /\ pc'[p] = "r_accept" /\ net' = Listen(net, 8800)
      /\ file' = file /\ \A q \in Program \ {p} : Still(q)
  BY <1>1, SessionTypes
     DEF Bind, Goto, Still, LabelsOf, GuiLabel, DspLabel, ReverseLabel, EndLabel, Program
<1>3. Wired(net') /\ Shrunk(net, net')
  BY <1>1, <1>2, ListenSockets DEF SessionInv, Port
<1>4. /\ net'.inbuf["gui"] \in {net.inbuf["gui"], <<>>}
      /\ Live' => /\ Live /\ net'.inbuf["gui"] = net.inbuf["gui"]
                  /\ net'.inbuf["dsp5500"] = net.inbuf["dsp5500"]
      /\ net'.inbuf["dsp8800"] \in {net.inbuf["dsp8800"], <<>>}
  BY <1>3, LossesOnly DEF Shrunk, Sock
<1>5. CASE p = "dsp"
  <2>1. GuiGets'
    BY <1>2, <1>4, <1>5, GuiGetsKept DEF DataInv, Program
  <2>2. pc'["dsp"] \notin DspWork \cup {"d_rxgui", "d_txgui"}
    BY <1>2, <1>5 DEF DspWork
  <2> QED
    BY <2>1, <2>2, DspFree
<1>6. CASE p = "rev"
  <2>1. pc'["rev"] \notin {"r_rx", "r_reverse", "r_done", "r_fetch", "r_tx"}
    BY <1>2, <1>6
  <2>2. Still("gui") /\ Still("dsp")
    BY <1>2, <1>6 DEF Program
  <2> QED
    BY <1>2, <1>4, <2>1, <2>2, ReverseFree
<1> QED
  BY <1>2, <1>5, <1>6

\* A client is accepted.
LEMMA DataAccept ==
  ASSUME WaveTechInv, SessionInv, DataInv, SessionInv',
         NEW p \in Program, AcceptClient(p)
  PROVE  DataInv'
<1>1. pc[p] \in LabelsOf(p) /\ net \in NetOf(Byte) /\ Wired(net)
  BY SessionTypes DEF WaveTechInv, ProgramInv, SessionInv
<1>2. /\ \/ /\ p = "dsp" /\ pc[p] = "d_accept" /\ pc'[p] = "d_loop"
            /\ CanAccept(net, 5500) /\ net' = Accept(net, "dsp5500", 5500)
         \/ /\ p = "rev" /\ pc[p] = "r_accept" /\ pc'[p] = "r_recv"
            /\ CanAccept(net, 8800) /\ net' = Accept(net, "rev8800", 8800)
      /\ file' = file /\ \A q \in Program \ {p} : Still(q)
  BY <1>1, SessionTypes
     DEF AcceptClient, Goto, Still, LabelsOf, GuiLabel, DspLabel, ReverseLabel,
         EndLabel, Program
<1>3. Pending(5500) = "pend5500" /\ Pending(8800) = "pend8800"
  BY DEF Pending
<1>4. CASE p = "dsp"
  <2>1. net.status["dsp5500"] = "closed"
    BY <1>2, <1>4 DEF SessionInv, DspUp
  <2>2. \A t \in Sock \ {"dsp5500", "pend5500"} : net'.inbuf[t] = net.inbuf[t]
    BY <1>1, <1>2, <1>3, <1>4, <2>1, AcceptEffect
  <2>3. net'.inbuf["gui"] = net.inbuf["gui"] /\ Still("gui")
    BY <1>2, <1>4, <2>2 DEF Sock, Program
  <2>4. GuiGets'
    BY <1>2, <2>3, GuiGetsKept DEF DataInv
  <2>5. pc'["dsp"] \notin DspWork \cup {"d_rxgui", "d_txgui"}
    BY <1>2, <1>4 DEF DspWork
  <2> QED
    BY <2>4, <2>5, DspFree
<1>5. CASE p = "rev"
  <2>1. net.status["rev8800"] = "closed"
    BY <1>2, <1>5 DEF SessionInv, ReverseUp
  <2>2. /\ \A t \in Sock \ {"rev8800", "pend8800"} : net'.inbuf[t] = net.inbuf[t]
        /\ \A t \in Sock \ {"rev8800", "pend8800", "dsp8800"} :
             net'.peer[t] = net.peer[t]
    BY <1>1, <1>2, <1>3, <1>5, <2>1, AcceptEffect
  <2>3. /\ net'.inbuf["gui"] = net.inbuf["gui"] /\ Live' = Live
        /\ net'.inbuf["dsp5500"] = net.inbuf["dsp5500"]
        /\ net'.inbuf["dsp8800"] = net.inbuf["dsp8800"]
    BY <2>2 DEF Sock, Live
  <2>4. pc'["rev"] \notin {"r_rx", "r_reverse", "r_done", "r_fetch", "r_tx"}
    BY <1>2, <1>5
  <2>5. Still("gui") /\ Still("dsp")
    BY <1>2, <1>5 DEF Program
  <2> QED
    BY <1>2, <2>3, <2>4, <2>5, ReverseFree
<1> QED
  BY <1>2, <1>4, <1>5

\* The dsp is not talking to the reverse service about samples.
LEMMA BackIdle ==
  ASSUME SessionInv',
         pc'["dsp"] \notin {"d_started", "d_txrev", "d_done", "d_fetch", "d_rxrev"}
  PROVE  ReverseGets' /\ ReversePaced'
<1>1. Linked' => pc'["rev"] \in {"r_recv", "r_disc", "r_xdisc"}
  <2>1. ReverseLink(net', pc'["dsp"], stage'["dsp"], pc'["rev"], stage'["rev"])
    BY DEF SessionInv
  <2>2. Linked' => ReversePhase(pc'["dsp"], stage'["dsp"], pc'["rev"], stage'["rev"],
                                net'.inbuf["dsp8800"], net'.inbuf["rev8800"])
    BY <2>1 DEF ReverseLink, ReverseSession, Linked
  <2> QED
    BY <2>2 DEF ReversePhase
<1> QED
  BY <1>1 DEF ReverseGets, ReversePaced

\* The dsp deals with the reverse service.
LEMMA DspFrame ==
  ASSUME WaveTechInv, DataInv, file' = file, Still("gui"),
         pc["dsp"] \in DspWork \cup {"d_rxgui"}, pc'["dsp"] \in DspWork,
         net'.inbuf["gui"] \in {net.inbuf["gui"], <<>>}, Live' => Live,
         DspHolds', ReverseGets', ReversePaced'
  PROVE  DataInv'
<1>1. GuiGets'
  BY GuiGetsKept DEF DataInv
<1>2. DspGets'
  BY DEF DspGets, DspWork
<1>3. GuiPaced'
  BY DEF DataInv, GuiPaced, DspWork, Still
<1> QED
  BY <1>1, <1>2, <1>3 DEF DataInv

\* The dsp connects to the reverse service.
LEMMA DataConnect ==
  ASSUME WaveTechInv, SessionInv, DataInv, SessionInv',
         NEW p \in Program, ConnectReverse(p)
  PROVE  DataInv'
<1>1. /\ pc[p] \in LabelsOf(p) /\ net \in NetOf(Byte) /\ Wired(net)
      /\ pc[p] \in {"d_connect", "d_xconnect"} /\ BacklogFree(net, 8800)
  BY SessionTypes DEF WaveTechInv, ProgramInv, ConnectReverse, SessionInv
<1>2. p = "dsp"
  BY <1>1 DEF LabelsOf, GuiLabel, ReverseLabel, EndLabel, Program
<1>3. CASE EndWith(p, "crashed")
  BY <1>3, DataEnds DEF EndLabel
<1>4. CASE ~EndWith(p, "crashed")
  <2>1. net' = Connect(net, "dsp8800", 8800) /\ UNCHANGED <<stage, buffer_idx, audio, file>>
    BY <1>4 DEF ConnectReverse
  <2>2. Goto(p, IF pc[p] = "d_connect" THEN "d_run" ELSE "d_stop")
    BY <1>4 DEF ConnectReverse
  <2>3. /\ pc'["dsp"] = IF pc["dsp"] = "d_connect" THEN "d_run" ELSE "d_stop"
        /\ Still("gui") /\ audio' = audio /\ file' = file
    BY <1>2, <2>1, <2>2, SessionTypes DEF Goto, Still, Program
  <2> DEFINE k == Close(net, "dsp8800")
  <2>4. /\ Wired(k) /\ Shrunk(net, k) /\ net'.peer["dsp8800"] = "pend8800"
        /\ \A t \in Sock \ {"dsp8800", "pend8800"} :
             net'.peer[t] = k.peer[t] /\ net'.inbuf[t] = k.inbuf[t]
    BY <1>1, <2>1, ConnectEffect
  <2> HIDE DEF k
  <2>5. net'.inbuf["gui"] \in {net.inbuf["gui"], <<>>} /\ (Live' => Live) /\ ~Linked'
    BY <2>4, LossesOnly DEF Linked
  <2>6. CASE pc["dsp"] = "d_connect"
    <3>1. pc'["dsp"] = "d_run"
      BY <2>3, <2>6
    <3>2. ReverseGets' /\ ReversePaced'
      BY <3>1, BackIdle
    <3>3. Want' = Want
      BY <2>3, SameFile
    <3>4. DspHolds'
      BY <2>3, <2>5, <2>6, <3>1, <3>3 DEF DataInv, DspHolds
    <3>5. pc["dsp"] \in DspWork \cup {"d_rxgui"} /\ pc'["dsp"] \in DspWork
      BY <2>6, <3>1 DEF DspWork
    <3> QED
      BY <2>3, <2>5, <3>2, <3>4, <3>5, DspFrame
  <2>7. CASE pc["dsp"] = "d_xconnect"
    <3>1. GuiGets'
      BY <2>3, <2>5, GuiGetsKept DEF DataInv
    <3>2. pc'["dsp"] \notin DspWork \cup {"d_rxgui", "d_txgui"}
      BY <2>3, <2>7 DEF DspWork
    <3> QED
      BY <3>1, <3>2, DspFree
  <2> QED
    BY <1>1, <1>2, <2>6, <2>7
<1> QED
  BY <1>3, <1>4

\* disconnect, and the end of the pipe.
LEMMA DataDisconnect ==
  ASSUME WaveTechInv, SessionInv, DataInv, SessionInv',
         NEW p \in Program, Disconnect(p) \/ DropPipe(p)
  PROVE  DataInv'
<1>1. \/ \E l \in EndLabel \cup {"r_bind"} : EndWith(p, l)
      \/ /\ pc[p] = "r_disc" /\ Goto(p, "r_drop")
         /\ net' = Close(net, IF p = "dsp" THEN "dsp5500" ELSE "rev8800")
         /\ UNCHANGED <<stage, buffer_idx, audio, file>>
  BY DEF Disconnect, DropPipe, EndLabel
<1>2. CASE \E l \in EndLabel \cup {"r_bind"} : EndWith(p, l)
  BY <1>2, DataEnds
<1>3. CASE /\ pc[p] = "r_disc" /\ Goto(p, "r_drop")
           /\ net' = Close(net, IF p = "dsp" THEN "dsp5500" ELSE "rev8800")
           /\ UNCHANGED <<stage, buffer_idx, audio, file>>
  <2>1. pc[p] \in LabelsOf(p) /\ net \in NetOf(Byte) /\ Wired(net)
    BY SessionTypes DEF WaveTechInv, ProgramInv, SessionInv
  <2>2. p = "rev" /\ net' = Close(net, "rev8800")
    BY <1>3, <2>1 DEF LabelsOf, GuiLabel, DspLabel, EndLabel, Program
  <2>3. Wired(net') /\ Shrunk(net, net')
    BY <2>1, <2>2, CloseShrinks DEF Sock
  <2>4. /\ net'.inbuf["gui"] \in {net.inbuf["gui"], <<>>}
        /\ Live' => /\ Live /\ net'.inbuf["gui"] = net.inbuf["gui"]
                    /\ net'.inbuf["dsp5500"] = net.inbuf["dsp5500"]
        /\ net'.inbuf["dsp8800"] \in {net.inbuf["dsp8800"], <<>>}
    BY <2>3, LossesOnly DEF Shrunk, Sock
  <2>5. pc'["rev"] = "r_drop" /\ Still("gui") /\ Still("dsp") /\ file' = file
    BY <1>3, <2>2, SessionTypes DEF Goto, Still, Program
  <2>6. pc'["rev"] \notin {"r_rx", "r_reverse", "r_done", "r_fetch", "r_tx"}
    BY <2>5
  <2> QED
    BY <2>4, <2>5, <2>6, ReverseFree
<1> QED
  BY <1>1, <1>2, <1>3

\* What the user does, and what the gui does outside a reversal.
LEMMA DataUser ==
  ASSUME WaveTechInv, SessionInv, DataInv, SessionInv',
         StartGui \/ User \/ SetAudioBuffer("gui") \/ Quit("gui")
  PROVE  DataInv'
<1>1. pc \in [Program -> Label] /\ "gui" \in Program
  BY SessionTypes DEF Program
<1>2. pc'["gui"] \in {"menu", "g_reverse", "g_stretch", "g_shift", "g_exit",
                      "crashed", "exited"}
  <2>1. CASE StartGui
    BY <1>1, <2>1 DEF StartGui, EndWith, Goto
  <2>2. CASE User
    <3>1. CASE pc' = pc
      BY <2>2, <3>1 DEF User
    <3>2. ASSUME NEW cmd \in Command \ {"load"}, Choose(cmd)
          PROVE  pc'["gui"] \in {"g_reverse", "g_stretch", "g_shift", "g_exit"}
      BY <1>1, <3>2 DEF Choose, Goto, Command
    <3> QED
      BY <2>2, <3>1, <3>2 DEF User, Load
  <2>3. CASE SetAudioBuffer("gui")
    BY <1>1, <2>3 DEF SetAudioBuffer, EndWith, Goto
  <2>4. CASE Quit("gui")
    BY <1>1, <2>4 DEF Quit, EndWith, Goto
  <2> QED
    BY <2>1, <2>2, <2>3, <2>4
<1> QED
  BY <1>2, NoReversal

\* A program is started again.
LEMMA DataRestart ==
  ASSUME WaveTechInv, SessionInv, DataInv, SessionInv',
         NEW p \in Program, Restart(p)
  PROVE  DataInv'
<1>1. /\ pc'[p] = Entry[p] /\ net' = net
      /\ p # "gui" => file' = file
      /\ \A q \in Program \ {p} : Still(q)
  <2>1. /\ stage \in [Program -> {"left", "confirm", "right"}]
        /\ buffer_idx \in [Program -> Nat] /\ audio \in [Program -> Channels]
    BY DEF WaveTechInv, SharedInv
  <2> QED
    BY <2>1, SessionTypes DEF Restart, Goto, Advance, Still
<1>2. CASE p = "gui"
  BY <1>1, <1>2, NoReversal DEF Entry
<1>3. CASE p = "dsp"
  <2>1. GuiGets'
    BY <1>1, <1>3, GuiGetsKept DEF DataInv, Program
  <2>2. pc'["dsp"] \notin DspWork \cup {"d_rxgui", "d_txgui"}
    BY <1>1, <1>3 DEF DspWork, Entry
  <2> QED
    BY <2>1, <2>2, DspFree
<1>4. CASE p = "rev"
  <2>1. pc'["rev"] \notin {"r_rx", "r_reverse", "r_done", "r_fetch", "r_tx"}
    BY <1>1, <1>4 DEF Entry
  <2>2. Still("gui") /\ Still("dsp") /\ file' = file /\ Live' = Live
    BY <1>1, <1>4 DEF Program, Live
  <2> QED
    BY <1>1, <2>1, <2>2, ReverseFree
<1> QED
  BY <1>2, <1>3, <1>4 DEF Program

-----------------------------------------------------------------------------
(***************************************************************************)
(* The gui in a reversal                                                   *)
(***************************************************************************)
LEMMA PhasesNext ==
  ASSUME SessionInv'
  PROVE  /\ Live' => GuiPhase(pc'["gui"], stage'["gui"], pc'["dsp"], stage'["dsp"],
                              net'.inbuf["gui"], net'.inbuf["dsp5500"])
         /\ Linked' => ReversePhase(pc'["dsp"], stage'["dsp"], pc'["rev"], stage'["rev"],
                                    net'.inbuf["dsp8800"], net'.inbuf["rev8800"])
BY DEF SessionInv, GuiLink, ReverseLink, GuiSession, ReverseSession, Live, Linked

\* Programs other than the one that moves.
LEMMA OthersStill ==
  ASSUME NEW p, NEW l, NEW st, NEW i, Turn(p, l, st, i)
  PROVE  /\ file' = file /\ Want' = Want /\ Back' = Back
         /\ pc'[p] = l /\ stage'[p] = st /\ buffer_idx'[p] = i
         /\ p # "gui" => Still("gui")
         /\ p # "dsp" => Still("dsp")
         /\ p # "rev" => Still("rev")
BY SameFile DEF Turn, Program

\* The gui sends a command.
LEMMA DataGuiSend ==
  ASSUME WaveTechInv, SessionInv, DataInv, SessionInv',
         SendMessage("gui"), ~EndWith("gui", "crashed")
  PROVE  DataInv'
<1>1. /\ In("gui", "send_message") /\ Sent(Site("gui").sock, TextBytes(Site("gui").text))
      /\ Turn("gui", Site("gui").next, stage["gui"], buffer_idx["gui"])
  BY MessageSent DEF Program
<1>2. pc["gui"] \in {"g_exit", "g_stretch", "g_shift", "g_reverse", "g_ready",
                     "g_tx", "g_rx"}
  <2>1. pc["gui"] \in DOMAIN GuiCalls \cup DOMAIN DspCalls \cup DOMAIN ReverseCalls
    BY <1>1 DEF In, Calls
  <2>2. pc["gui"] \in GuiLabel
    BY DEF WaveTechInv, ProgramInv, LabelsOf, Program
  <2> QED
    BY <2>1, <2>2, Domains DEF GuiLabel, EndLabel
<1>3. /\ Site("gui").sock = "gui"
      /\ \/ Site("gui").next \in {"g_quit", "menu"}
         \/ Site("gui").next = "g_ready" /\ pc["gui"] = "g_reverse"
  BY <1>1, <1>2, GuiSites DEF In, Site, Send, Recv, SendAudio, RecvAudio
<1>4. pc'["gui"] = Site("gui").next /\ Still("dsp") /\ Live' = Live
  BY <1>1, <1>3, OthersStill, SentByGui
<1>5. CASE pc'["gui"] \in {"g_quit", "menu"}
  BY <1>5, NoReversal
<1>6. CASE pc'["gui"] = "g_ready" /\ pc["gui"] = "g_reverse"
  <2>1. CASE Live
    <3>1. pc["dsp"] \in DspIdle
      BY <1>6, <2>1, Phases DEF GuiPhase
    <3>2. pc'["dsp"] # "d_rxgui"
      BY <1>4, <3>1 DEF Still, DspIdle
    <3> QED
      BY <1>6, <3>2, NoReversal
  <2>2. CASE ~Live
    <3>1. GuiGets'
      BY <1>6 DEF GuiGets
    <3> QED
      BY <1>4, <2>2, <3>1, GuiAlone
  <2> QED
    BY <2>1, <2>2
<1> QED
  BY <1>3, <1>4, <1>5, <1>6

\* The dsp has answered "ready".
LEMMA DataGuiRecv ==
  ASSUME WaveTechInv, SessionInv, DataInv, SessionInv',
         RecvMessage("gui"), ~EndWith("gui", "crashed")
  PROVE  DataInv'
<1>1. In("gui", "recv_message") /\ "gui" \in Program
  BY DEF RecvMessage, Program
<1>2. pc["gui"] = "g_ready" /\ Site("gui").sock = "gui"
  BY <1>1, RecvTable
<1>3. /\ Received("gui") /\ audio' = audio
      /\ \E n \in ReadSizes(Len(net.inbuf["gui"]), RECV_CAP) :
           Turn("gui", AfterText("g_ready", SubSeq(net.inbuf["gui"], 1, n)),
                stage["gui"], buffer_idx["gui"])
  BY <1>1, <1>2, MessageRead
<1>4. Turn("gui", "g_tx", stage["gui"], buffer_idx["gui"])
  BY <1>3, AfterTexts
<1>5. /\ file' = file /\ Want' = Want /\ pc'["gui"] = "g_tx"
      /\ stage'["gui"] = stage["gui"] /\ buffer_idx'["gui"] = buffer_idx["gui"]
      /\ Still("dsp") /\ Still("rev")
  BY <1>4, OthersStill
<1>6. /\ Live' = Live /\ Same8800(net, net') /\ net'.peer["gui"] = net.peer["gui"]
      /\ net'.inbuf["dsp5500"] = net.inbuf["dsp5500"]
  BY <1>3, ReceivedBy DEF Received
<1>7. GuiGets'
  BY <1>5 DEF GuiGets
<1>8. DspGets'
  <2>1. (Live /\ pc["dsp"] = "d_rxgui") =>
          Got("dsp", "dsp5500", Want) /\ Paced("gui", "dsp", "dsp5500", Want)
    BY <1>2 DEF DataInv, DspGets
  <2> QED
    BY <1>5, <1>6, <2>1 DEF DspGets, Got, Paced, Still
<1>9. GuiPaced'
  <2>1. Live' => pc'["dsp"] = "d_rxgui"
    BY <1>5, PhasesNext DEF GuiPhase, GuiIdle
  <2> QED
    BY <1>5, <2>1 DEF GuiPaced
<1> QED
  BY <1>5, <1>6, <1>7, <1>8, <1>9, GuiFrame

\* The gui sends a chunk of the file.
LEMMA DataGuiChunk ==
  ASSUME WaveTechInv, SessionInv, DataInv, SessionInv', SendChunk("gui")
  PROVE  DataInv'
<1> DEFINE gs == stage["gui"]
           ch == file[ChannelIn(gs)]
           idx == buffer_idx["gui"]
<1>1. "gui" \in Program /\ In("gui", "send_audio") /\ ch = Outgoing("gui")[ChannelIn(gs)]
  BY DEF SendChunk, Program, Outgoing
<1>2. pc["gui"] = "g_tx" /\ Site("gui").sock = "gui" /\ Site("gui").next = "g_rx"
  BY <1>1, SendAudioTable
<1>3. /\ gs \in {"left", "right"} /\ ch \in Seq(Float) /\ idx \in Nat
      /\ Multiple(idx) /\ idx < Len(Cells(ch)) /\ audio' = audio
      /\ Sent("gui", AudioBytes(Chunk(ch, idx)))
      /\ IF ~LastChunk(ch, idx) THEN Turn("gui", "g_tx", gs, idx + CHUNK_SIZE)
         ELSE IF gs = "left" THEN Turn("gui", "g_tx", "confirm", 0)
         ELSE Turn("gui", "g_rx", "left", 0)
  BY <1>1, <1>2, ChunkSent
<1>4. ChannelIn(gs) \in 1 .. 2
  BY DEF ChannelIn
<1>5. Cells(ch) = Want[ChannelIn(gs)] /\ Want \in Channels /\ Back \in Channels
  BY <1>4, DataTypes
<1> HIDE DEF gs, ch, idx
<1>6. /\ file' = file /\ Want' = Want /\ Back' = Back /\ Still("dsp") /\ Still("rev")
      /\ IF ~LastChunk(ch, idx)
         THEN /\ pc'["gui"] = "g_tx" /\ stage'["gui"] = gs
              /\ buffer_idx'["gui"] = idx + CHUNK_SIZE
         ELSE IF gs = "left"
         THEN /\ pc'["gui"] = "g_tx" /\ stage'["gui"] = "confirm"
              /\ buffer_idx'["gui"] = 0
         ELSE /\ pc'["gui"] = "g_rx" /\ stage'["gui"] = "left"
              /\ buffer_idx'["gui"] = 0
  BY <1>3, OthersStill
<1>7. /\ Live' = Live /\ Same8800(net, net') /\ net'.peer["gui"] = net.peer["gui"]
      /\ Live => net'.inbuf["dsp5500"]
                   = net.inbuf["dsp5500"] \o AudioBytes(Chunk(ch, idx))
      /\ net'.inbuf["gui"] \in {net.inbuf["gui"], <<>>}
  BY <1>3, SentByGui
<1>8. GuiGets'
  <2>1. CASE pc'["gui"] = "g_tx"
    BY <2>1 DEF GuiGets
  <2>2. CASE pc'["gui"] = "g_rx" /\ stage'["gui"] = "left" /\ buffer_idx'["gui"] = 0
    <3>1. net.inbuf["gui"] = <<>>
      BY <1>2, <1>3, Phases DEF GuiFinds, gs
    <3>2. Gets("left", audio'["gui"], 0, <<>>, Back)
      BY <1>5, StreamStarts
    <3>3. Got("gui", "gui", Back)'
      BY <1>6, <1>7, <2>2, <3>1, <3>2 DEF Got
    <3> QED
      BY <2>2, <3>3 DEF GuiGets
  <2> QED
    BY <1>6, <2>1, <2>2
<1>9. DspGets'
  <2> SUFFICES ASSUME Live, pc["dsp"] = "d_rxgui"
               PROVE  /\ Got("dsp", "dsp5500", Want)'
                      /\ pc'["gui"] # "g_rx" => Paced("gui", "dsp", "dsp5500", Want)'
    BY <1>6, <1>7 DEF DspGets, Still
  <2> DEFINE in2 == net'.inbuf["dsp5500"]
  <2>1. Transfer(gs, stage["dsp"], net.inbuf["gui"], net.inbuf["dsp5500"])
    BY <1>2, Phases DEF GuiPhase, GuiIdle, gs
  <2>2. Pace(gs, idx, stage["dsp"], buffer_idx["dsp"], audio["dsp"],
             net.inbuf["dsp5500"], Want)
    BY <1>2 DEF DataInv, DspGets, Paced, gs, idx
  <2>3. net.inbuf["dsp5500"] \in Seq(Byte) /\ buffer_idx["dsp"] \in Nat
    BY DataTypes DEF Sock, Program
  <2>4. /\ Gets(stage["dsp"], audio["dsp"], buffer_idx["dsp"], in2, Want)
        /\ ~LastChunk(ch, idx) \/ gs = "left" =>
             Pace(stage'["gui"], buffer_idx'["gui"], stage["dsp"], buffer_idx["dsp"],
                  audio["dsp"], in2, Want)
    <3>1. IF ~LastChunk(ch, idx)
          THEN stage'["gui"] = gs /\ buffer_idx'["gui"] = idx + CHUNK_SIZE
          ELSE gs = "left" => stage'["gui"] = "confirm"
      BY <1>6
    <3>2. in2 = net.inbuf["dsp5500"] \o AudioBytes(Chunk(ch, idx))
      BY <1>7
    <3> HIDE DEF in2
    <3> QED
      BY <1>3, <1>5, <2>1, <2>2, <2>3, <3>1, <3>2, PaceFed
  <2> QED
    BY <1>6, <2>4 DEF Got, Paced, Still
<1>10. GuiPaced'
  <2>1. Live => pc["dsp"] = "d_rxgui"
    BY <1>2, Phases DEF GuiPhase, GuiIdle
  <2> QED
    BY <1>6, <1>7, <2>1 DEF GuiPaced, Still
<1> QED
  BY <1>6, <1>7, <1>8, <1>9, <1>10, GuiFrame

\* The gui gets the confirmation.
LEMMA DataGuiConfirmed ==
  ASSUME WholeReads, WaveTechInv, SessionInv, DataInv, SessionInv',
         RecvConfirmation("gui"), ~EndWith("gui", "crashed")
  PROVE  DataInv'
<1>1. "gui" \in Program /\ In("gui", "send_audio") /\ stage["gui"] = "confirm"
  BY DEF RecvConfirmation, Program
<1>2. pc["gui"] = "g_tx" /\ Site("gui").sock = "gui"
  BY <1>1, SendAudioTable
<1>3. /\ Received("gui") /\ audio' = audio
      /\ net.inbuf["gui"] = TextBytes("CONFIRMED") => Turn("gui", "g_tx", "right", 0)
  BY <1>1, <1>2, ConfirmationRead
<1>4. /\ Live' = Live /\ Same8800(net, net') /\ net'.peer["gui"] = net.peer["gui"]
      /\ net'.inbuf["dsp5500"] = net.inbuf["dsp5500"] /\ net.inbuf["gui"] # <<>>
  BY <1>3, ReceivedBy DEF Received
<1>5. net.inbuf["gui"] = TextBytes("CONFIRMED")
  BY <1>1, <1>2, <1>4, Phases DEF GuiFinds
<1>6. /\ file' = file /\ Want' = Want /\ pc'["gui"] = "g_tx"
      /\ stage'["gui"] = "right" /\ buffer_idx'["gui"] = 0
      /\ Still("dsp") /\ Still("rev")
  BY <1>3, <1>5, OthersStill
<1>7. GuiGets'
  BY <1>6 DEF GuiGets
<1>8. DspGets'
  <2> SUFFICES ASSUME Live, pc["dsp"] = "d_rxgui"
               PROVE  /\ Got("dsp", "dsp5500", Want)'
                      /\ Paced("gui", "dsp", "dsp5500", Want)'
    BY <1>4, <1>6 DEF DspGets, Still
  <2>1. Transfer("confirm", stage["dsp"], net.inbuf["gui"], net.inbuf["dsp5500"])
    BY <1>1, <1>2, Phases DEF GuiPhase, GuiIdle
  <2>2. Pace("confirm", buffer_idx["gui"], stage["dsp"], buffer_idx["dsp"],
             audio["dsp"], net.inbuf["dsp5500"], Want)
    BY <1>1, <1>2 DEF DataInv, DspGets, Paced
  <2>3. Gets(stage["dsp"], audio["dsp"], buffer_idx["dsp"], net.inbuf["dsp5500"], Want)
    BY DEF DataInv, DspGets, Got
  <2>4. Want \in Channels /\ buffer_idx["dsp"] \in Nat
    BY DataTypes DEF Program
  <2>5. Pace("right", 0, stage["dsp"], buffer_idx["dsp"], audio["dsp"],
             net.inbuf["dsp5500"], Want)
    BY <1>4, <2>1, <2>2, <2>3, <2>4, PaceConfirmed
  <2> QED
    BY <1>4, <1>6, <2>3, <2>5 DEF Got, Paced, Still
<1>9. GuiPaced'
  <2>1. Live => pc["dsp"] = "d_rxgui"
    BY <1>2, Phases DEF GuiPhase, GuiIdle
  <2> QED
    BY <1>4, <1>6, <2>1 DEF GuiPaced, Still
<1> QED
  BY <1>4, <1>6, <1>7, <1>8, <1>9, GuiFrame

\* The gui reads a chunk of the reversal.
LEMMA DataGuiRead ==
  ASSUME WholeReads, WaveTechInv, SessionInv, DataInv, SessionInv',
         RecvChunk("gui"), ~EndWith("gui", "crashed")
  PROVE  DataInv'
<1> DEFINE gs == stage["gui"]
           idx == buffer_idx["gui"]
           in == net.inbuf["gui"]
           con == audio["gui"]
           con2 == audio'["gui"]
           rest == net'.inbuf["gui"]
<1>1. "gui" \in Program /\ In("gui", "recv_audio")
  BY DEF RecvChunk, Program
<1>2. pc["gui"] = "g_rx" /\ Site("gui").sock = "gui" /\ Site("gui").next = "g_set"
  BY <1>1, RecvAudioTable
<1>3. /\ gs \in {"left", "right"} /\ Received("gui")
      /\ \E n, f :
           /\ ReadOf(gs, con, idx, in, n, f, con2, rest)
           /\ IF Len(f) = CHUNK_SIZE
              THEN Turn("gui", "g_rx", gs, idx + CHUNK_SIZE)
              ELSE IF gs = "left" THEN Turn("gui", "g_rx", "confirm", 0)
              ELSE Turn("gui", "g_set", "left", 0)
  BY <1>1, <1>2, ChunkRead
<1>4. PICK n, f :
        /\ ReadOf(gs, con, idx, in, n, f, con2, rest)
        /\ IF Len(f) = CHUNK_SIZE
           THEN Turn("gui", "g_rx", gs, idx + CHUNK_SIZE)
           ELSE IF gs = "left" THEN Turn("gui", "g_rx", "confirm", 0)
           ELSE Turn("gui", "g_set", "left", 0)
  BY <1>3
<1>5. /\ file' = file /\ Back' = Back /\ Want' = Want /\ Still("dsp") /\ Still("rev")
      /\ IF Len(f) = CHUNK_SIZE
         THEN /\ pc'["gui"] = "g_rx" /\ stage'["gui"] = gs
              /\ buffer_idx'["gui"] = idx + CHUNK_SIZE
         ELSE IF gs = "left"
         THEN /\ pc'["gui"] = "g_rx" /\ stage'["gui"] = "confirm"
              /\ buffer_idx'["gui"] = 0
         ELSE pc'["gui"] = "g_set"
  BY <1>4, OthersStill
<1>6. /\ Live' = Live /\ Same8800(net, net') /\ net'.peer["gui"] = net.peer["gui"]
      /\ in # <<>>
  BY <1>3, ReceivedBy DEF Received
<1>7. /\ Back \in Channels /\ con \in Channels /\ idx \in Nat /\ in \in Seq(Byte)
      /\ buffer_idx["dsp"] \in Nat
  BY DataTypes DEF Program, Sock
<1>8. Gets(gs, con, idx, in, Back)
  BY <1>2 DEF DataInv, GuiGets, Got
<1>9. GuiGets'
  <2>1. /\ Len(f) = CHUNK_SIZE => Gets(gs, con2, idx + CHUNK_SIZE, rest, Back)
        /\ (Len(f) # CHUNK_SIZE /\ gs = "left") => Gets("confirm", con2, 0, rest, Back)
        /\ (Len(f) # CHUNK_SIZE /\ gs = "right") => con2 = Back
    <3> HIDE DEF gs, idx, in, con, con2, rest
    <3> QED
      BY <1>3, <1>4, <1>7, <1>8, StreamRead
  <2>2. CASE Len(f) = CHUNK_SIZE
    BY <1>5, <2>1, <2>2 DEF GuiGets, Got
  <2>3. CASE Len(f) # CHUNK_SIZE /\ gs = "left"
    BY <1>5, <2>1, <2>3 DEF GuiGets, Got
  <2>4. CASE Len(f) # CHUNK_SIZE /\ gs = "right"
    BY <1>5, <2>1, <2>4 DEF GuiGets
  <2> QED
    BY <1>3, <2>2, <2>3, <2>4
<1>10. Live => \/ pc["dsp"] = "d_txgui" /\ Transfer(stage["dsp"], gs, net.inbuf["dsp5500"], in)
               \/ pc["dsp"] \in DspIdle
  BY <1>2, <1>6, Phases DEF GuiPhase, GuiIdle
<1>11. DspGets'
  BY <1>5, <1>6, <1>10 DEF DspGets, Still, DspIdle
<1>12. GuiPaced'
  <2> SUFFICES ASSUME Live, pc["dsp"] = "d_txgui"
               PROVE  Paced("dsp", "gui", "gui", Back)'
    BY <1>5, <1>6, <1>10 DEF GuiPaced, Still, DspIdle, DspWork
  <2>1. Transfer(stage["dsp"], gs, net.inbuf["dsp5500"], in)
    BY <1>10 DEF DspIdle
  <2>2. Pace(stage["dsp"], buffer_idx["dsp"], gs, idx, con, in, Back)
    BY DEF DataInv, GuiPaced, Paced
  <2>3. CASE Len(f) = CHUNK_SIZE
    <3>1. Pace(stage["dsp"], buffer_idx["dsp"], gs, idx + CHUNK_SIZE, con2, rest, Back)
      <4> HIDE DEF gs, idx, in, con, con2, rest
      <4> QED
        BY <1>3, <1>4, <1>7, <1>8, <2>1, <2>2, <2>3, PaceRead
    <3> QED
      BY <1>5, <2>3, <3>1 DEF Paced, Still
  <2>4. CASE Len(f) # CHUNK_SIZE /\ gs = "left"
    <3>1. Pace(stage["dsp"], buffer_idx["dsp"], "confirm", 0, con2, rest, Back)
      BY PaceConfirms
    <3> QED
      BY <1>5, <2>4, <3>1 DEF Paced, Still
  <2>5. CASE Len(f) # CHUNK_SIZE /\ gs = "right"
    <3>1. pc'["gui"] = "g_set" /\ pc'["dsp"] = "d_txgui" /\ Live'
      BY <1>5, <1>6, <2>5 DEF Still
    <3> QED
      BY <3>1, PhasesNext DEF GuiPhase, DspIdle
  <2> QED
    BY <1>3, <2>3, <2>4, <2>5
<1> QED
  BY <1>5, <1>6, <1>9, <1>11, <1>12, GuiFrame

\* The gui confirms the left channel.
LEMMA DataGuiConfirms ==
  ASSUME WaveTechInv, SessionInv, DataInv, SessionInv',
         SendConfirmation("gui"), ~EndWith("gui", "crashed")
  PROVE  DataInv'
<1>1. "gui" \in Program /\ In("gui", "recv_audio") /\ stage["gui"] = "confirm"
  BY DEF SendConfirmation, Program
<1>2. pc["gui"] = "g_rx" /\ Site("gui").sock = "gui"
  BY <1>1, RecvAudioTable
<1>3. /\ audio' = audio /\ Sent("gui", TextBytes("CONFIRMED"))
      /\ Turn("gui", "g_rx", "right", 0)
  BY <1>1, <1>2, ConfirmationSent
<1>4. /\ file' = file /\ Back' = Back /\ pc'["gui"] = "g_rx"
      /\ stage'["gui"] = "right" /\ buffer_idx'["gui"] = 0
      /\ Still("dsp") /\ Still("rev")
  BY <1>3, OthersStill
<1>5. /\ Live' = Live /\ Same8800(net, net') /\ net'.peer["gui"] = net.peer["gui"]
      /\ net'.inbuf["gui"] = <<>>
  <2>1. net.inbuf["gui"] = <<>>
    BY <1>1, <1>2, Phases DEF GuiFinds
  <2> QED
    BY <1>3, <2>1, SentByGui
<1>6. GuiGets'
  <2>1. Back \in Channels /\ buffer_idx["gui"] = 0
    BY <1>1, DataTypes DEF WaveTechInv, ProgramInv
  <2>2. Gets("confirm", audio["gui"], 0, net.inbuf["gui"], Back)
    BY <1>1, <1>2, <2>1 DEF DataInv, GuiGets, Got
  <2>3. Gets("right", audio["gui"], 0, <<>>, Back)
    BY <2>1, <2>2, StreamConfirmed
  <2> QED
    BY <1>3, <1>4, <1>5, <2>3 DEF GuiGets, Got
<1>7. Live => /\ pc["dsp"] = "d_txgui"
              /\ Transfer(stage["dsp"], "confirm", net.inbuf["dsp5500"], net.inbuf["gui"])
  BY <1>1, <1>2, Phases DEF GuiPhase, GuiIdle
<1>8. DspGets'
  BY <1>4, <1>5, <1>7 DEF DspGets, Still
<1>9. GuiPaced'
  <2>1. Live => Pace(stage["dsp"], buffer_idx["dsp"], "right", 0, audio["gui"], <<>>, Back)
    BY <1>7, PaceConfirms
  <2> QED
    BY <1>3, <1>4, <1>5, <1>7, <2>1 DEF GuiPaced, Paced, Still, DspWork
<1> QED
  BY <1>4, <1>5, <1>6, <1>8, <1>9, GuiFrame

-----------------------------------------------------------------------------
(***************************************************************************)
(* The dsp with the gui                                                    *)
(***************************************************************************)

\* The dsp reads a command, or sends "exit" down.
LEMMA DataDspIdle ==
  ASSUME WaveTechInv, SessionInv, DataInv, SessionInv',
         \/ pc["dsp"] = "d_loop" /\ RecvMessage("dsp")
         \/ pc["dsp"] = "d_stop" /\ SendMessage("dsp"),
         ~EndWith("dsp", "crashed")
  PROVE  DataInv'
<1>1. "dsp" \in Program
  BY DEF Program
<1>2. /\ pc'["dsp"] \notin DspWork \cup {"d_rxgui", "d_txgui"}
      /\ file' = file /\ Still("gui") /\ net'.inbuf["gui"] = net.inbuf["gui"]
  <2>1. CASE pc["dsp"] = "d_loop" /\ RecvMessage("dsp")
    <3>1. Site("dsp").sock = "dsp5500"
      BY <2>1, DspSites DEF Site, Recv
    <3>2. /\ Received("dsp5500")
          /\ \E n \in ReadSizes(Len(net.inbuf["dsp5500"]), RECV_CAP) :
               Turn("dsp", AfterText("d_loop", SubSeq(net.inbuf["dsp5500"], 1, n)),
                    stage["dsp"], buffer_idx["dsp"])
      BY <1>1, <2>1, <3>1, MessageRead
    <3>3. PICK t : Turn("dsp", DspCommand(t), stage["dsp"], buffer_idx["dsp"])
      BY <3>2, AfterTexts
    <3>4. DspCommand(t) \in {"d_ready", "d_xconnect", "d_loop"}
      BY DEF DspCommand
    <3> QED
      BY <3>2, <3>3, <3>4, OthersStill, ReceivedBy DEF DspWork
  <2>2. CASE pc["dsp"] = "d_stop" /\ SendMessage("dsp")
    <3>1. Site("dsp").sock = "dsp8800" /\ Site("dsp").next = "d_disc"
      BY <2>2, DspSites DEF Site, Send
    <3>2. \E b : Sent("dsp8800", b)
      BY <1>1, <2>2, <3>1, MessageSent
    <3>3. Turn("dsp", "d_disc", stage["dsp"], buffer_idx["dsp"])
      BY <1>1, <2>2, <3>1, MessageSent
    <3> QED
      BY <3>2, <3>3, OthersStill, SentByClient DEF Same5500, DspWork
  <2> QED
    BY <2>1, <2>2
<1>3. GuiGets'
  BY <1>2, GuiGetsKept DEF DataInv
<1> QED
  BY <1>2, <1>3, DspFree

\* The dsp answers "ready".
LEMMA DataDspReady ==
  ASSUME WaveTechInv, SessionInv, DataInv, SessionInv',
         pc["dsp"] = "d_ready", SendMessage("dsp"), ~EndWith("dsp", "crashed")
  PROVE  DataInv'
<1>1. Site("dsp").sock = "dsp5500" /\ Site("dsp").next = "d_rxgui" /\ "dsp" \in Program
  BY DspSites DEF Site, Send, Program
<1>2. /\ audio' = audio /\ Turn("dsp", "d_rxgui", "left", 0)
      /\ \E b : Sent("dsp5500", b)
  BY <1>1, MessageSent
<1>3. /\ file' = file /\ Want' = Want /\ pc'["dsp"] = "d_rxgui"
      /\ stage'["dsp"] = "left" /\ buffer_idx'["dsp"] = 0
      /\ Still("gui") /\ Still("rev")
  BY <1>2, OthersStill
<1>4. /\ Live' = Live
      /\ Live => net'.inbuf["dsp5500"] = net.inbuf["dsp5500"]
      /\ ~Live => net'.inbuf["gui"] = net.inbuf["gui"]
  BY <1>2, SentByDsp
<1>5. CASE ~Live
  BY <1>3, <1>4, <1>5, GuiGetsKept, GuiAlone DEF DataInv
<1>6. CASE Live
  <2>1. pc["gui"] = "g_ready" /\ net.inbuf["dsp5500"] = <<>>
    BY <1>6, Phases DEF GuiPhase, DspIdle, DspWork
  <2>2. stage["gui"] = "left" /\ buffer_idx["gui"] = 0
    BY <2>1 DEF WaveTechInv, ProgramInv, Program, SendAudioLabel, RecvAudioLabel, EndLabel
  <2>3. GuiGets' /\ DspHolds' /\ GuiPaced'
    BY <1>3, <2>1 DEF GuiGets, DspHolds, GuiPaced, Still
  <2>4. /\ Gets("left", audio'["dsp"], 0, <<>>, Want)
        /\ Pace("left", 0, "left", 0, audio'["dsp"], <<>>, Want)
    BY DataTypes, StreamStarts, PaceStarts
  <2>5. DspGets'
    BY <1>3, <1>4, <1>6, <2>1, <2>2, <2>4 DEF DspGets, Got, Paced, Still
  <2>6. ReverseGets' /\ ReversePaced'
    BY <1>3, BackIdle
  <2> QED
    BY <2>3, <2>5, <2>6 DEF DataInv
<1> QED
  BY <1>5, <1>6

\* The dsp reads a chunk of the file.
LEMMA DataDspRead ==
  ASSUME WholeReads, WaveTechInv, SessionInv, DataInv, SessionInv',
         pc["dsp"] = "d_rxgui", RecvChunk("dsp"), ~EndWith("dsp", "crashed")
  PROVE  DataInv'
<1> DEFINE ds == stage["dsp"]
           idx == buffer_idx["dsp"]
           in == net.inbuf["dsp5500"]
           con == audio["dsp"]
           con2 == audio'["dsp"]
           rest == net'.inbuf["dsp5500"]
<1>1. Site("dsp").sock = "dsp5500" /\ Site("dsp").next = "d_connect" /\ "dsp" \in Program
  BY DspSites DEF Site, RecvAudio, Program
<1>2. /\ ds \in {"left", "right"} /\ Received("dsp5500")
      /\ \E n, f :
           /\ ReadOf(ds, con, idx, in, n, f, con2, rest)
           /\ IF Len(f) = CHUNK_SIZE
              THEN Turn("dsp", "d_rxgui", ds, idx + CHUNK_SIZE)
              ELSE IF ds = "left" THEN Turn("dsp", "d_rxgui", "confirm", 0)
              ELSE Turn("dsp", "d_connect", "left", 0)
  BY <1>1, ChunkRead
<1>3. PICK n, f :
        /\ ReadOf(ds, con, idx, in, n, f, con2, rest)
        /\ IF Len(f) = CHUNK_SIZE
           THEN Turn("dsp", "d_rxgui", ds, idx + CHUNK_SIZE)
           ELSE IF ds = "left" THEN Turn("dsp", "d_rxgui", "confirm", 0)
           ELSE Turn("dsp", "d_connect", "left", 0)
  BY <1>2
<1>4. /\ file' = file /\ Want' = Want /\ Still("gui") /\ Still("rev")
      /\ IF Len(f) = CHUNK_SIZE
         THEN /\ pc'["dsp"] = "d_rxgui" /\ stage'["dsp"] = ds
              /\ buffer_idx'["dsp"] = idx + CHUNK_SIZE
         ELSE IF ds = "left"
         THEN /\ pc'["dsp"] = "d_rxgui" /\ stage'["dsp"] = "confirm"
              /\ buffer_idx'["dsp"] = 0
         ELSE pc'["dsp"] = "d_connect"
  BY <1>3, OthersStill
<1>5. Live' = Live /\ in # <<>> /\ net'.inbuf["gui"] = net.inbuf["gui"]
  BY <1>2, ReceivedBy
<1>6. GuiGets'
  BY <1>4, <1>5, GuiGetsKept DEF DataInv
<1>7. CASE ~Live
  BY <1>5, <1>6, <1>7, GuiAlone
<1>8. CASE Live
  <2>1. /\ Want \in Channels /\ con \in Channels /\ idx \in Nat /\ in \in Seq(Byte)
        /\ buffer_idx["gui"] \in Nat
    BY DataTypes DEF Program, Sock
  <2>2. Gets(ds, con, idx, in, Want)
    BY <1>8 DEF DataInv, DspGets, Got
  <2>3. /\ Len(f) = CHUNK_SIZE => Gets(ds, con2, idx + CHUNK_SIZE, rest, Want)
        /\ (Len(f) # CHUNK_SIZE /\ ds = "left") => Gets("confirm", con2, 0, rest, Want)
        /\ (Len(f) # CHUNK_SIZE /\ ds = "right") => con2 = Want
    <3> HIDE DEF ds, idx, in, con, con2, rest
    <3> QED
      BY <1>2, <1>3, <2>1, <2>2, StreamRead
  <2>4. pc["gui"] # "g_rx" =>
          Transfer(stage["gui"], ds, net.inbuf["gui"], in)
    BY <1>5, <1>8, Phases DEF GuiPhase, GuiIdle, DspIdle, DspWork
  <2>5. pc["gui"] # "g_rx" =>
          Pace(stage["gui"], buffer_idx["gui"], ds, idx, con, in, Want)
    BY <1>8 DEF DataInv, DspGets, Paced
  <2>6. DspGets'
    <3>1. CASE Len(f) = CHUNK_SIZE
      <4>1. pc["gui"] # "g_rx" =>
              Pace(stage["gui"], buffer_idx["gui"], ds, idx + CHUNK_SIZE, con2, rest, Want)
        <5> HIDE DEF ds, idx, in, con, con2, rest
        <5> QED
          BY <1>2, <1>3, <2>1, <2>2, <2>4, <2>5, <3>1, PaceRead
      <4> QED
        BY <1>4, <2>3, <3>1, <4>1 DEF DspGets, Got, Paced, Still
    <3>2. CASE Len(f) # CHUNK_SIZE /\ ds = "left"
      <4>1. Pace(stage["gui"], buffer_idx["gui"], "confirm", 0, con2, rest, Want)
        BY PaceConfirms
      <4> QED
        BY <1>4, <2>3, <3>2, <4>1 DEF DspGets, Got, Paced, Still
    <3>3. CASE Len(f) # CHUNK_SIZE /\ ds = "right"
      BY <1>4, <3>3 DEF DspGets
    <3> QED
      BY <1>2, <3>1, <3>2, <3>3
  <2>7. DspHolds'
    <3>1. CASE pc'["dsp"] = "d_rxgui"
      BY <3>1 DEF DspHolds
    <3>2. CASE pc'["dsp"] = "d_connect" /\ con2 = Want
      BY <1>4, <3>2 DEF DspHolds
    <3> QED
      BY <1>2, <1>4, <2>3, <3>1, <3>2
  <2>8. pc'["dsp"] \in {"d_rxgui", "d_connect"}
    BY <1>4
  <2>9. GuiPaced'
    BY <1>4, <1>8, <2>8 DEF DataInv, GuiPaced, Still
  <2>10. ReverseGets' /\ ReversePaced'
    BY <2>8, BackIdle
  <2> QED
    BY <1>6, <2>6, <2>7, <2>9, <2>10 DEF DataInv
<1> QED
  BY <1>7, <1>8

\* The dsp confirms the left channel.
LEMMA DataDspConfirms ==
  ASSUME WaveTechInv, SessionInv, DataInv, SessionInv',
         pc["dsp"] = "d_rxgui", SendConfirmation("dsp"), ~EndWith("dsp", "crashed")
  PROVE  DataInv'
<1>1. /\ Site("dsp").sock = "dsp5500" /\ "dsp" \in Program
      /\ stage["dsp"] = "confirm"
  BY DspSites DEF Site, RecvAudio, Program, SendConfirmation
<1>2. /\ audio' = audio /\ Turn("dsp", "d_rxgui", "right", 0)
      /\ Sent("dsp5500", TextBytes("CONFIRMED"))
  BY <1>1, ConfirmationSent
<1>3. /\ file' = file /\ Want' = Want /\ pc'["dsp"] = "d_rxgui"
      /\ stage'["dsp"] = "right" /\ buffer_idx'["dsp"] = 0
      /\ Still("gui") /\ Still("rev")
  BY <1>2, OthersStill
<1>4. /\ Live' = Live
      /\ Live => net'.inbuf["dsp5500"] = net.inbuf["dsp5500"]
      /\ ~Live => net'.inbuf["gui"] = net.inbuf["gui"]
  BY <1>2, SentByDsp
<1>5. CASE ~Live
  BY <1>3, <1>4, <1>5, GuiGetsKept, GuiAlone DEF DataInv
<1>6. CASE Live
  <2>1. /\ pc["gui"] = "g_tx" /\ net.inbuf["dsp5500"] = <<>>
        /\ Transfer(stage["gui"], "confirm", net.inbuf["gui"], net.inbuf["dsp5500"])
    BY <1>1, <1>6, Phases DEF GuiPhase, DspIdle, DspWork, Transfer
  <2>2. GuiGets' /\ DspHolds' /\ GuiPaced'
    BY <1>3, <2>1 DEF GuiGets, DspHolds, GuiPaced, Still
  <2>3. Want \in Channels /\ buffer_idx["dsp"] = 0
    BY <1>1, DataTypes DEF WaveTechInv, ProgramInv
  <2>4. Gets("confirm", audio["dsp"], 0, net.inbuf["dsp5500"], Want)
    BY <1>1, <1>6, <2>3 DEF DataInv, DspGets, Got
  <2>5. /\ Gets("right", audio["dsp"], 0, <<>>, Want)
        /\ Pace(stage["gui"], buffer_idx["gui"], "right", 0, audio["dsp"], <<>>, Want)
    BY <2>1, <2>3, <2>4, StreamConfirmed, PaceConfirms
  <2>6. DspGets'
    BY <1>2, <1>3, <1>4, <1>6, <2>1, <2>5 DEF DspGets, Got, Paced, Still
  <2>7. ReverseGets' /\ ReversePaced'
    BY <1>3, BackIdle
  <2> QED
    BY <2>2, <2>6, <2>7 DEF DataInv
<1> QED
  BY <1>5, <1>6

\* The dsp sends a chunk of the reversal.
LEMMA DataDspChunk ==
  ASSUME WaveTechInv, SessionInv, DataInv, SessionInv',
         pc["dsp"] = "d_txgui", SendChunk("dsp")
  PROVE  DataInv'
<1> DEFINE ds == stage["dsp"]
           ch == audio["dsp"][ChannelIn(ds)]
           idx == buffer_idx["dsp"]
<1>1. /\ Site("dsp").sock = "dsp5500" /\ Site("dsp").next = "d_loop"
      /\ "dsp" \in Program /\ ch = Outgoing("dsp")[ChannelIn(ds)]
  BY DspSites DEF Site, SendAudio, Program, Outgoing
<1>2. /\ ds \in {"left", "right"} /\ ch \in Seq(Float) /\ idx \in Nat
      /\ Multiple(idx) /\ idx < Len(Cells(ch)) /\ audio' = audio
      /\ Sent("dsp5500", AudioBytes(Chunk(ch, idx)))
      /\ IF ~LastChunk(ch, idx) THEN Turn("dsp", "d_txgui", ds, idx + CHUNK_SIZE)
         ELSE IF ds = "left" THEN Turn("dsp", "d_txgui", "confirm", 0)
         ELSE Turn("dsp", "d_loop", "left", 0)
  BY <1>1, ChunkSent
<1>3. ChannelIn(ds) \in 1 .. 2
  BY DEF ChannelIn
<1>4. /\ Back \in Channels
      /\ audio["dsp"] = Back => Cells(ch) = Back[ChannelIn(ds)]
  BY <1>3, DataTypes
<1> HIDE DEF ds, ch, idx
<1>5. /\ file' = file /\ Want' = Want /\ Back' = Back /\ Still("gui") /\ Still("rev")
      /\ IF ~LastChunk(ch, idx)
         THEN /\ pc'["dsp"] = "d_txgui" /\ stage'["dsp"] = ds
              /\ buffer_idx'["dsp"] = idx + CHUNK_SIZE
         ELSE IF ds = "left"
         THEN pc'["dsp"] = "d_txgui" /\ stage'["dsp"] = "confirm"
         ELSE pc'["dsp"] = "d_loop"
  BY <1>2, OthersStill
<1>6. /\ Live' = Live
      /\ Live => net'.inbuf["gui"] = net.inbuf["gui"] \o AudioBytes(Chunk(ch, idx))
      /\ ~Live => net'.inbuf["gui"] = net.inbuf["gui"]
  BY <1>2, SentByDsp
<1>7. CASE ~Live
  BY <1>5, <1>6, <1>7, GuiGetsKept, GuiAlone DEF DataInv
<1>8. CASE Live
  <2> DEFINE in2 == net'.inbuf["gui"]
  <2>1. /\ pc["gui"] = "g_rx"
        /\ Transfer(ds, stage["gui"], net.inbuf["dsp5500"], net.inbuf["gui"])
    BY <1>8, Phases DEF GuiPhase, GuiIdle, DspIdle, DspWork, ds
  <2>2. /\ Pace(ds, idx, stage["gui"], buffer_idx["gui"], audio["gui"],
                net.inbuf["gui"], Back)
        /\ audio["dsp"] = Back
    BY <1>8 DEF DataInv, GuiPaced, DspHolds, Paced, ds, idx
  <2>3. net.inbuf["gui"] \in Seq(Byte) /\ buffer_idx["gui"] \in Nat
    BY DataTypes DEF Sock, Program
  <2>4. /\ Gets(stage["gui"], audio["gui"], buffer_idx["gui"], in2, Back)
        /\ ~LastChunk(ch, idx) \/ ds = "left" =>
             Pace(stage'["dsp"], buffer_idx'["dsp"], stage["gui"], buffer_idx["gui"],
                  audio["gui"], in2, Back)
    <3>1. IF ~LastChunk(ch, idx)
          THEN stage'["dsp"] = ds /\ buffer_idx'["dsp"] = idx + CHUNK_SIZE
          ELSE ds = "left" => stage'["dsp"] = "confirm"
      BY <1>5
    <3>2. in2 = net.inbuf["gui"] \o AudioBytes(Chunk(ch, idx))
      BY <1>6, <1>8
    <3> HIDE DEF in2
    <3> QED
      BY <1>2, <1>4, <2>1, <2>2, <2>3, <3>1, <3>2, PaceFed
  <2>5. GuiGets'
    BY <1>5, <2>1, <2>4 DEF GuiGets, Got, Still
  <2>6. CASE pc'["dsp"] = "d_loop"
    <3>1. pc'["dsp"] \notin DspWork \cup {"d_rxgui", "d_txgui"}
      BY <2>6 DEF DspWork
    <3> QED
      BY <2>5, <3>1, DspFree
  <2>7. CASE pc'["dsp"] = "d_txgui"
    <3>1. Pace(stage'["dsp"], buffer_idx'["dsp"], stage["gui"], buffer_idx["gui"],
               audio["gui"], in2, Back)
      BY <1>5, <2>4, <2>7
    <3>2. GuiPaced'
      BY <1>5, <2>7, <3>1 DEF GuiPaced, Paced, Still, DspWork
    <3>3. DspGets' /\ DspHolds'
      BY <1>2, <1>5, <2>2, <2>7 DEF DspGets, DspHolds
    <3>4. ReverseGets' /\ ReversePaced'
      BY <2>7, BackIdle
    <3> QED
      BY <2>5, <3>2, <3>3, <3>4 DEF DataInv
  <2> QED
    BY <1>5, <2>6, <2>7
<1> QED
  BY <1>7, <1>8

\* The dsp gets the confirmation.
LEMMA DataDspConfirmed ==
  ASSUME WholeReads, WaveTechInv, SessionInv, DataInv, SessionInv',
         pc["dsp"] = "d_txgui", RecvConfirmation("dsp"), ~EndWith("dsp", "crashed")
  PROVE  DataInv'
<1>1. /\ Site("dsp").sock = "dsp5500" /\ "dsp" \in Program
      /\ stage["dsp"] = "confirm"
  BY DspSites DEF Site, SendAudio, Program, RecvConfirmation
<1>2. /\ Received("dsp5500") /\ audio' = audio
      /\ net.inbuf["dsp5500"] = TextBytes("CONFIRMED") =>
           Turn("dsp", "d_txgui", "right", 0)
  BY <1>1, ConfirmationRead
<1>3. /\ Live' = Live /\ net'.inbuf["gui"] = net.inbuf["gui"]
      /\ net.inbuf["dsp5500"] # <<>>
  BY <1>2, ReceivedBy
<1>4. net.inbuf["dsp5500"] = TextBytes("CONFIRMED")
  BY <1>1, <1>3, Phases DEF DspFinds, DspIdle
<1>5. /\ file' = file /\ Want' = Want /\ Back' = Back /\ pc'["dsp"] = "d_txgui"
      /\ stage'["dsp"] = "right" /\ buffer_idx'["dsp"] = 0
      /\ Still("gui") /\ Still("rev")
  BY <1>2, <1>4, OthersStill
<1>6. GuiGets'
  BY <1>3, <1>5, GuiGetsKept DEF DataInv
<1>7. CASE ~Live
  BY <1>3, <1>6, <1>7, GuiAlone
<1>8. CASE Live
  <2>1. /\ pc["gui"] = "g_rx"
        /\ Transfer("confirm", stage["gui"], net.inbuf["dsp5500"], net.inbuf["gui"])
    BY <1>1, <1>8, Phases DEF GuiPhase, GuiIdle, DspIdle, DspWork
  <2>2. /\ Pace("confirm", buffer_idx["dsp"], stage["gui"], buffer_idx["gui"],
                audio["gui"], net.inbuf["gui"], Back)
        /\ audio["dsp"] = Back
    BY <1>1, <1>8 DEF DataInv, GuiPaced, DspHolds, Paced
  <2>3. Gets(stage["gui"], audio["gui"], buffer_idx["gui"], net.inbuf["gui"], Back)
    BY <2>1 DEF DataInv, GuiGets, Got
  <2>4. Back \in Channels /\ buffer_idx["gui"] \in Nat
    BY DataTypes DEF Program
  <2>5. Pace("right", 0, stage["gui"], buffer_idx["gui"], audio["gui"],
             net.inbuf["gui"], Back)
    BY <1>3, <2>1, <2>2, <2>3, <2>4, PaceConfirmed
  <2>6. GuiPaced'
    BY <1>3, <1>5, <2>5 DEF GuiPaced, Paced, Still, DspWork
  <2>7. DspGets' /\ DspHolds'
    BY <1>2, <1>5, <2>2 DEF DspGets, DspHolds
  <2>8. ReverseGets' /\ ReversePaced'
    BY <1>5, BackIdle
  <2> QED
    BY <1>6, <2>6, <2>7, <2>8 DEF DataInv
<1> QED
  BY <1>7, <1>8

-----------------------------------------------------------------------------
(***************************************************************************)
(* The dsp with the reverse service                                        *)
(***************************************************************************)

\* The dsp sends "run" or, later, "ready".
LEMMA DataDspAsks ==
  ASSUME WaveTechInv, SessionInv, DataInv, SessionInv',
         pc["dsp"] \in {"d_run", "d_fetch"}, SendMessage("dsp"),
         ~EndWith("dsp", "crashed")
  PROVE  DataInv'
<1>1. /\ Site("dsp").sock = "dsp8800" /\ "dsp" \in Program
      /\ pc["dsp"] = "d_run" => Site("dsp").next = "d_started"
      /\ pc["dsp"] = "d_fetch" => Site("dsp").next = "d_rxrev"
  BY DspSites DEF Site, Send, Program
<1>2. /\ audio' = audio /\ Turn("dsp", Site("dsp").next, "left", 0)
      /\ \E b : Sent("dsp8800", b)
  BY <1>1, MessageSent
<1>3. /\ file' = file /\ Want' = Want /\ Back' = Back
      /\ pc'["dsp"] = Site("dsp").next
      /\ stage'["dsp"] = "left" /\ buffer_idx'["dsp"] = 0
      /\ Still("gui") /\ Still("rev")
  BY <1>2, OthersStill
<1>4. /\ Live' = Live /\ Linked' = Linked /\ net'.inbuf["gui"] = net.inbuf["gui"]
      /\ net'.inbuf["dsp8800"] \in {net.inbuf["dsp8800"], <<>>}
  BY <1>2, SentByClient DEF Same5500
<1>5. CASE pc["dsp"] = "d_run"
  <2>1. pc'["dsp"] = "d_started"
    BY <1>1, <1>3, <1>5
  <2>2. DspHolds'
    BY <1>2, <1>3, <1>4, <1>5, <2>1 DEF DataInv, DspHolds
  <2>3. Linked => pc["rev"] = "r_recv"
    BY <1>5, Phases DEF ReversePhase, DspAway
  <2>4. ReverseGets' /\ ReversePaced'
    BY <1>3, <1>4, <2>3 DEF ReverseGets, ReversePaced, Still
  <2>5. pc["dsp"] \in DspWork \cup {"d_rxgui"} /\ pc'["dsp"] \in DspWork
    BY <1>5, <2>1 DEF DspWork
  <2> QED
    BY <1>3, <1>4, <2>2, <2>4, <2>5, DspFrame
<1>6. CASE pc["dsp"] = "d_fetch"
  <2>1. pc'["dsp"] = "d_rxrev"
    BY <1>1, <1>3, <1>6
  <2>2. net'.inbuf["dsp8800"] = <<>>
    BY <1>4, <1>6, Phases DEF ClientFinds
  <2>3. /\ Gets("left", audio["dsp"], 0, <<>>, Back)
        /\ Pace("left", 0, "left", 0, audio["dsp"], <<>>, Back)
    BY DataTypes, StreamStarts, PaceStarts
  <2>4. DspHolds'
    BY <1>2, <1>3, <2>1, <2>2, <2>3 DEF DspHolds, Got
  <2>5. Linked => /\ pc["rev"] = "r_fetch"
                  /\ stage["rev"] = "left" /\ buffer_idx["rev"] = 0
    <3>1. Linked => pc["rev"] = "r_fetch"
      BY <1>6, Phases DEF ReversePhase, DspAway
    <3> QED
      BY <3>1 DEF WaveTechInv, ProgramInv, Program, SendAudioLabel, RecvAudioLabel, EndLabel
  <2>6. ReverseGets'
    BY <1>2, <1>3, <1>4, <2>5 DEF DataInv, ReverseGets, Still
  <2>7. ReversePaced'
    BY <1>2, <1>3, <1>4, <2>1, <2>2, <2>3, <2>5 DEF ReversePaced, Paced, Still
  <2>8. pc["dsp"] \in DspWork \cup {"d_rxgui"} /\ pc'["dsp"] \in DspWork
    BY <1>6, <2>1 DEF DspWork
  <2> QED
    BY <1>3, <1>4, <2>4, <2>6, <2>7, <2>8, DspFrame
<1> QED
  BY <1>5, <1>6

\* The dsp gets the answers to them.
LEMMA DataDspAnswered ==
  ASSUME WholeReads, WaveTechInv, SessionInv, DataInv, SessionInv',
         pc["dsp"] \in {"d_started", "d_done"}, RecvMessage("dsp"),
         ~EndWith("dsp", "crashed")
  PROVE  DataInv'
<1> DEFINE in == net.inbuf["dsp8800"]
<1>1. Site("dsp").sock = "dsp8800" /\ "dsp" \in Program
  BY DspSites DEF Site, Recv, Program
<1>2. /\ Received("dsp8800") /\ audio' = audio
      /\ \E n \in ReadSizes(Len(in), RECV_CAP) :
           Turn("dsp", AfterText(pc["dsp"], SubSeq(in, 1, n)),
                stage["dsp"], buffer_idx["dsp"])
  BY <1>1, MessageRead
<1>3. /\ Live' = Live /\ Linked' = Linked /\ net'.inbuf["gui"] = net.inbuf["gui"]
      /\ net'.inbuf["rev8800"] = net.inbuf["rev8800"] /\ in # <<>>
  BY <1>2, ReceivedBy
<1>4. PICK n \in ReadSizes(Len(in), RECV_CAP) :
        Turn("dsp", AfterText(pc["dsp"], SubSeq(in, 1, n)),
             stage["dsp"], buffer_idx["dsp"])
  BY <1>2
<1>5. /\ pc["dsp"] = "d_started" => pc'["dsp"] = "d_txrev"
      /\ pc["dsp"] = "d_done" => pc'["dsp"] = "d_fetch"
  <2>1. CASE pc["dsp"] = "d_started"
    <3>1. in = TextBytes("ready") /\ "ready" \in Message
      BY <1>3, <2>1, Phases DEF ClientFinds, Message
    <3>2. SubSeq(in, 1, n) = TextBytes("ready")
      <4> HIDE DEF in
      <4> QED
        BY <1>4, <3>1, ReadText
    <3>3. AfterText("d_started", SubSeq(in, 1, n)) = "d_txrev"
      BY <3>2, AfterTexts DEF DspStarted
    <3> QED
      BY <1>4, <2>1, <3>3, OthersStill
  <2>2. CASE pc["dsp"] = "d_done"
    BY <1>4, <2>2, AfterTexts, OthersStill
  <2> QED
    BY <2>1, <2>2
<1>6. /\ file' = file /\ Want' = Want /\ Back' = Back
      /\ stage'["dsp"] = stage["dsp"] /\ buffer_idx'["dsp"] = buffer_idx["dsp"]
      /\ Still("gui") /\ Still("rev")
  BY <1>4, OthersStill
<1>7. DspHolds'
  BY <1>2, <1>3, <1>5, <1>6 DEF DataInv, DspHolds
<1>8. ReverseGets'
  BY <1>3, <1>6 DEF DataInv, ReverseGets, Got, Still
<1>9. ReversePaced'
  BY <1>3, <1>5, <1>6 DEF DataInv, ReversePaced, Paced, Still
<1>10. pc["dsp"] \in DspWork \cup {"d_rxgui"} /\ pc'["dsp"] \in DspWork
  BY <1>5 DEF DspWork
<1> QED
  BY <1>3, <1>6, <1>7, <1>8, <1>9, <1>10, DspFrame

\* The dsp passes a chunk of the file on.
LEMMA DataDspPasses ==
  ASSUME WaveTechInv, SessionInv, DataInv, SessionInv',
         pc["dsp"] = "d_txrev", SendChunk("dsp")
  PROVE  DataInv'
<1> DEFINE ds == stage["dsp"]
           ch == audio["dsp"][ChannelIn(ds)]
           idx == buffer_idx["dsp"]
<1>1. /\ Site("dsp").sock = "dsp8800" /\ Site("dsp").next = "d_done"
      /\ "dsp" \in Program /\ ch = Outgoing("dsp")[ChannelIn(ds)]
  BY DspSites DEF Site, SendAudio, Program, Outgoing
<1>2. /\ ds \in {"left", "right"} /\ ch \in Seq(Float) /\ idx \in Nat
      /\ Multiple(idx) /\ idx < Len(Cells(ch)) /\ audio' = audio
      /\ Sent("dsp8800", AudioBytes(Chunk(ch, idx)))
      /\ IF ~LastChunk(ch, idx) THEN Turn("dsp", "d_txrev", ds, idx + CHUNK_SIZE)
         ELSE IF ds = "left" THEN Turn("dsp", "d_txrev", "confirm", 0)
         ELSE Turn("dsp", "d_done", "left", 0)
  BY <1>1, ChunkSent
<1>3. ChannelIn(ds) \in 1 .. 2
  BY DEF ChannelIn
<1>4. /\ Want \in Channels
      /\ audio["dsp"] = Want => Cells(ch) = Want[ChannelIn(ds)]
  BY <1>3, DataTypes
<1> HIDE DEF ds, ch, idx
<1>5. /\ file' = file /\ Want' = Want /\ Back' = Back /\ Still("gui") /\ Still("rev")
      /\ IF ~LastChunk(ch, idx)
         THEN /\ pc'["dsp"] = "d_txrev" /\ stage'["dsp"] = ds
              /\ buffer_idx'["dsp"] = idx + CHUNK_SIZE
         ELSE IF ds = "left"
         THEN pc'["dsp"] = "d_txrev" /\ stage'["dsp"] = "confirm"
         ELSE pc'["dsp"] = "d_done"
  BY <1>2, OthersStill
<1>6. /\ Live' = Live /\ Linked' = Linked /\ net'.inbuf["gui"] = net.inbuf["gui"]
      /\ Linked => net'.inbuf["rev8800"]
                     = net.inbuf["rev8800"] \o AudioBytes(Chunk(ch, idx))
  BY <1>2, SentByClient DEF Same5500
<1>7. pc'["dsp"] \in {"d_txrev", "d_done"}
  BY <1>5
<1>8. DspHolds'
  BY <1>2, <1>5, <1>6, <1>7 DEF DataInv, DspHolds
<1>9. ReverseGets' /\ ReversePaced'
  <2>1. CASE ~(Live /\ Linked)
    BY <1>6, <2>1 DEF ReverseGets, ReversePaced
  <2>2. CASE Live /\ Linked
    <3> DEFINE in2 == net'.inbuf["rev8800"]
    <3>1. /\ pc["rev"] = "r_rx"
          /\ Transfer(ds, stage["rev"], net.inbuf["dsp8800"], net.inbuf["rev8800"])
      BY <2>2, Phases DEF ReversePhase, DspAway, ds
    <3>2. /\ Pace(ds, idx, stage["rev"], buffer_idx["rev"], audio["rev"],
                  net.inbuf["rev8800"], Want)
          /\ audio["dsp"] = Want
      BY <2>2, <3>1 DEF DataInv, ReversePaced, DspHolds, Paced, ds, idx
    <3>3. net.inbuf["rev8800"] \in Seq(Byte) /\ buffer_idx["rev"] \in Nat
      BY DataTypes DEF Sock, Program
    <3>4. /\ Gets(stage["rev"], audio["rev"], buffer_idx["rev"], in2, Want)
          /\ ~LastChunk(ch, idx) \/ ds = "left" =>
               Pace(stage'["dsp"], buffer_idx'["dsp"], stage["rev"], buffer_idx["rev"],
                    audio["rev"], in2, Want)
      <4>1. IF ~LastChunk(ch, idx)
            THEN stage'["dsp"] = ds /\ buffer_idx'["dsp"] = idx + CHUNK_SIZE
            ELSE ds = "left" => stage'["dsp"] = "confirm"
        BY <1>5
      <4>2. in2 = net.inbuf["rev8800"] \o AudioBytes(Chunk(ch, idx))
        BY <1>6, <2>2
      <4> HIDE DEF in2
      <4> QED
        BY <1>2, <1>4, <3>1, <3>2, <3>3, <4>1, <4>2, PaceFed
    <3>5. ReverseGets'
      BY <1>5, <3>1, <3>4 DEF ReverseGets, Got, Still
    <3>6. pc'["dsp"] = "d_txrev" => Paced("dsp", "rev", "rev8800", Want)'
      BY <1>5, <3>4 DEF Paced, Still
    <3>7. ReversePaced'
      BY <1>5, <1>7, <3>6 DEF ReversePaced
    <3> QED
      BY <3>5, <3>7
  <2> QED
    BY <2>1, <2>2
<1>10. pc["dsp"] \in DspWork \cup {"d_rxgui"} /\ pc'["dsp"] \in DspWork
  BY <1>7 DEF DspWork
<1> QED
  BY <1>5, <1>6, <1>8, <1>9, <1>10, DspFrame

\* The dsp gets the confirmation of the service.
LEMMA DataDspPassed ==
  ASSUME WholeReads, WaveTechInv, SessionInv, DataInv, SessionInv',
         pc["dsp"] = "d_txrev", RecvConfirmation("dsp"), ~EndWith("dsp", "crashed")
  PROVE  DataInv'
<1>1. /\ Site("dsp").sock = "dsp8800" /\ "dsp" \in Program
      /\ stage["dsp"] = "confirm"
  BY DspSites DEF Site, SendAudio, Program, RecvConfirmation
<1>2. /\ Received("dsp8800") /\ audio' = audio
      /\ net.inbuf["dsp8800"] = TextBytes("CONFIRMED") =>
           Turn("dsp", "d_txrev", "right", 0)
  BY <1>1, ConfirmationRead
<1>3. /\ Live' = Live /\ Linked' = Linked /\ net'.inbuf["gui"] = net.inbuf["gui"]
      /\ net'.inbuf["rev8800"] = net.inbuf["rev8800"] /\ net.inbuf["dsp8800"] # <<>>
  BY <1>2, ReceivedBy
<1>4. net.inbuf["dsp8800"] = TextBytes("CONFIRMED")
  BY <1>1, <1>3, Phases DEF ClientFinds
<1>5. /\ file' = file /\ Want' = Want /\ Back' = Back /\ pc'["dsp"] = "d_txrev"
      /\ stage'["dsp"] = "right" /\ buffer_idx'["dsp"] = 0
      /\ Still("gui") /\ Still("rev")
  BY <1>2, <1>4, OthersStill
<1>6. DspHolds'
  BY <1>2, <1>3, <1>5 DEF DataInv, DspHolds
<1>7. ReverseGets'
  BY <1>3, <1>5 DEF DataInv, ReverseGets, Got, Still
<1>8. ReversePaced'
  <2> SUFFICES ASSUME Live, Linked
               PROVE  Paced("dsp", "rev", "rev8800", Want)'
    BY <1>3, <1>5 DEF ReversePaced
  <2>1. /\ pc["rev"] = "r_rx"
        /\ Transfer("confirm", stage["rev"], net.inbuf["dsp8800"], net.inbuf["rev8800"])
    BY <1>1, Phases DEF ReversePhase, DspAway
  <2>2. Pace("confirm", buffer_idx["dsp"], stage["rev"], buffer_idx["rev"],
             audio["rev"], net.inbuf["rev8800"], Want)
    BY <1>1, <2>1 DEF DataInv, ReversePaced, Paced
  <2>3. Gets(stage["rev"], audio["rev"], buffer_idx["rev"], net.inbuf["rev8800"], Want)
    BY <2>1 DEF DataInv, ReverseGets, Got
  <2>4. Want \in Channels /\ buffer_idx["rev"] \in Nat
    BY DataTypes DEF Program
  <2>5. Pace("right", 0, stage["rev"], buffer_idx["rev"], audio["rev"],
             net.inbuf["rev8800"], Want)
    BY <1>3, <2>1, <2>2, <2>3, <2>4, PaceConfirmed
  <2> QED
    BY <1>3, <1>5, <2>5 DEF Paced, Still
<1>9. pc["dsp"] \in DspWork \cup {"d_rxgui"} /\ pc'["dsp"] \in DspWork
  BY <1>5 DEF DspWork
<1> QED
  BY <1>3, <1>5, <1>6, <1>7, <1>8, <1>9, DspFrame

\* The dsp reads a chunk of the reversal.
LEMMA DataDspFetches ==
  ASSUME WholeReads, WaveTechInv, SessionInv, DataInv, SessionInv',
         pc["dsp"] = "d_rxrev", RecvChunk("dsp"), ~EndWith("dsp", "crashed")
  PROVE  DataInv'
<1> DEFINE ds == stage["dsp"]
           idx == buffer_idx["dsp"]
           in == net.inbuf["dsp8800"]
           con == audio["dsp"]
           con2 == audio'["dsp"]
           rest == net'.inbuf["dsp8800"]
<1>1. Site("dsp").sock = "dsp8800" /\ Site("dsp").next = "d_txgui" /\ "dsp" \in Program
  BY DspSites DEF Site, RecvAudio, Program
<1>2. /\ ds \in {"left", "right"} /\ Received("dsp8800")
      /\ \E n, f :
           /\ ReadOf(ds, con, idx, in, n, f, con2, rest)
           /\ IF Len(f) = CHUNK_SIZE
              THEN Turn("dsp", "d_rxrev", ds, idx + CHUNK_SIZE)
              ELSE IF ds = "left" THEN Turn("dsp", "d_rxrev", "confirm", 0)
              ELSE Turn("dsp", "d_txgui", "left", 0)
  BY <1>1, ChunkRead
<1>3. PICK n, f :
        /\ ReadOf(ds, con, idx, in, n, f, con2, rest)
        /\ IF Len(f) = CHUNK_SIZE
           THEN Turn("dsp", "d_rxrev", ds, idx + CHUNK_SIZE)
           ELSE IF ds = "left" THEN Turn("dsp", "d_rxrev", "confirm", 0)
           ELSE Turn("dsp", "d_txgui", "left", 0)
  BY <1>2
<1>4. /\ file' = file /\ Want' = Want /\ Back' = Back /\ Still("gui") /\ Still("rev")
      /\ IF Len(f) = CHUNK_SIZE
         THEN /\ pc'["dsp"] = "d_rxrev" /\ stage'["dsp"] = ds
              /\ buffer_idx'["dsp"] = idx + CHUNK_SIZE
         ELSE IF ds = "left"
         THEN /\ pc'["dsp"] = "d_rxrev" /\ stage'["dsp"] = "confirm"
              /\ buffer_idx'["dsp"] = 0
         ELSE /\ pc'["dsp"] = "d_txgui" /\ stage'["dsp"] = "left"
              /\ buffer_idx'["dsp"] = 0
  BY <1>3, OthersStill
<1>5. /\ Live' = Live /\ Linked' = Linked /\ net'.inbuf["gui"] = net.inbuf["gui"]
      /\ net'.inbuf["rev8800"] = net.inbuf["rev8800"] /\ in # <<>>
  BY <1>2, ReceivedBy
<1>6. GuiGets'
  BY <1>4, <1>5, GuiGetsKept DEF DataInv
<1>7. CASE ~Live
  BY <1>5, <1>6, <1>7, GuiAlone
<1>8. CASE Live
  <2>1. /\ Back \in Channels /\ con \in Channels /\ idx \in Nat /\ in \in Seq(Byte)
        /\ buffer_idx["rev"] \in Nat
    BY DataTypes DEF Program, Sock
  <2>2. Gets(ds, con, idx, in, Back)
    BY <1>8 DEF DataInv, DspHolds, Got
  <2>3. /\ Len(f) = CHUNK_SIZE => Gets(ds, con2, idx + CHUNK_SIZE, rest, Back)
        /\ (Len(f) # CHUNK_SIZE /\ ds = "left") => Gets("confirm", con2, 0, rest, Back)
        /\ (Len(f) # CHUNK_SIZE /\ ds = "right") => con2 = Back
    <3> HIDE DEF ds, idx, in, con, con2, rest
    <3> QED
      BY <1>2, <1>3, <2>1, <2>2, StreamRead
  <2>4. CASE Len(f) = CHUNK_SIZE \/ ds = "left"
    <3>1. pc'["dsp"] = "d_rxrev"
      BY <1>4, <2>4
    <3>2. Got("dsp", "dsp8800", Back)'
      <4>1. CASE Len(f) = CHUNK_SIZE
        BY <1>4, <2>3, <4>1 DEF Got
      <4>2. CASE Len(f) # CHUNK_SIZE /\ ds = "left"
        BY <1>4, <2>3, <4>2 DEF Got
      <4> QED
        BY <2>4, <4>1, <4>2
    <3>3. DspHolds'
      BY <1>4, <3>1, <3>2 DEF DspHolds
    <3>4. ReverseGets'
      BY <1>4, <1>5 DEF DataInv, ReverseGets, Got, Still
    <3>5. ReversePaced'
      <4> SUFFICES ASSUME Linked, pc["rev"] \in {"r_fetch", "r_tx"}
                   PROVE  Paced("rev", "dsp", "dsp8800", Back)'
        BY <1>4, <1>5, <3>1 DEF ReversePaced, Still
      <4>1. Transfer(stage["rev"], ds, net.inbuf["rev8800"], in)
        BY <1>5, Phases DEF ReversePhase, DspAway
      <4>2. Pace(stage["rev"], buffer_idx["rev"], ds, idx, con, in, Back)
        BY <1>8 DEF DataInv, ReversePaced, Paced
      <4>3. CASE Len(f) = CHUNK_SIZE
        <5>1. Pace(stage["rev"], buffer_idx["rev"], ds, idx + CHUNK_SIZE, con2, rest, Back)
          <6> HIDE DEF ds, idx, in, con, con2, rest
          <6> QED
            BY <1>2, <1>3, <2>1, <2>2, <4>1, <4>2, <4>3, PaceRead
        <5> QED
          BY <1>4, <4>3, <5>1 DEF Paced, Still
      <4>4. CASE Len(f) # CHUNK_SIZE /\ ds = "left"
        <5>1. Pace(stage["rev"], buffer_idx["rev"], "confirm", 0, con2, rest, Back)
          BY PaceConfirms
        <5> QED
          BY <1>4, <4>4, <5>1 DEF Paced, Still
      <4> QED
        BY <2>4, <4>3, <4>4
    <3>6. pc["dsp"] \in DspWork \cup {"d_rxgui"} /\ pc'["dsp"] \in DspWork
      BY <3>1 DEF DspWork
    <3> QED
      BY <1>4, <1>5, <3>3, <3>4, <3>5, <3>6, DspFrame
  <2>5. CASE Len(f) # CHUNK_SIZE /\ ds = "right"
    <3>1. /\ pc'["dsp"] = "d_txgui" /\ con2 = Back
          /\ stage'["dsp"] = "left" /\ buffer_idx'["dsp"] = 0
      BY <1>4, <2>3, <2>5
    <3>2. DspGets' /\ DspHolds'
      BY <1>4, <3>1 DEF DspGets, DspHolds
    <3>3. pc["gui"] = "g_rx" /\ stage["gui"] = "left" /\ net.inbuf["gui"] = <<>>
      BY <1>8, Phases DEF GuiPhase, DspIdle, DspWork
    <3>4. buffer_idx["gui"] = 0
      BY <1>8, <3>3 DEF DataInv, GuiPaced, DspWork
    <3>5. Pace("left", 0, "left", 0, audio["gui"], <<>>, Back)
      BY <2>1, PaceStarts
    <3>6. GuiPaced'
      BY <1>4, <1>5, <3>1, <3>3, <3>4, <3>5 DEF GuiPaced, Paced, Still, DspWork
    <3>7. ReverseGets' /\ ReversePaced'
      BY <3>1, BackIdle
    <3> QED
      BY <1>6, <3>2, <3>6, <3>7 DEF DataInv
  <2> QED
    BY <1>2, <2>4, <2>5
<1> QED
  BY <1>7, <1>8

\* The dsp confirms the left channel of the reversal.
LEMMA DataDspFetched ==
  ASSUME WaveTechInv, SessionInv, DataInv, SessionInv',
         pc["dsp"] = "d_rxrev", SendConfirmation("dsp"), ~EndWith("dsp", "crashed")
  PROVE  DataInv'
<1>1. /\ Site("dsp").sock = "dsp8800" /\ "dsp" \in Program
      /\ stage["dsp"] = "confirm"
  BY DspSites DEF Site, RecvAudio, Program, SendConfirmation
<1>2. /\ audio' = audio /\ Turn("dsp", "d_rxrev", "right", 0)
      /\ Sent("dsp8800", TextBytes("CONFIRMED"))
  BY <1>1, ConfirmationSent
<1>3. /\ file' = file /\ Want' = Want /\ Back' = Back /\ pc'["dsp"] = "d_rxrev"
      /\ stage'["dsp"] = "right" /\ buffer_idx'["dsp"] = 0
      /\ Still("gui") /\ Still("rev")
  BY <1>2, OthersStill
<1>4. /\ Live' = Live /\ Linked' = Linked /\ net'.inbuf["gui"] = net.inbuf["gui"]
      /\ net'.inbuf["dsp8800"] = <<>>
  <2>1. net.inbuf["dsp8800"] = <<>>
    BY <1>1, Phases DEF ClientFinds
  <2> QED
    BY <1>2, <2>1, SentByClient DEF Same5500
<1>5. Linked => \/ pc["rev"] = "r_tx" /\ Transfer(stage["rev"], "confirm",
                                         net.inbuf["rev8800"], net.inbuf["dsp8800"])
                \/ pc["rev"] = "r_disc"
  BY <1>1, Phases DEF ReversePhase, DspAway
<1>6. DspHolds'
  <2>1. Back \in Channels /\ buffer_idx["dsp"] = 0
    BY <1>1, DataTypes DEF WaveTechInv, ProgramInv
  <2>2. Live => Gets("confirm", audio["dsp"], 0, net.inbuf["dsp8800"], Back)
    BY <1>1, <2>1 DEF DataInv, DspHolds, Got
  <2>3. Live => Gets("right", audio["dsp"], 0, <<>>, Back)
    BY <2>1, <2>2, StreamConfirmed
  <2> QED
    BY <1>2, <1>3, <1>4, <2>3 DEF DspHolds, Got
<1>7. ReverseGets'
  BY <1>2, <1>3, <1>4, <1>5 DEF DataInv, ReverseGets, Still
<1>8. ReversePaced'
  <2>1. (Linked /\ pc["rev"] = "r_tx") =>
          Pace(stage["rev"], buffer_idx["rev"], "right", 0, audio["dsp"], <<>>, Back)
    BY <1>5, PaceConfirms
  <2> QED
    BY <1>2, <1>3, <1>4, <1>5, <2>1 DEF ReversePaced, Paced, Still
<1>9. pc["dsp"] \in DspWork \cup {"d_rxgui"} /\ pc'["dsp"] \in DspWork
  BY <1>3 DEF DspWork
<1> QED
  BY <1>3, <1>4, <1>6, <1>7, <1>8, <1>9, DspFrame

-----------------------------------------------------------------------------
(***************************************************************************)
(* The reverse service                                                     *)
(***************************************************************************)
LEMMA ReverseFrame ==
  ASSUME WaveTechInv, DataInv, file' = file, Still("gui"), Still("dsp"),
         Live' = Live, Same5500(net, net'),
         (Live /\ pc["dsp"] = "d_rxrev") => Got("dsp", "dsp8800", Back)',
         ReverseGets', ReversePaced'
  PROVE  DataInv'
<1>1. /\ net'.inbuf["gui"] = net.inbuf["gui"]
      /\ net'.inbuf["dsp5500"] = net.inbuf["dsp5500"]
      /\ Want' = Want /\ Back' = Back
  BY SameFile DEF Same5500
<1>2. GuiGets'
  BY <1>1, GuiGetsKept DEF DataInv
<1>3. DspHolds'
  BY <1>1 DEF DataInv, DspHolds, Still
<1> QED
  BY <1>1, <1>2, <1>3, BackFrame

\* Nothing has come for the dsp: what it has got stays.
LEMMA ClientGot ==
  ASSUME DataInv, file' = file, Still("dsp"),
         net'.inbuf["dsp8800"] = net.inbuf["dsp8800"], Live, pc["dsp"] = "d_rxrev"
  PROVE  Got("dsp", "dsp8800", Back)'
BY SameFile DEF DataInv, DspHolds, Got, Still

\* A step of a service that nobody is connected to.
LEMMA ReverseUnlinked ==
  ASSUME WaveTechInv, DataInv, file' = file, Still("gui"), Still("dsp"),
         Live' = Live, Linked' = Linked, Same5500(net, net'),
         net'.inbuf["dsp8800"] = net.inbuf["dsp8800"], ~Linked
  PROVE  DataInv'
<1>1. ReverseGets' /\ ReversePaced'
  BY DEF ReverseGets, ReversePaced
<1> QED
  BY <1>1, ReverseFrame, ClientGot

\* The service hears "run" or "exit".
LEMMA DataReverseHears ==
  ASSUME WaveTechInv, SessionInv, DataInv, SessionInv',
         pc["rev"] = "r_recv", RecvMessage("rev"), ~EndWith("rev", "crashed")
  PROVE  DataInv'
<1> DEFINE in == net.inbuf["rev8800"]
<1>1. Site("rev").sock = "rev8800" /\ "rev" \in Program
  BY ReverseSites DEF Site, Recv, Program
<1>2. /\ Received("rev8800")
      /\ \E n : Turn("rev", AfterText("r_recv", SubSeq(in, 1, n)),
                     stage["rev"], buffer_idx["rev"])
  BY <1>1, MessageRead
<1>3. PICK n : Turn("rev", AfterText("r_recv", SubSeq(in, 1, n)),
                    stage["rev"], buffer_idx["rev"])
  BY <1>2
<1>4. pc'["rev"] \in {"r_ready", "r_xdisc", "r_drop"}
  <2>1. pc'["rev"] = ReverseCommand(SubSeq(in, 1, n))
    BY <1>3, OthersStill, AfterTexts
  <2> QED
    BY <2>1 DEF ReverseCommand
<1>5. ReverseGets' /\ ReversePaced'
  BY <1>4 DEF ReverseGets, ReversePaced
<1>6. /\ Live' = Live /\ Same5500(net, net')
      /\ net'.inbuf["dsp8800"] = net.inbuf["dsp8800"]
  BY <1>2, ReceivedBy
<1> QED
  BY <1>3, <1>5, <1>6, OthersStill, ReverseFrame, ClientGot

\* The service sends "ready" or "done".
LEMMA DataReverseAnswers ==
  ASSUME WaveTechInv, SessionInv, DataInv, SessionInv',
         pc["rev"] \in {"r_ready", "r_done"}, SendMessage("rev"),
         ~EndWith("rev", "crashed")
  PROVE  DataInv'
<1>1. /\ Site("rev").sock = "rev8800" /\ "rev" \in Program
      /\ pc["rev"] = "r_ready" => Site("rev").next = "r_rx"
      /\ pc["rev"] = "r_done" => Site("rev").next = "r_fetch"
  BY ReverseSites DEF Site, Send, Program
<1>2. /\ audio' = audio /\ Turn("rev", Site("rev").next, "left", 0)
      /\ \E b : Sent("rev8800", b)
  BY <1>1, MessageSent
<1>3. /\ file' = file /\ Want' = Want /\ Back' = Back
      /\ pc'["rev"] = Site("rev").next
      /\ stage'["rev"] = "left" /\ buffer_idx'["rev"] = 0
      /\ Still("gui") /\ Still("dsp")
  BY <1>2, OthersStill
<1>4. /\ Live' = Live /\ Linked' = Linked /\ Same5500(net, net')
      /\ Linked => net'.inbuf["rev8800"] = net.inbuf["rev8800"]
      /\ ~Linked => net'.inbuf["dsp8800"] = net.inbuf["dsp8800"]
  BY <1>2, SentByReverse
<1>5. CASE ~Linked
  BY <1>3, <1>4, <1>5, ReverseUnlinked
<1>6. CASE Linked /\ pc["rev"] = "r_ready"
  <2>1. pc["dsp"] = "d_started" /\ net.inbuf["rev8800"] = <<>>
    BY <1>6, Phases DEF ReversePhase, DspAway
  <2>2. pc'["rev"] = "r_rx" /\ net'.inbuf["rev8800"] = <<>>
    BY <1>1, <1>3, <1>4, <1>6, <2>1
  <2>3. stage["dsp"] = "left" /\ buffer_idx["dsp"] = 0
    BY <2>1 DEF WaveTechInv, ProgramInv, Program, SendAudioLabel, RecvAudioLabel, EndLabel
  <2>4. /\ Gets("left", audio["rev"], 0, <<>>, Want)
        /\ Pace("left", 0, "left", 0, audio["rev"], <<>>, Want)
    BY DataTypes, StreamStarts, PaceStarts
  <2>5. ReverseGets'
    BY <1>2, <1>3, <2>2, <2>4 DEF ReverseGets, Got
  <2>6. ReversePaced'
    BY <1>2, <1>3, <2>2, <2>3, <2>4 DEF ReversePaced, Paced, Still
  <2> QED
    BY <1>3, <1>4, <2>1, <2>5, <2>6, ReverseFrame
<1>7. CASE Linked /\ pc["rev"] = "r_done"
  <2>1. pc["dsp"] = "d_done" /\ pc'["rev"] = "r_fetch"
    BY <1>1, <1>3, <1>7, Phases DEF ReversePhase, DspAway
  <2>2. ReverseGets'
    BY <1>2, <1>3, <1>4, <1>7, <2>1 DEF DataInv, ReverseGets
  <2>3. ReversePaced'
    BY <1>3, <2>1 DEF ReversePaced, Still
  <2> QED
    BY <1>3, <1>4, <2>1, <2>2, <2>3, ReverseFrame
<1> QED
  BY <1>5, <1>6, <1>7

\* The service reads a chunk of the file.
LEMMA DataReverseReads ==
  ASSUME WholeReads, WaveTechInv, SessionInv, DataInv, SessionInv',
         pc["rev"] = "r_rx", RecvChunk("rev"), ~EndWith("rev", "crashed")
  PROVE  DataInv'
<1> DEFINE rs == stage["rev"]
           idx == buffer_idx["rev"]
           in == net.inbuf["rev8800"]
           con == audio["rev"]
           con2 == audio'["rev"]
           rest == net'.inbuf["rev8800"]
<1>1. Site("rev").sock = "rev8800" /\ Site("rev").next = "r_reverse" /\ "rev" \in Program
  BY ReverseSites DEF Site, RecvAudio, Program
<1>2. /\ rs \in {"left", "right"} /\ Received("rev8800")
      /\ \E n, f :
           /\ ReadOf(rs, con, idx, in, n, f, con2, rest)
           /\ IF Len(f) = CHUNK_SIZE
              THEN Turn("rev", "r_rx", rs, idx + CHUNK_SIZE)
              ELSE IF rs = "left" THEN Turn("rev", "r_rx", "confirm", 0)
              ELSE Turn("rev", "r_reverse", "left", 0)
  BY <1>1, ChunkRead
<1>3. PICK n, f :
        /\ ReadOf(rs, con, idx, in, n, f, con2, rest)
        /\ IF Len(f) = CHUNK_SIZE
           THEN Turn("rev", "r_rx", rs, idx + CHUNK_SIZE)
           ELSE IF rs = "left" THEN Turn("rev", "r_rx", "confirm", 0)
           ELSE Turn("rev", "r_reverse", "left", 0)
  BY <1>2
<1>4. /\ file' = file /\ Want' = Want /\ Back' = Back /\ Still("gui") /\ Still("dsp")
      /\ IF Len(f) = CHUNK_SIZE
         THEN /\ pc'["rev"] = "r_rx" /\ stage'["rev"] = rs
              /\ buffer_idx'["rev"] = idx + CHUNK_SIZE
         ELSE IF rs = "left"
         THEN /\ pc'["rev"] = "r_rx" /\ stage'["rev"] = "confirm"
              /\ buffer_idx'["rev"] = 0
         ELSE pc'["rev"] = "r_reverse"
  BY <1>3, OthersStill
<1>5. /\ Live' = Live /\ Linked' = Linked /\ Same5500(net, net')
      /\ net'.inbuf["dsp8800"] = net.inbuf["dsp8800"] /\ in # <<>>
  BY <1>2, ReceivedBy
<1>6. CASE ~Linked
  BY <1>4, <1>5, <1>6, ReverseUnlinked
<1>7. CASE ~Live
  <2>1. ReverseGets' /\ ReversePaced'
    BY <1>5, <1>7 DEF ReverseGets, ReversePaced
  <2> QED
    BY <1>4, <1>5, <1>7, <2>1, ReverseFrame
<1>8. CASE Linked /\ Live
  <2>1. /\ Want \in Channels /\ con \in Channels /\ idx \in Nat /\ in \in Seq(Byte)
        /\ buffer_idx["dsp"] \in Nat
    BY DataTypes DEF Program, Sock
  <2>2. Gets(rs, con, idx, in, Want)
    BY <1>8 DEF DataInv, ReverseGets, Got
  <2>3. /\ Len(f) = CHUNK_SIZE => Gets(rs, con2, idx + CHUNK_SIZE, rest, Want)
        /\ (Len(f) # CHUNK_SIZE /\ rs = "left") => Gets("confirm", con2, 0, rest, Want)
        /\ (Len(f) # CHUNK_SIZE /\ rs = "right") => con2 = Want
    <3> HIDE DEF rs, idx, in, con, con2, rest
    <3> QED
      BY <1>2, <1>3, <2>1, <2>2, StreamRead
  <2>4. \/ pc["dsp"] = "d_txrev" /\ Transfer(stage["dsp"], rs, net.inbuf["dsp8800"], in)
        \/ pc["dsp"] = "d_done"
    BY <1>5, <1>8, Phases DEF ReversePhase, DspAway
  <2>5. CASE Len(f) = CHUNK_SIZE \/ rs = "left"
    <3>1. pc'["rev"] = "r_rx"
      BY <1>4, <2>5
    <3>2. Got("rev", "rev8800", Want)'
      <4>1. CASE Len(f) = CHUNK_SIZE
        BY <1>4, <2>3, <4>1 DEF Got
      <4>2. CASE Len(f) # CHUNK_SIZE /\ rs = "left"
        BY <1>4, <2>3, <4>2 DEF Got
      <4> QED
        BY <2>5, <4>1, <4>2
    <3>3. ReverseGets'
      BY <1>4, <3>1, <3>2 DEF ReverseGets
    <3>4. ReversePaced'
      <4> SUFFICES ASSUME pc["dsp"] = "d_txrev"
                   PROVE  Paced("dsp", "rev", "rev8800", Want)'
        BY <1>4, <2>4, <3>1 DEF ReversePaced, Still
      <4>1. Pace(stage["dsp"], buffer_idx["dsp"], rs, idx, con, in, Want)
        BY <1>8 DEF DataInv, ReversePaced, Paced
      <4>2. CASE Len(f) = CHUNK_SIZE
        <5>1. Pace(stage["dsp"], buffer_idx["dsp"], rs, idx + CHUNK_SIZE, con2, rest, Want)
          <6>1. Transfer(stage["dsp"], rs, net.inbuf["dsp8800"], in)
            BY <2>4
          <6> HIDE DEF rs, idx, in, con, con2, rest
          <6> QED
            BY <1>2, <1>3, <2>1, <2>2, <4>1, <4>2, <6>1, PaceRead
        <5> QED
          BY <1>4, <4>2, <5>1 DEF Paced, Still
      <4>3. CASE Len(f) # CHUNK_SIZE /\ rs = "left"
        <5>1. Pace(stage["dsp"], buffer_idx["dsp"], "confirm", 0, con2, rest, Want)
          BY PaceConfirms
        <5> QED
          BY <1>4, <4>3, <5>1 DEF Paced, Still
      <4> QED
        BY <2>5, <4>2, <4>3
    <3> QED
      BY <1>4, <1>5, <2>4, <3>3, <3>4, ReverseFrame
  <2>6. CASE Len(f) # CHUNK_SIZE /\ rs = "right"
    <3>1. pc'["rev"] = "r_reverse" /\ con2 = Want
      BY <1>4, <2>3, <2>6
    <3>2. ReverseGets' /\ ReversePaced'
      BY <1>4, <3>1 DEF ReverseGets, ReversePaced
    <3> QED
      BY <1>4, <1>5, <2>4, <3>2, ReverseFrame
  <2> QED
    BY <1>2, <2>5, <2>6
<1> QED
  BY <1>6, <1>7, <1>8

\* The service confirms the left channel.
LEMMA DataReverseConfirms ==
  ASSUME WaveTechInv, SessionInv, DataInv, SessionInv',
         pc["rev"] = "r_rx", SendConfirmation("rev"), ~EndWith("rev", "crashed")
  PROVE  DataInv'
<1>1. /\ Site("rev").sock = "rev8800" /\ "rev" \in Program
      /\ stage["rev"] = "confirm"
  BY ReverseSites DEF Site, RecvAudio, Program, SendConfirmation
<1>2. /\ audio' = audio /\ Turn("rev", "r_rx", "right", 0)
      /\ Sent("rev8800", TextBytes("CONFIRMED"))
  BY <1>1, ConfirmationSent
<1>3. /\ file' = file /\ Want' = Want /\ Back' = Back /\ pc'["rev"] = "r_rx"
      /\ stage'["rev"] = "right" /\ buffer_idx'["rev"] = 0
      /\ Still("gui") /\ Still("dsp")
  BY <1>2, OthersStill
<1>4. /\ Live' = Live /\ Linked' = Linked /\ Same5500(net, net')
      /\ Linked => net'.inbuf["rev8800"] = net.inbuf["rev8800"]
      /\ ~Linked => net'.inbuf["dsp8800"] = net.inbuf["dsp8800"]
  BY <1>2, SentByReverse
<1>5. CASE ~Linked
  BY <1>3, <1>4, <1>5, ReverseUnlinked
<1>6. CASE Linked
  <2>1. /\ pc["dsp"] = "d_txrev" /\ net.inbuf["rev8800"] = <<>>
        /\ Transfer(stage["dsp"], "confirm", net.inbuf["dsp8800"], net.inbuf["rev8800"])
    <3>1. \/ /\ pc["dsp"] = "d_txrev"
             /\ Transfer(stage["dsp"], "confirm", net.inbuf["dsp8800"], net.inbuf["rev8800"])
      BY <1>1, <1>6, Phases DEF ReversePhase, DspAway
    <3> QED
      BY <3>1 DEF Transfer
  <2>2. net'.inbuf["rev8800"] = <<>>
    BY <1>4, <1>6, <2>1
  <2>3. ReverseGets'
    <3>1. Want \in Channels /\ buffer_idx["rev"] = 0
      BY <1>1, DataTypes DEF WaveTechInv, ProgramInv
    <3>2. Live => Gets("confirm", audio["rev"], 0, net.inbuf["rev8800"], Want)
      BY <1>1, <1>6, <3>1 DEF DataInv, ReverseGets, Got
    <3>3. Live => Gets("right", audio["rev"], 0, <<>>, Want)
      BY <3>1, <3>2, StreamConfirmed
    <3> QED
      BY <1>2, <1>3, <1>4, <2>2, <3>3 DEF ReverseGets, Got
  <2>4. ReversePaced'
    <3>1. Pace(stage["dsp"], buffer_idx["dsp"], "right", 0, audio["rev"], <<>>, Want)
      BY <2>1, PaceConfirms
    <3> QED
      BY <1>2, <1>3, <1>4, <2>1, <2>2, <3>1 DEF ReversePaced, Paced, Still
  <2> QED
    BY <1>3, <1>4, <2>1, <2>3, <2>4, ReverseFrame
<1> QED
  BY <1>5, <1>6

\* The service reverses both channels.
LEMMA DataReverses ==
  ASSUME WaveTechInv, SessionInv, DataInv, SessionInv', ReverseAudio("rev")
  PROVE  DataInv'
<1>1. /\ pc["rev"] = "r_reverse" /\ net' = net /\ file' = file
      /\ UNCHANGED <<stage, buffer_idx>> /\ Goto("rev", "r_done")
      /\ audio' = [audio EXCEPT !["rev"] = [c \in 1 .. 2 |-> Reverse(@[c])]]
  BY DEF ReverseAudio
<1>2. /\ audio'["rev"] = [c \in 1 .. 2 |-> Reverse(audio["rev"][c])]
      /\ \A q \in Program \ {"rev"} : audio'[q] = audio[q]
  <2>1. audio \in [Program -> Channels] /\ "rev" \in Program
    BY DataTypes DEF Program
  <2> QED
    BY <1>1, <2>1, Zenon
<1>3. /\ Want' = Want /\ Back' = Back /\ pc'["rev"] = "r_done"
      /\ Still("gui") /\ Still("dsp")
      /\ Live' = Live /\ Linked' = Linked /\ Same5500(net, net')
  <2>1. pc'["rev"] = "r_done" /\ pc'["gui"] = pc["gui"] /\ pc'["dsp"] = pc["dsp"]
    BY <1>1, SessionTypes DEF Goto, Program
  <2>2. audio'["gui"] = audio["gui"] /\ audio'["dsp"] = audio["dsp"]
    BY <1>2 DEF Program
  <2> QED
    BY <1>1, <2>1, <2>2, SameFile DEF Still, Live, Linked, Same5500
<1>4. CASE ~Linked
  BY <1>1, <1>3, <1>4, ReverseUnlinked
<1>5. CASE Linked
  <2>1. pc["dsp"] = "d_done"
    BY <1>1, <1>5, Phases DEF ReversePhase, DspAway
  <2>2. Live => audio'["rev"] = Back
    <3> SUFFICES ASSUME Live PROVE audio'["rev"] = Back
      OBVIOUS
    <3>1. audio["rev"] = Want
      BY <1>1, <1>5 DEF DataInv, ReverseGets
    <3>2. Back = [c \in 1 .. 2 |-> Reverse(Want[c])]
      BY DEF Back, Want
    <3> QED
      BY <1>2, <3>1, <3>2
  <2>3. ReverseGets'
    BY <1>3, <2>2 DEF ReverseGets
  <2>4. ReversePaced'
    BY <1>3 DEF ReversePaced
  <2> QED
    BY <1>1, <1>3, <2>1, <2>3, <2>4, ReverseFrame
<1> QED
  BY <1>4, <1>5

\* The service is asked for the reversal.
LEMMA DataReverseAsked ==
  ASSUME WholeReads, WaveTechInv, SessionInv, DataInv, SessionInv',
         pc["rev"] = "r_fetch", RecvMessage("rev"), ~EndWith("rev", "crashed")
  PROVE  DataInv'
<1> DEFINE in == net.inbuf["rev8800"]
<1>1. Site("rev").sock = "rev8800" /\ "rev" \in Program
  BY ReverseSites DEF Site, Recv, Program
<1>2. /\ Received("rev8800") /\ audio' = audio
      /\ \E n \in ReadSizes(Len(in), RECV_CAP) :
           Turn("rev", AfterText("r_fetch", SubSeq(in, 1, n)),
                stage["rev"], buffer_idx["rev"])
  BY <1>1, MessageRead
<1>3. /\ Live' = Live /\ Linked' = Linked /\ Same5500(net, net')
      /\ net'.inbuf["dsp8800"] = net.inbuf["dsp8800"] /\ in # <<>>
  BY <1>2, ReceivedBy
<1>4. PICK n \in ReadSizes(Len(in), RECV_CAP) :
        Turn("rev", AfterText("r_fetch", SubSeq(in, 1, n)),
             stage["rev"], buffer_idx["rev"])
  BY <1>2
<1>5. /\ file' = file /\ Want' = Want /\ Back' = Back
      /\ stage'["rev"] = stage["rev"] /\ buffer_idx'["rev"] = buffer_idx["rev"]
      /\ Still("gui") /\ Still("dsp")
  BY <1>4, OthersStill
<1>6. pc'["rev"] = "r_tx"
  <2>1. in = TextBytes("ready") /\ "ready" \in Message
    BY <1>3, Phases DEF ReverseFinds, Message
  <2>2. SubSeq(in, 1, n) = TextBytes("ready")
    <3> HIDE DEF in
    <3> QED
      BY <1>4, <2>1, ReadText
  <2>3. AfterText("r_fetch", SubSeq(in, 1, n)) = "r_tx"
    BY <2>2, AfterTexts DEF ReverseFetch
  <2> QED
    BY <1>4, <2>3, OthersStill
<1>7. ReverseGets'
  BY <1>2, <1>3, <1>5, <1>6 DEF DataInv, ReverseGets
<1>8. ReversePaced'
  BY <1>2, <1>3, <1>5, <1>6 DEF DataInv, ReversePaced, Paced, Still
<1> QED
  BY <1>3, <1>5, <1>7, <1>8, ReverseFrame, ClientGot

\* The service sends a chunk of the reversal.
LEMMA DataReverseSends ==
  ASSUME WaveTechInv, SessionInv, DataInv, SessionInv',
         pc["rev"] = "r_tx", SendChunk("rev")
  PROVE  DataInv'
<1> DEFINE rs == stage["rev"]
           ch == audio["rev"][ChannelIn(rs)]
           idx == buffer_idx["rev"]
<1>1. /\ Site("rev").sock = "rev8800" /\ Site("rev").next = "r_disc"
      /\ "rev" \in Program /\ ch = Outgoing("rev")[ChannelIn(rs)]
  BY ReverseSites DEF Site, SendAudio, Program, Outgoing
<1>2. /\ rs \in {"left", "right"} /\ ch \in Seq(Float) /\ idx \in Nat
      /\ Multiple(idx) /\ idx < Len(Cells(ch)) /\ audio' = audio
      /\ Sent("rev8800", AudioBytes(Chunk(ch, idx)))
      /\ IF ~LastChunk(ch, idx) THEN Turn("rev", "r_tx", rs, idx + CHUNK_SIZE)
         ELSE IF rs = "left" THEN Turn("rev", "r_tx", "confirm", 0)
         ELSE Turn("rev", "r_disc", "left", 0)
  BY <1>1, ChunkSent
<1>3. ChannelIn(rs) \in 1 .. 2
  BY DEF ChannelIn
<1>4. /\ Back \in Channels
      /\ audio["rev"] = Back => Cells(ch) = Back[ChannelIn(rs)]
  BY <1>3, DataTypes
<1> HIDE DEF rs, ch, idx
<1>5. /\ file' = file /\ Want' = Want /\ Back' = Back /\ Still("gui") /\ Still("dsp")
      /\ IF ~LastChunk(ch, idx)
         THEN /\ pc'["rev"] = "r_tx" /\ stage'["rev"] = rs
              /\ buffer_idx'["rev"] = idx + CHUNK_SIZE
         ELSE IF rs = "left"
         THEN pc'["rev"] = "r_tx" /\ stage'["rev"] = "confirm"
         ELSE pc'["rev"] = "r_disc"
  BY <1>2, OthersStill
<1>6. /\ Live' = Live /\ Linked' = Linked /\ Same5500(net, net')
      /\ Linked => net'.inbuf["dsp8800"]
                     = net.inbuf["dsp8800"] \o AudioBytes(Chunk(ch, idx))
      /\ ~Linked => net'.inbuf["dsp8800"] = net.inbuf["dsp8800"]
  BY <1>2, SentByReverse
<1>7. CASE ~Linked
  BY <1>5, <1>6, <1>7, ReverseUnlinked
<1>8. CASE ~Live
  <2>1. ReverseGets' /\ ReversePaced'
    BY <1>6, <1>8 DEF ReverseGets, ReversePaced
  <2> QED
    BY <1>5, <1>6, <1>8, <2>1, ReverseFrame
<1>9. CASE Live /\ Linked
  <2> DEFINE in2 == net'.inbuf["dsp8800"]
  <2>1. /\ pc["dsp"] = "d_rxrev"
        /\ Transfer(rs, stage["dsp"], net.inbuf["rev8800"], net.inbuf["dsp8800"])
    BY <1>9, Phases DEF ReversePhase, DspAway, rs
  <2>2. /\ Pace(rs, idx, stage["dsp"], buffer_idx["dsp"], audio["dsp"],
                net.inbuf["dsp8800"], Back)
        /\ audio["rev"] = Back
    BY <1>9, <2>1 DEF DataInv, ReversePaced, ReverseGets, Paced, rs, idx
  <2>3. net.inbuf["dsp8800"] \in Seq(Byte) /\ buffer_idx["dsp"] \in Nat
    BY DataTypes DEF Sock, Program
  <2>4. /\ Gets(stage["dsp"], audio["dsp"], buffer_idx["dsp"], in2, Back)
        /\ ~LastChunk(ch, idx) \/ rs = "left" =>
             Pace(stage'["rev"], buffer_idx'["rev"], stage["dsp"], buffer_idx["dsp"],
                  audio["dsp"], in2, Back)
    <3>1. IF ~LastChunk(ch, idx)
          THEN stage'["rev"] = rs /\ buffer_idx'["rev"] = idx + CHUNK_SIZE
          ELSE rs = "left" => stage'["rev"] = "confirm"
      BY <1>5
    <3>2. in2 = net.inbuf["dsp8800"] \o AudioBytes(Chunk(ch, idx))
      BY <1>6, <1>9
    <3> HIDE DEF in2
    <3> QED
      BY <1>2, <1>4, <2>1, <2>2, <2>3, <3>1, <3>2, PaceFed
  <2>5. Got("dsp", "dsp8800", Back)'
    BY <1>5, <2>4 DEF Got, Still
  <2>6. pc'["rev"] \in {"r_tx", "r_disc"}
    BY <1>5
  <2>7. ReverseGets'
    BY <1>2, <1>5, <2>2, <2>6 DEF ReverseGets
  <2>8. pc'["rev"] = "r_tx" => Paced("rev", "dsp", "dsp8800", Back)'
    BY <1>5, <2>4 DEF Paced, Still
  <2>9. ReversePaced'
    BY <1>5, <2>6, <2>8 DEF ReversePaced
  <2> QED
    BY <1>5, <1>6, <2>5, <2>7, <2>9, ReverseFrame
<1> QED
  BY <1>7, <1>8, <1>9

\* The service gets the confirmation of the dsp.
LEMMA DataReverseConfirmed ==
  ASSUME WholeReads, WaveTechInv, SessionInv, DataInv, SessionInv',
         pc["rev"] = "r_tx", RecvConfirmation("rev"), ~EndWith("rev", "crashed")
  PROVE  DataInv'
<1>1. /\ Site("rev").sock = "rev8800" /\ "rev" \in Program
      /\ stage["rev"] = "confirm"
  BY ReverseSites DEF Site, SendAudio, Program, RecvConfirmation
<1>2. /\ Received("rev8800") /\ audio' = audio
      /\ net.inbuf["rev8800"] = TextBytes("CONFIRMED") =>
           Turn("rev", "r_tx", "right", 0)
  BY <1>1, ConfirmationRead
<1>3. /\ Live' = Live /\ Linked' = Linked /\ Same5500(net, net')
      /\ net'.inbuf["dsp8800"] = net.inbuf["dsp8800"] /\ net.inbuf["rev8800"] # <<>>
  BY <1>2, ReceivedBy
<1>4. net.inbuf["rev8800"] = TextBytes("CONFIRMED")
  BY <1>1, <1>3, Phases DEF ReverseFinds
<1>5. /\ file' = file /\ Want' = Want /\ Back' = Back /\ pc'["rev"] = "r_tx"
      /\ stage'["rev"] = "right" /\ buffer_idx'["rev"] = 0
      /\ Still("gui") /\ Still("dsp")
  BY <1>2, <1>4, OthersStill
<1>6. ReverseGets'
  BY <1>2, <1>3, <1>5 DEF DataInv, ReverseGets
<1>7. ReversePaced'
  <2> SUFFICES ASSUME Live, Linked, pc["dsp"] = "d_rxrev"
               PROVE  Paced("rev", "dsp", "dsp8800", Back)'
    BY <1>3, <1>5 DEF ReversePaced, Still
  <2>1. Transfer("confirm", stage["dsp"], net.inbuf["rev8800"], net.inbuf["dsp8800"])
    BY <1>1, Phases DEF ReversePhase, DspAway
  <2>2. Pace("confirm", buffer_idx["rev"], stage["dsp"], buffer_idx["dsp"],
             audio["dsp"], net.inbuf["dsp8800"], Back)
    BY <1>1 DEF DataInv, ReversePaced, Paced
  <2>3. Gets(stage["dsp"], audio["dsp"], buffer_idx["dsp"], net.inbuf["dsp8800"], Back)
    BY DEF DataInv, DspHolds, Got
  <2>4. Back \in Channels /\ buffer_idx["dsp"] \in Nat
    BY DataTypes DEF Program
  <2>5. Pace("right", 0, stage["dsp"], buffer_idx["dsp"], audio["dsp"],
             net.inbuf["dsp8800"], Back)
    BY <1>3, <2>1, <2>2, <2>3, <2>4, PaceConfirmed
  <2> QED
    BY <1>3, <1>5, <2>5 DEF Paced, Still
<1> QED
  BY <1>3, <1>5, <1>6, <1>7, ReverseFrame, ClientGot

-----------------------------------------------------------------------------
(***************************************************************************)
(* Every step keeps DataInv                                                *)
(***************************************************************************)
LEMMA DataInit ==
  ASSUME Init
  PROVE  DataInv
<1>1. pc["gui"] = "g_connect" /\ net.peer["gui"] = None
  BY DEF Init, Entry, NoNet, Sock
<1>2. ~Live
  BY <1>1 DEF Live, None
<1> QED
  BY <1>1, <1>2 DEF DataInv, GuiGets, DspGets, DspHolds, GuiPaced, ReverseGets,
                    ReversePaced

\* The calls of the pipes.
LEMMA DataMessages ==
  ASSUME WholeReads, WaveTechInv, SessionInv, DataInv, SessionInv',
         NEW p \in Program, SendMessage(p) \/ RecvMessage(p), ~EndWith(p, "crashed")
  PROVE  DataInv'
<1>1. CASE SendMessage(p)
  <2>1. In(p, "send_message")
    BY <1>1 DEF SendMessage
  <2>2. \/ p = "gui"
        \/ p = "dsp" /\ pc["dsp"] \in {"d_ready", "d_run", "d_stop", "d_fetch"}
        \/ p = "rev" /\ pc["rev"] \in {"r_ready", "r_done"}
    BY <2>1, SendTable
  <2> QED
    BY <1>1, <2>2, DataGuiSend, DataDspIdle, DataDspReady, DataDspAsks,
       DataReverseAnswers
<1>2. CASE RecvMessage(p)
  <2>1. In(p, "recv_message")
    BY <1>2 DEF RecvMessage
  <2>2. \/ p = "gui"
        \/ p = "dsp" /\ pc["dsp"] \in {"d_loop", "d_started", "d_done"}
        \/ p = "rev" /\ pc["rev"] \in {"r_recv", "r_fetch"}
    BY <2>1, RecvTable
  <2> QED
    BY <1>2, <2>2, DataGuiRecv, DataDspIdle, DataDspAnswered, DataReverseHears,
       DataReverseAsked
<1> QED
  BY <1>1, <1>2

LEMMA DataAudio ==
  ASSUME WholeReads, WaveTechInv, SessionInv, DataInv, SessionInv',
         NEW p \in Program,
         \/ SendChunk(p) \/ RecvConfirmation(p)
         \/ RecvChunk(p) \/ SendConfirmation(p),
         ~EndWith(p, "crashed")
  PROVE  DataInv'
<1>1. CASE SendChunk(p) \/ RecvConfirmation(p)
  <2>1. In(p, "send_audio")
    BY <1>1 DEF SendChunk, RecvConfirmation
  <2>2. \/ p = "gui"
        \/ p = "dsp" /\ pc["dsp"] = "d_txrev"
        \/ p = "dsp" /\ pc["dsp"] = "d_txgui"
        \/ p = "rev" /\ pc["rev"] = "r_tx"
    BY <2>1, SendAudioTable
  <2> QED
    BY <1>1, <2>2, DataGuiChunk, DataGuiConfirmed, DataDspPasses, DataDspPassed,
       DataDspChunk, DataDspConfirmed, DataReverseSends, DataReverseConfirmed
<1>2. CASE RecvChunk(p) \/ SendConfirmation(p)
  <2>1. In(p, "recv_audio")
    BY <1>2 DEF RecvChunk, SendConfirmation
  <2>2. \/ p = "gui"
        \/ p = "dsp" /\ pc["dsp"] = "d_rxgui"
        \/ p = "dsp" /\ pc["dsp"] = "d_rxrev"
        \/ p = "rev" /\ pc["rev"] = "r_rx"
    BY <2>1, RecvAudioTable
  <2> QED
    BY <1>2, <2>2, DataGuiRead, DataGuiConfirms, DataDspRead, DataDspConfirms,
       DataDspFetches, DataDspFetched, DataReverseReads, DataReverseConfirms
<1> QED
  BY <1>1, <1>2

LEMMA DataNext ==
  ASSUME WholeReads, WaveTechInv, SessionInv, DataInv, SessionInv', [Next]_vars
  PROVE  DataInv'
<1>1. CASE UNCHANGED vars
  <2>1. file' = file /\ net' = net /\ pc' = pc /\ stage' = stage
        /\ buffer_idx' = buffer_idx /\ audio' = audio
    BY <1>1 DEF vars
  <2>2. Want' = Want /\ Back' = Back
    BY <2>1, SameFile
  <2> QED
    BY <2>1, <2>2 DEF DataInv, GuiGets, DspGets, DspHolds, GuiPaced, ReverseGets,
                      ReversePaced, Got, Paced, Live, Linked
<1>2. CASE StartGui \/ User
  BY <1>2, DataUser
<1>3. ASSUME NEW p \in Program, Step(p)
      PROVE  DataInv'
  <2>1. pc[p] \in LabelsOf(p)
    BY DEF WaveTechInv, ProgramInv
  <2>2. CASE EndWith(p, "crashed")
    BY <2>2, DataEnds DEF EndLabel
  <2>3. CASE SendAborts(p)
    BY <2>3, DataEnds DEF SendAborts, EndLabel
  <2>4. CASE SetAudioBuffer(p) \/ Quit(p)
    <3>1. pc[p] \in {"g_set", "g_quit"}
      BY <2>4 DEF SetAudioBuffer, Quit
    <3>2. p = "gui"
      BY <2>1, <3>1 DEF LabelsOf, DspLabel, ReverseLabel, EndLabel, Program
    <3> QED
      BY <2>4, <3>2, DataUser
  <2>5. CASE ReverseAudio(p)
    <3>1. pc[p] = "r_reverse"
      BY <2>5 DEF ReverseAudio
    <3>2. p = "rev"
      BY <2>1, <3>1 DEF LabelsOf, GuiLabel, DspLabel, EndLabel, Program
    <3> QED
      BY <2>5, <3>2, DataReverses
  <2>6. CASE SendMessage(p) \/ RecvMessage(p)
    BY <2>2, <2>6, DataMessages
  <2>7. CASE \/ SendChunk(p) \/ RecvConfirmation(p)
             \/ RecvChunk(p) \/ SendConfirmation(p)
    BY <2>2, <2>7, DataAudio
  <2> QED
    BY <1>3, <2>3, <2>4, <2>5, <2>6, <2>7, DataBind, DataAccept, DataConnect,
       DataDisconnect DEF Step
<1>4. ASSUME NEW p \in Program, Die(p)
      PROVE  DataInv'
  BY <1>4, DataEnds DEF Die, EndLabel
<1>5. ASSUME NEW p \in Program, Restart(p)
      PROVE  DataInv'
  BY <1>5, DataRestart
<1> QED
  BY <1>1, <1>2, <1>3, <1>4, <1>5 DEF Next

-----------------------------------------------------------------------------
(***************************************************************************)
(* What the user sees                                                      *)
(***************************************************************************)
BusyLabel == {"g_reverse", "g_ready", "g_tx", "g_rx", "g_set"}

LEMMA StatusOf ==
  /\ pc["gui"] \in EndLabel => EditorStatus = "closed"
  /\ pc["gui"] \in BusyLabel => EditorStatus = "busy"
  /\ pc["gui"] \notin EndLabel \cup BusyLabel => EditorStatus = "idle"
<1>1. Ended("gui") <=> pc["gui"] \in EndLabel
  BY DEF Ended, EndLabel
<1>2. pc["gui"] \in BusyLabel => pc["gui"] \notin EndLabel
  BY DEF EndLabel, BusyLabel
<1> QED
  BY <1>1, <1>2, Zenon DEF EditorStatus, BusyLabel

LEMMA StatusNext ==
  /\ pc'["gui"] \in EndLabel => EditorStatus' = "closed"
  /\ pc'["gui"] \in BusyLabel => EditorStatus' = "busy"
  /\ pc'["gui"] \notin EndLabel \cup BusyLabel => EditorStatus' = "idle"
<1>1. Ended("gui")' <=> pc'["gui"] \in EndLabel
  BY DEF Ended, EndLabel
<1>2. pc'["gui"] \in BusyLabel => pc'["gui"] \notin EndLabel
  BY DEF EndLabel, BusyLabel
<1> QED
  BY <1>1, <1>2, Zenon DEF EditorStatus, BusyLabel

\* The gui goes on with what it is doing.
LEMMA EditorGoesOn ==
  ASSUME file' = file,
         \/ pc'["gui"] = pc["gui"]
         \/ pc["gui"] \in BusyLabel /\ pc'["gui"] \in BusyLabel
         \/ /\ pc["gui"] \notin EndLabel \cup BusyLabel
            /\ pc'["gui"] \notin EndLabel \cup BusyLabel
  PROVE  UNCHANGED Editor!editorVars
<1>1. EditorStatus' = EditorStatus
  BY StatusOf, StatusNext
<1> QED
  BY <1>1 DEF Editor!editorVars

\* A program ends.
LEMMA EditorCloses ==
  ASSUME WaveTechInv, NEW p \in Program, NEW l \in EndLabel \cup {"r_bind"},
         EndWith(p, l), p = "gui" => l # "r_bind" /\ pc["gui"] \notin EndLabel
  PROVE  [Editor!EditorNext]_(Editor!editorVars)
<1>1. /\ file' = file /\ pc'[p] = l
      /\ \A q \in Program \ {p} : pc'[q] = pc[q]
  BY SessionTypes DEF EndWith, Goto
<1>2. CASE p = "gui"
  <2>1. pc'["gui"] \in EndLabel /\ pc["gui"] \notin EndLabel
    BY <1>1, <1>2
  <2>2. EditorStatus' = "closed" /\ EditorStatus \in {"idle", "busy"}
    BY <2>1, StatusOf, StatusNext
  <2>3. Editor!CloseEditor
    BY <1>1, <2>2 DEF Editor!CloseEditor
  <2> QED
    BY <2>3 DEF Editor!EditorNext
<1>3. CASE p # "gui"
  BY <1>1, <1>3, EditorGoesOn DEF Program
<1> QED
  BY <1>2, <1>3

\* The gui stores what has come back.
LEMMA EditorFinishes ==
  ASSUME WaveTechInv, DataInv, SetAudioBuffer("gui"), ~EndWith("gui", "crashed")
  PROVE  Editor!FinishReverse
<1>1. pc["gui"] = "g_set" /\ file' = audio["gui"] /\ pc'["gui"] = "menu"
  BY SessionTypes DEF SetAudioBuffer, Goto, Program
<1>2. file' = Back
  BY <1>1 DEF DataInv, GuiGets
<1>3. pc["gui"] \in BusyLabel /\ pc'["gui"] \notin EndLabel \cup BusyLabel
  BY <1>1 DEF BusyLabel, EndLabel
<1>4. EditorStatus = "busy" /\ EditorStatus' = "idle"
  BY <1>3, StatusOf, StatusNext
<1>5. ASSUME NEW c \in 1 .. 2, file[c] # <<>>
      PROVE  file'[c] = Editor!Reverse(file[c])
  <2>1. Cells(file[c]) = file[c]
    BY <1>5 DEF Cells
  <2>2. file'[c] = Reverse(file[c])
    BY <1>2, <2>1 DEF Back
  <2> QED
    BY <2>2 DEF Reverse, Editor!Reverse
<1> QED
  BY <1>4, <1>5 DEF Editor!FinishReverse

\* The calls of gui.cpp.
LEMMA InGui ==
  ASSUME WaveTechInv, NEW c, In("gui", c)
  PROVE  pc["gui"] \in {"g_exit", "g_stretch", "g_shift", "g_reverse", "g_ready",
                        "g_tx", "g_rx"}
<1>1. pc["gui"] \in DOMAIN GuiCalls \cup DOMAIN DspCalls \cup DOMAIN ReverseCalls
  BY DEF In, Calls
<1>2. pc["gui"] \in GuiLabel
  BY DEF WaveTechInv, ProgramInv, LabelsOf, Program
<1> QED
  BY <1>1, <1>2, Domains DEF GuiLabel, EndLabel

\* The calls of the pipes do not touch the file.
LEMMA EditorWaits ==
  ASSUME WaveTechInv, NEW p \in Program,
         \/ SendMessage(p) \/ RecvMessage(p)
         \/ SendChunk(p) \/ RecvConfirmation(p)
         \/ RecvChunk(p) \/ SendConfirmation(p),
         ~EndWith(p, "crashed")
  PROVE  UNCHANGED Editor!editorVars
<1>1. /\ file' = file
      /\ \/ pc' = pc
         \/ Goto(p, Site(p).next) /\ ~In(p, "recv_message")
         \/ /\ In(p, "recv_message")
            /\ \E t : Goto(p, AfterText(pc[p], t))
  BY DEF SendMessage, RecvMessage, SendChunk, RecvConfirmation, RecvChunk,
         SendConfirmation, In
<1>2. CASE p # "gui"
  <2>1. pc'["gui"] = pc["gui"]
    BY <1>1, <1>2, SessionTypes DEF Goto, Program
  <2> QED
    BY <1>1, <2>1, EditorGoesOn
<1>3. CASE p = "gui" /\ pc' = pc
  BY <1>1, <1>3, EditorGoesOn
<1>4. CASE p = "gui" /\ Goto(p, Site(p).next) /\ ~In(p, "recv_message")
  <2>1. pc'["gui"] = Site("gui").next
    BY <1>4, SessionTypes DEF Goto
  <2>2. pc["gui"] \in {"g_exit", "g_stretch", "g_shift", "g_reverse", "g_ready",
                       "g_tx", "g_rx"}
    BY <1>4, InGui DEF SendMessage, SendChunk, RecvConfirmation, RecvChunk,
                       SendConfirmation, RecvMessage
  <2>3. pc["gui"] # "g_ready"
    <3>1. Calls["g_ready"].call = "recv_message" /\ "g_ready" \in DOMAIN Calls
      BY GuiSites, Domains DEF Recv, Calls
    <3> QED
      BY <1>4, <3>1 DEF In
  <2>4. /\ pc["gui"] = "g_reverse" => Site("gui").next = "g_ready"
        /\ pc["gui"] = "g_tx" => Site("gui").next = "g_rx"
        /\ pc["gui"] = "g_rx" => Site("gui").next = "g_set"
        /\ pc["gui"] = "g_exit" => Site("gui").next = "g_quit"
        /\ pc["gui"] \in {"g_stretch", "g_shift"} => Site("gui").next = "menu"
    BY GuiSites DEF Site, Send, SendAudio, RecvAudio
  <2>5. \/ pc["gui"] \in BusyLabel /\ pc'["gui"] \in BusyLabel
        \/ /\ pc["gui"] \notin EndLabel \cup BusyLabel
           /\ pc'["gui"] \notin EndLabel \cup BusyLabel
    BY <2>1, <2>2, <2>3, <2>4 DEF BusyLabel, EndLabel
  <2> QED
    BY <1>1, <2>5, EditorGoesOn
<1>5. CASE /\ p = "gui" /\ In(p, "recv_message")
           /\ \E t : Goto(p, AfterText(pc[p], t))
  <2>1. pc["gui"] = "g_ready"
    BY <1>5, RecvTable
  <2>2. pc'["gui"] = "g_tx"
    BY <1>5, <2>1, AfterTexts, SessionTypes DEF Goto
  <2>3. pc["gui"] \in BusyLabel /\ pc'["gui"] \in BusyLabel
    BY <2>1, <2>2 DEF BusyLabel
  <2> QED
    BY <1>1, <2>3, EditorGoesOn
<1> QED
  BY <1>1, <1>2, <1>3, <1>4, <1>5

\* The gui is started, and the user chooses.
LEMMA EditorActs ==
  ASSUME WaveTechInv, StartGui \/ User
  PROVE  [Editor!EditorNext]_(Editor!editorVars)
<1>1. pc \in [Program -> Label] /\ "gui" \in Program
  BY SessionTypes DEF Program
<1>2. CASE StartGui
  <2>1. pc["gui"] = "g_connect"
    BY <1>2 DEF StartGui
  <2>2. CASE EndWith("gui", "crashed")
    BY <1>1, <2>1, <2>2, EditorCloses DEF EndLabel
  <2>3. CASE ~EndWith("gui", "crashed")
    <3>1. pc'["gui"] = "menu" /\ file' = file
      BY <1>1, <1>2, <2>3 DEF StartGui, Goto
    <3>2. /\ pc["gui"] \notin EndLabel \cup BusyLabel
          /\ pc'["gui"] \notin EndLabel \cup BusyLabel
      BY <2>1, <3>1 DEF EndLabel, BusyLabel
    <3> QED
      BY <3>1, <3>2, EditorGoesOn
  <2> QED
    BY <2>2, <2>3
<1>3. CASE User
  <2>1. pc["gui"] = "menu" /\ (Load \/ \E cmd \in Command \ {"load"} : Choose(cmd))
    BY <1>3 DEF User
  <2>2. pc["gui"] \notin EndLabel \cup BusyLabel
    BY <2>1 DEF EndLabel, BusyLabel
  <2>3. EditorStatus = "idle"
    BY <2>2, StatusOf
  <2>4. CASE Load
    <3>1. file' \in Buffers /\ pc'["gui"] = pc["gui"]
      BY <2>4 DEF Load
    <3>2. EditorStatus' = EditorStatus
      BY <2>2, <2>3, <3>1, StatusNext
    <3>3. Editor!LoadFile
      BY <2>3, <3>1, <3>2 DEF Editor!LoadFile
    <3> QED
      BY <3>3 DEF Editor!EditorNext
  <2>5. ASSUME NEW cmd \in Command \ {"load"}, Choose(cmd)
        PROVE  [Editor!EditorNext]_(Editor!editorVars)
    <3>1. /\ file' = file
          /\ pc'["gui"] \in {"g_reverse", "g_stretch", "g_shift", "g_exit"}
      BY <1>1, <2>5 DEF Choose, Goto, Command
    <3>2. CASE pc'["gui"] = "g_reverse"
      <4>1. pc'["gui"] \in BusyLabel
        BY <3>2 DEF BusyLabel
      <4>2. EditorStatus' = "busy"
        BY <4>1, StatusNext
      <4>3. Editor!StartReverse
        BY <2>3, <3>1, <4>2 DEF Editor!StartReverse
      <4> QED
        BY <4>3 DEF Editor!EditorNext
    <3>3. CASE pc'["gui"] # "g_reverse"
      <4>1. pc'["gui"] \notin EndLabel \cup BusyLabel
        BY <3>1, <3>3 DEF BusyLabel, EndLabel
      <4> QED
        BY <2>2, <3>1, <4>1, EditorGoesOn
    <3> QED
      BY <3>2, <3>3
  <2> QED
    BY <2>1, <2>4, <2>5
<1> QED
  BY <1>2, <1>3

\* A program is started again, the gui without a file.
LEMMA EditorReopens ==
  ASSUME WaveTechInv, NEW p \in Program, Restart(p)
  PROVE  [Editor!EditorNext]_(Editor!editorVars)
<1>1. /\ pc[p] \in {"crashed", "killed"} /\ pc'[p] = Entry[p]
      /\ \A q \in Program \ {p} : pc'[q] = pc[q]
      /\ IF p = "gui" THEN file' = Empty ELSE file' = file
  BY SessionTypes DEF Restart, Goto
<1>2. CASE p = "gui"
  <2>1. pc["gui"] \in EndLabel /\ pc'["gui"] \notin EndLabel \cup BusyLabel
    BY <1>1, <1>2 DEF EndLabel, BusyLabel, Entry
  <2>2. EditorStatus = "closed" /\ EditorStatus' = "idle"
    BY <2>1, StatusOf, StatusNext
  <2>3. Editor!ReopenEditor
    BY <1>1, <1>2, <2>2 DEF Editor!ReopenEditor, Empty
  <2> QED
    BY <2>3 DEF Editor!EditorNext
<1>3. CASE p # "gui"
  BY <1>1, <1>3, EditorGoesOn DEF Program
<1> QED
  BY <1>2, <1>3

\* A step of a program.
LEMMA EditorSteps ==
  ASSUME WaveTechInv, DataInv, NEW p \in Program, Step(p)
  PROVE  [Editor!EditorNext]_(Editor!editorVars)
<1>1. pc[p] \in LabelsOf(p)
  BY DEF WaveTechInv, ProgramInv
<1>2. p = "gui" => pc["gui"] \notin EndLabel
  <2> SUFFICES ASSUME p = "gui" PROVE pc["gui"] \notin EndLabel
    OBVIOUS
  <2>1. CASE pc["gui"] \in DOMAIN Calls
    BY <2>1, Domains DEF Calls, EndLabel
  <2>2. CASE pc["gui"] \notin DOMAIN Calls
    <3>1. \/ Bind(p) \/ AcceptClient(p) \/ ConnectReverse(p) \/ Disconnect(p)
          \/ DropPipe(p) \/ ReverseAudio(p) \/ SetAudioBuffer(p) \/ Quit(p)
      <4>1. \A c : ~In(p, c)
        BY <2>2 DEF In
      <4> QED
        BY <4>1 DEF Step, SendMessage, RecvMessage, SendChunk, SendAborts,
                    RecvConfirmation, RecvChunk, SendConfirmation
    <3>2. pc[p] \in {"d_bind", "r_bind", "d_accept", "r_accept", "d_connect", "d_xconnect",
                     "d_disc", "r_disc", "r_xdisc", "r_drop", "r_reverse", "g_set", "g_quit"}
      BY <3>1 DEF Bind, AcceptClient, ConnectReverse, Disconnect, DropPipe,
                  ReverseAudio, SetAudioBuffer, Quit
    <3> QED
      BY <3>2 DEF EndLabel
  <2> QED
    BY <2>1, <2>2
<1>3. CASE EndWith(p, "crashed")
  BY <1>2, <1>3, EditorCloses DEF EndLabel
<1>4. CASE \/ SendMessage(p) \/ RecvMessage(p) \/ SendChunk(p)
           \/ RecvConfirmation(p) \/ RecvChunk(p) \/ SendConfirmation(p)
  BY <1>3, <1>4, EditorWaits
<1>5. CASE SendAborts(p)
  BY <1>3, <1>5 DEF SendAborts
<1>6. CASE Quit(p)
  <2>1. EndWith(p, "exited")
    BY <1>6 DEF Quit
  <2> QED
    BY <1>2, <2>1, EditorCloses DEF EndLabel
<1>7. CASE SetAudioBuffer(p)
  <2>1. pc[p] = "g_set"
    BY <1>7 DEF SetAudioBuffer
  <2>2. p = "gui"
    BY <1>1, <2>1 DEF LabelsOf, DspLabel, ReverseLabel, EndLabel, Program
  <2> QED
    BY <1>3, <1>7, <2>2, EditorFinishes DEF Editor!EditorNext
<1>8. CASE \/ Bind(p) \/ AcceptClient(p) \/ ConnectReverse(p)
           \/ Disconnect(p) \/ DropPipe(p) \/ ReverseAudio(p)
  <2>1. pc[p] \in {"d_bind", "r_bind", "d_accept", "r_accept", "d_connect", "d_xconnect",
                   "d_disc", "r_disc", "r_xdisc", "r_drop", "r_reverse"}
    BY <1>8 DEF Bind, AcceptClient, ConnectReverse, Disconnect, DropPipe, ReverseAudio
  <2>2. p # "gui"
    BY <1>1, <2>1 DEF LabelsOf, GuiLabel, EndLabel
  <2>3. file' = file /\ \E l : Goto(p, l)
    BY <1>8 DEF Bind, AcceptClient, ConnectReverse, Disconnect, DropPipe, ReverseAudio,
                EndWith
  <2>4. pc'["gui"] = pc["gui"]
    BY <2>2, <2>3, SessionTypes DEF Goto, Program
  <2> QED
    BY <2>3, <2>4, EditorGoesOn
<1> QED
  BY <1>4, <1>5, <1>6, <1>7, <1>8 DEF Step

LEMMA EditorSimulated ==
  ASSUME WaveTechInv, DataInv, [Next]_vars
  PROVE  [Editor!EditorNext]_(Editor!editorVars)
<1>1. CASE UNCHANGED vars
  BY <1>1, EditorGoesOn DEF vars
<1>2. CASE StartGui \/ User
  BY <1>2, EditorActs
<1>3. ASSUME NEW p \in Program, Step(p)
      PROVE  [Editor!EditorNext]_(Editor!editorVars)
  BY <1>3, EditorSteps
<1>4. ASSUME NEW p \in Program, Die(p)
      PROVE  [Editor!EditorNext]_(Editor!editorVars)
  <2>1. pc[p] \notin EndLabel /\ EndWith(p, "killed")
    BY <1>4 DEF Die, Ended, EndLabel
  <2> QED
    BY <2>1, EditorCloses DEF EndLabel
<1>5. ASSUME NEW p \in Program, Restart(p)
      PROVE  [Editor!EditorNext]_(Editor!editorVars)
  BY <1>5, EditorReopens
<1> QED
  BY <1>1, <1>2, <1>3, <1>4, <1>5 DEF Next

\* With whole reads the three programs implement AudioEditor, whatever the
\* timing, whatever the user does, and whichever program dies and is started
\* again at any moment: the gui's file changes only by a load or by a reversal
\* that is complete, and setAudioBuffer (gui.cpp) then stores the exact
\* reversal of the file, for every length of the channels and every CHUNK_SIZE.
THEOREM WaveTechImplementsEditor == ASSUME WholeReads PROVE Spec => FileAsPromised
<1>1. Init => WaveTechInv /\ SessionInv /\ DataInv
  BY WaveTechInit, SessionInit, DataInit
<1>2. WaveTechInv /\ SessionInv /\ DataInv /\ [Next]_vars
        => (WaveTechInv /\ SessionInv /\ DataInv)'
  BY WaveTechNext, SessionNext, DataNext
<1>3. Init => Editor!EditorInit
  <2> SUFFICES ASSUME Init PROVE Editor!EditorInit
    OBVIOUS
  <2>1. file = <<<<>>, <<>>>> /\ pc["gui"] = "g_connect"
    BY DEF Init, Entry, Empty
  <2>2. EditorStatus = "idle"
    BY <2>1, StatusOf DEF EndLabel, BusyLabel
  <2> QED
    BY <2>1, <2>2 DEF Editor!EditorInit
<1>4. WaveTechInv /\ DataInv /\ [Next]_vars => [Editor!EditorNext]_(Editor!editorVars)
  BY EditorSimulated
<1> QED
  BY <1>1, <1>2, <1>3, <1>4, PTL DEF Spec, FileAsPromised, Editor!EditorSpec

-----------------------------------------------------------------------------
(***************************************************************************)
(* A patient user                                                          *)
(*                                                                         *)
(* The user starts the gui when both services listen, and acts only when   *)
(* all three programs are at rest; only the reverse service is ever        *)
(* killed, and then.  The two channels of a file are equally long, and not *)
(* empty: send_audio would read outside them.                              *)
(***************************************************************************)
Patient ==
  /\ WholeReads
  /\ Patience = "always" /\ MayDie \subseteq {"rev"}
  /\ \A b \in Buffers : Len(b[1]) = Len(b[2]) /\ b[1] # <<>>

\* An acceptor is there until its program ends or drops its pipe.
Listens ==
  /\ net.listening[5500] <=> pc["dsp"] \notin {"d_bind"} \cup EndLabel
  /\ net.listening[8800] <=> pc["rev"] \notin {"r_bind"} \cup EndLabel

\* The gui reverses only a file that has been loaded.
FileFits ==
  /\ loaded => Len(file[1]) = Len(file[2]) /\ file[1] # <<>>
  /\ pc["gui"] \in BusyLabel => loaded

\* For a channel that ends with a full chunk recv_audio waits in vain, so what
\* has come from the gui to the dsp ends with a short one.
Passed == DspWork \cup {"d_txgui"}

ShortEnd == pc["dsp"] \in Passed => ~Multiple(Len(Back[2]))

(***************************************************************************)
(* The reverse service waits for a client; is not talking to anybody; is   *)
(* connected to the dsp; or has been told to exit.                         *)
(***************************************************************************)
ReverseWork ==
  {"r_recv", "r_ready", "r_rx", "r_reverse", "r_done", "r_fetch", "r_tx"}

Waits == pc["rev"] = "r_accept" /\ net.status["pend8800"] = "closed"

Rests ==
  /\ pc["rev"] \in {"r_accept", "r_disc", "r_drop", "r_bind", "killed"}
  /\ net.status["pend8800"] = "closed"
  /\ pc["rev"] = "r_disc" => net.status["rev8800"] = "open"

Engaged ==
  \/ pc["rev"] = "r_accept" /\ net.peer["dsp8800"] = "pend8800"
  \/ /\ pc["rev"] \in ReverseWork
     /\ Linked /\ net.status["pend8800"] = "closed"

Leaves ==
  \/ /\ pc["rev"] = "r_accept" /\ net.status["pend8800"] = "open"
     /\ net.inbuf["pend8800"] = TextBytes("exit")
  \/ /\ pc["rev"] = "r_recv" /\ net.status["rev8800"] = "open"
     /\ net.status["pend8800"] = "closed"
     /\ net.inbuf["rev8800"] = TextBytes("exit")
  \/ /\ pc["rev"] = "r_xdisc" /\ net.status["rev8800"] = "open"
     /\ net.status["pend8800"] = "closed"
  \/ pc["rev"] = "exited"

\* The service is gone, and everything up to the end of the reversal is on
\* the stream that it has left.
AllSent ==
  /\ stage["dsp"] = "right" /\ net.status["dsp8800"] = "open"
  /\ GetsTo("right", audio["dsp"], buffer_idx["dsp"], net.inbuf["dsp8800"],
            Back, Len(Back[2]))

(***************************************************************************)
(* The phases of a session.                                                *)
(***************************************************************************)
Starting ==
  /\ pc["gui"] = "g_connect"
  /\ pc["dsp"] \in {"d_bind", "d_accept"} /\ pc["rev"] \in {"r_bind", "r_accept"}
  /\ \A s \in Sock : net.status[s] = "closed"

Greeting ==
  /\ pc["gui"] = "menu" /\ pc["dsp"] = "d_accept" /\ Waits
  /\ net.peer["gui"] = "pend5500" /\ net.inbuf["pend5500"] = <<>>

\* A command is on its way.
Asking ==
  /\ Live /\ pc["dsp"] = "d_loop" /\ Waits
  /\ \/ /\ pc["gui"] \in {"g_stretch", "g_shift", "g_reverse", "g_exit"}
        /\ net.inbuf["dsp5500"] = <<>>
     \/ /\ pc["gui"] = "menu"
        /\ net.inbuf["dsp5500"] \in {TextBytes("stretch"), TextBytes("shift")}
     \/ pc["gui"] = "g_ready" /\ net.inbuf["dsp5500"] = TextBytes("reverse")

\* The file goes to the dsp, to the service and back,
Reversing ==
  /\ Live
  /\ \/ /\ pc["gui"] \in {"g_ready", "g_tx", "g_rx"}
        /\ pc["dsp"] \in {"d_ready", "d_rxgui", "d_connect"} /\ Waits
     \/ /\ pc["gui"] = "g_rx" /\ Engaged
        /\ pc["dsp"] \in {"d_run", "d_started", "d_txrev", "d_done", "d_fetch", "d_rxrev"}
     \/ pc["gui"] = "g_rx" /\ pc["dsp"] = "d_rxrev" /\ Rests /\ AllSent
     \/ pc["gui"] = "g_rx" /\ pc["dsp"] = "d_txgui" /\ Rests

\* and is read by the gui.
Resting ==
  /\ Live /\ Rests
  /\ pc["gui"] \in {"g_rx", "g_set", "menu"}
  /\ pc["dsp"] = "d_loop" /\ net.inbuf["dsp5500"] = <<>>

Exiting ==
  /\ pc["gui"] \in {"g_quit", "exited"}
  /\ \/ /\ pc["dsp"] = "d_loop" /\ net.inbuf["dsp5500"] = TextBytes("exit")
        /\ Waits /\ net.status["dsp5500"] = "open"
     \/ pc["dsp"] = "d_xconnect" /\ Waits /\ net.status["dsp5500"] = "open"
     \/ pc["dsp"] = "d_stop" /\ Engaged /\ net.status["dsp5500"] = "open"
     \/ pc["dsp"] = "d_disc" /\ Leaves /\ net.status["dsp5500"] = "open"
     \/ pc["dsp"] = "exited" /\ Leaves

SessionPhase ==
  Starting \/ Greeting \/ Asking \/ Reversing \/ Resting \/ Exiting

PhaseInv == Listens /\ FileFits /\ SessionPhase

PatientInv == PhaseInv /\ ShortEnd

-----------------------------------------------------------------------------
(***************************************************************************)
(* What happens to the other sockets                                       *)
(***************************************************************************)

\* A socket goes: only its peer may notice, and loses nothing without abort.
LEMMA GoneEffect ==
  ASSUME NEW n \in NetOf(Byte), NEW s \in Sock, NEW abort \in BOOLEAN
  PROVE  LET m == Gone(n, s, abort)
         IN  /\ m.listening = n.listening
             /\ m.status[s] = "closed"
             /\ \A t \in Sock \ {s} :
                  /\ m.peer[t] = IF t = n.peer[s] THEN None ELSE n.peer[t]
                  /\ ~(t = n.peer[s] /\ abort) =>
                       m.status[t] = n.status[t] /\ m.inbuf[t] = n.inbuf[t]
<1> DEFINE st == [t \in Sock |-> IF t = s THEN "closed"
                                 ELSE IF t = n.peer[s] /\ abort THEN "reset"
                                 ELSE n.status[t]]
           pe == [t \in Sock |-> IF t = s \/ t = n.peer[s] THEN None
                                 ELSE n.peer[t]]
           ib == [t \in Sock |-> IF t = s \/ (t = n.peer[s] /\ abort)
                                 THEN <<>> ELSE n.inbuf[t]]
           m == Gone(n, s, abort)
<1>1. m = [n EXCEPT !.status = st, !.peer = pe, !.inbuf = ib]
  BY Zenon DEF Gone
<1>2. /\ st[s] = "closed"
      /\ \A t \in Sock \ {s} :
           /\ pe[t] = IF t = n.peer[s] THEN None ELSE n.peer[t]
           /\ ~(t = n.peer[s] /\ abort) => st[t] = n.status[t] /\ ib[t] = n.inbuf[t]
  OBVIOUS
<1> HIDE DEF st, pe, ib, m
<1>3. /\ m.status = st /\ m.peer = pe /\ m.inbuf = ib
      /\ m.listening = n.listening
  BY <1>1 DEF NetOf
<1> QED
  BY <1>2, <1>3 DEF m

\* An acceptor comes or goes.
LEMMA ListeningEffect ==
  ASSUME NEW n \in NetOf(Byte), NEW port \in Port, NEW on \in BOOLEAN
  PROVE  LET m == [n EXCEPT !.listening[port] = on]
         IN  /\ m.status = n.status /\ m.peer = n.peer /\ m.inbuf = n.inbuf
             /\ m.listening[port] = on
             /\ \A q \in Port \ {port} : m.listening[q] = n.listening[q]
BY NetFields DEF NetOf

\* socket::close without unread input.
LEMMA CloseEffect ==
  ASSUME NEW n \in NetOf(Byte), NEW s \in Sock, n.inbuf[s] = <<>>
  PROVE  LET m == Close(n, s)
         IN  /\ m.listening = n.listening /\ m.status[s] = "closed"
             /\ \A t \in Sock \ {s} :
                  /\ m.peer[t] = IF t = n.peer[s] THEN None ELSE n.peer[t]
                  /\ m.status[t] = n.status[t] /\ m.inbuf[t] = n.inbuf[t]
<1>1. Close(n, s) = Gone(n, s, FALSE)
  BY DEF Close
<1> DEFINE m == Gone(n, s, FALSE)
<1>2. FALSE \in BOOLEAN
  OBVIOUS
<1>3. /\ m.listening = n.listening /\ m.status[s] = "closed"
      /\ \A t \in Sock \ {s} :
           /\ m.peer[t] = IF t = n.peer[s] THEN None ELSE n.peer[t]
           /\ ~(t = n.peer[s] /\ FALSE) =>
                m.status[t] = n.status[t] /\ m.inbuf[t] = n.inbuf[t]
  BY <1>2, GoneEffect
<1> HIDE DEF m
<1>4. \A t \in Sock \ {s} :
        m.status[t] = n.status[t] /\ m.inbuf[t] = n.inbuf[t]
  BY <1>3
<1> QED
  BY <1>1, <1>3, <1>4, Zenon DEF m

\* An acceptor goes.
LEMMA StopEffect ==
  ASSUME NEW n \in NetOf(Byte), NEW port \in Port
  PROVE  LET m == StopListening(n, port)
             q == Pending(port)
         IN  /\ ~m.listening[port] /\ m.status[q] = "closed"
             /\ \A r \in Port \ {port} : m.listening[r] = n.listening[r]
             /\ \A t \in Sock \ {q, n.peer[q]} :
                  /\ m.peer[t] = n.peer[t]
                  /\ m.status[t] = n.status[t] /\ m.inbuf[t] = n.inbuf[t]
<1> DEFINE k == [n EXCEPT !.listening[port] = FALSE]
           q == Pending(port)
           m == Gone(k, q, TRUE)
<1>1. /\ k \in NetOf(Byte)
      /\ k.status = n.status /\ k.peer = n.peer /\ k.inbuf = n.inbuf
      /\ k.listening[port] = FALSE
      /\ \A r \in Port \ {port} : k.listening[r] = n.listening[r]
  BY ListeningType, ListeningEffect
<1>2. StopListening(n, port) = m /\ q \in Sock
  BY DEF StopListening, Pending, Sock
<1> HIDE DEF k, q
<1>3. /\ m.listening = k.listening /\ m.status[q] = "closed"
      /\ \A t \in Sock \ {q} :
           /\ m.peer[t] = IF t = k.peer[q] THEN None ELSE k.peer[t]
           /\ ~(t = k.peer[q] /\ TRUE) =>
                m.status[t] = k.status[t] /\ m.inbuf[t] = k.inbuf[t]
  BY <1>1, <1>2, GoneEffect
<1> HIDE DEF m
<1> QED
  BY <1>1, <1>2, <1>3 DEF q

\* The gui ends and has read everything: the dsp keeps what it has not read.
LEMMA GuiGone ==
  ASSUME NEW n \in NetOf(Byte), Wired(n), n.inbuf["gui"] = <<>>
  PROVE  LET m == CloseAll(n, "gui")
         IN  /\ m.listening = n.listening
             /\ \A t \in Sock \ {"gui"} :
                  m.status[t] = n.status[t] /\ m.inbuf[t] = n.inbuf[t]
             /\ m.peer["dsp8800"] = n.peer["dsp8800"]
<1>1. CloseAll(n, "gui") = Close(n, "gui") /\ "gui" \in Sock /\ "dsp8800" \in Sock
  BY DEF CloseAll, Sock
<1>2. n.peer["gui"] # "dsp8800"
  BY DEF Wired, None
<1> QED
  BY <1>1, <1>2, CloseEffect

\* The dsp ends, and has read everything from the service.
LEMMA DspGone ==
  ASSUME NEW n \in NetOf(Byte), Wired(n), n.inbuf["dsp8800"] = <<>>
  PROVE  LET m == CloseAll(n, "dsp")
         IN  /\ ~m.listening[5500] /\ m.listening[8800] = n.listening[8800]
             /\ \A t \in {"rev8800", "pend8800"} :
                  m.status[t] = n.status[t] /\ m.inbuf[t] = n.inbuf[t]
<1> DEFINE a == Close(n, "dsp8800")
           b == Close(a, "dsp5500")
           m == StopListening(b, 5500)
<1>1. /\ {"rev8800", "pend8800", "dsp8800", "dsp5500"} \subseteq Sock
      /\ 5500 \in Port /\ 8800 \in Port \ {5500} /\ Pending(5500) = "pend5500"
  BY DEF Sock, Port, Pending
<1>2. CloseAll(n, "dsp") = m
  BY DEF CloseAll
<1>3. /\ a \in NetOf(Byte) /\ Wired(a) /\ a.listening = n.listening
      /\ \A t \in {"rev8800", "pend8800"} :
           a.status[t] = n.status[t] /\ a.inbuf[t] = n.inbuf[t]
  BY <1>1, CloseEffect, CloseShrinks
<1> HIDE DEF a
<1>4. a.peer["dsp5500"] \in {None, "gui"} /\ (a.inbuf["dsp5500"] # <<>>) \in BOOLEAN
  BY <1>3 DEF Wired
<1>5. /\ b \in NetOf(Byte) /\ Wired(b)
      /\ b.listening = a.listening
      /\ \A t \in {"rev8800", "pend8800"} :
           b.status[t] = a.status[t] /\ b.inbuf[t] = a.inbuf[t]
  <2>1. b \in NetOf(Byte) /\ Wired(b)
    BY <1>1, <1>3, CloseShrinks
  <2> DEFINE ab == a.inbuf["dsp5500"] # <<>>
  <2>2. b = Gone(a, "dsp5500", ab)
    BY DEF Close
  <2> HIDE DEF ab, b
  <2>3. /\ b.listening = a.listening /\ b.status["dsp5500"] = "closed"
        /\ \A t \in Sock \ {"dsp5500"} :
             /\ b.peer[t] = IF t = a.peer["dsp5500"] THEN None ELSE a.peer[t]
             /\ ~(t = a.peer["dsp5500"] /\ ab) =>
                  b.status[t] = a.status[t] /\ b.inbuf[t] = a.inbuf[t]
    <3>1. ab \in BOOLEAN /\ "dsp5500" \in Sock
      BY <1>1, <1>4 DEF ab
    <3> QED
      BY <1>3, <2>2, <3>1, GoneEffect
  <2> QED
    BY <1>1, <1>4, <2>1, <2>3 DEF None
<1> HIDE DEF b
<1>6. b.peer["pend5500"] \in {None, "gui"}
  BY <1>5 DEF Wired
<1>7. /\ ~m.listening[5500] /\ m.listening[8800] = b.listening[8800]
      /\ \A t \in {"rev8800", "pend8800"} :
           m.status[t] = b.status[t] /\ m.inbuf[t] = b.inbuf[t]
  BY <1>1, <1>5, <1>6, StopEffect DEF None
<1> HIDE DEF m
<1> QED
  BY <1>2, <1>3, <1>5, <1>7

\* The service ends or drops its pipe, nobody waits to be accepted, and it has
\* read everything: the dsp keeps what it has not read.
LEMMA ReverseGone ==
  ASSUME NEW n \in NetOf(Byte), Wired(n), n.inbuf["rev8800"] = <<>>,
         n.status["pend8800"] = "closed"
  PROVE  LET m == CloseAll(n, "rev")
         IN  /\ ~m.listening[8800] /\ m.listening[5500] = n.listening[5500]
             /\ \A t \in Sock \ {"rev8800", "pend8800"} :
                  m.status[t] = n.status[t] /\ m.inbuf[t] = n.inbuf[t]
             /\ m.status["pend8800"] = "closed"
             /\ m.peer["gui"] = n.peer["gui"]
<1> DEFINE a == Close(n, "rev8800")
           m == StopListening(a, 8800)
<1>1. /\ {"rev8800", "pend8800", "dsp8800", "dsp5500", "gui"} \subseteq Sock
      /\ 8800 \in Port /\ 5500 \in Port \ {8800} /\ Pending(8800) = "pend8800"
  BY DEF Sock, Port, Pending
<1>2. CloseAll(n, "rev") = m
  BY DEF CloseAll
<1>3. n.peer["rev8800"] \in {None, "dsp8800"}
  BY DEF Wired
<1>4. /\ a \in NetOf(Byte) /\ Wired(a) /\ a.listening = n.listening
      /\ \A t \in Sock \ {"rev8800"} :
           a.status[t] = n.status[t] /\ a.inbuf[t] = n.inbuf[t]
      /\ a.peer["gui"] = n.peer["gui"]
  <2>1. a \in NetOf(Byte) /\ Wired(a)
    BY <1>1, CloseShrinks
  <2>2. /\ a.listening = n.listening
        /\ \A t \in Sock \ {"rev8800"} :
             /\ a.peer[t] = IF t = n.peer["rev8800"] THEN None ELSE n.peer[t]
             /\ a.status[t] = n.status[t] /\ a.inbuf[t] = n.inbuf[t]
    <3>1. "rev8800" \in Sock
      BY <1>1
    <3> QED
      BY <3>1, CloseEffect
  <2> HIDE DEF a
  <2>3. a.peer["gui"] = n.peer["gui"]
    BY <1>1, <1>3, <2>2 DEF None
  <2> QED
    BY <2>1, <2>2, <2>3
<1> HIDE DEF a
<1>5. a.peer["pend8800"] = None
  BY <1>1, <1>4 DEF Wired
<1>6. None \notin Sock
  BY DEF None, Sock
<1>7. /\ ~m.listening[8800] /\ m.status["pend8800"] = "closed"
      /\ m.listening[5500] = a.listening[5500]
      /\ \A t \in Sock \ {"pend8800"} :
           /\ m.peer[t] = a.peer[t]
           /\ m.status[t] = a.status[t] /\ m.inbuf[t] = a.inbuf[t]
  BY <1>1, <1>4, <1>5, <1>6, StopEffect
<1> HIDE DEF m
<1> QED
  BY <1>1, <1>2, <1>4, <1>7

\* What connect and accept do beside the connection itself.
LEMMA ConnectBeside ==
  ASSUME NEW n \in NetOf(Byte), NEW s \in {"gui", "dsp8800"}, n.inbuf[s] = <<>>,
         NEW port, port = IF s = "gui" THEN 5500 ELSE 8800
  PROVE  LET m == Connect(n, s, port)
             q == Pending(port)
         IN  /\ m.listening = n.listening
             /\ m.peer[s] = q /\ m.status[q] = "open"
             /\ m.inbuf[q] = <<>>
             /\ \A t \in Sock \ {s, q} :
                  /\ m.status[t] = n.status[t] /\ m.inbuf[t] = n.inbuf[t]
                  /\ t # n.peer[s] => m.peer[t] = n.peer[t]
<1> DEFINE k == Close(n, s)
           q == Pending(port)
           m == Link(k, s, q)
<1>1. s \in Sock /\ q \in Sock /\ s # q
  BY DEF Sock, Pending
<1>2. /\ k \in NetOf(Byte) /\ k.listening = n.listening
      /\ \A t \in Sock \ {s} :
           /\ k.peer[t] = IF t = n.peer[s] THEN None ELSE n.peer[t]
           /\ k.status[t] = n.status[t] /\ k.inbuf[t] = n.inbuf[t]
  <2>1. k \in NetOf(Byte)
    BY <1>1, CloseType
  <2>2. /\ k.listening = n.listening
        /\ \A t \in Sock \ {s} :
             /\ k.peer[t] = IF t = n.peer[s] THEN None ELSE n.peer[t]
             /\ k.status[t] = n.status[t] /\ k.inbuf[t] = n.inbuf[t]
    BY <1>1, CloseEffect
  <2> HIDE DEF k
  <2> QED
    BY <2>1, <2>2
<1>0. m = Link(k, s, q)
  OBVIOUS
<1> HIDE DEF k, q, m
<1>3. \A t \in Sock :
        /\ m.status[t] = IF t \in {s, q} THEN "open" ELSE k.status[t]
        /\ m.peer[t] = IF t = s THEN q ELSE IF t = q THEN s ELSE k.peer[t]
        /\ m.inbuf[t] = IF t \in {s, q} THEN <<>> ELSE k.inbuf[t]
  BY <1>0, <1>1, <1>2, LinkEffect
<1>4. m.listening = k.listening
  BY <1>0, <1>2 DEF Link, NetOf
<1>5. Connect(n, s, port) = m
  BY <1>0 DEF Connect, k, q
<1>6. /\ m.listening = n.listening
      /\ m.peer[s] = q /\ m.status[q] = "open" /\ m.inbuf[q] = <<>>
      /\ \A t \in Sock \ {s, q} :
           /\ m.status[t] = n.status[t] /\ m.inbuf[t] = n.inbuf[t]
           /\ t # n.peer[s] => m.peer[t] = n.peer[t]
  BY <1>1, <1>2, <1>3, <1>4
<1> QED
  BY <1>5, <1>6 DEF q

LEMMA AcceptBeside ==
  ASSUME NEW n \in NetOf(Byte), NEW s \in {"dsp5500", "rev8800"},
         NEW port, port = IF s = "dsp5500" THEN 5500 ELSE 8800
  PROVE  LET m == Accept(n, s, port)
             q == Pending(port)
         IN  /\ m.listening = n.listening
             /\ m.status[s] = "open" /\ m.status[q] = "closed"
<1> DEFINE q == Pending(port)
           m == Accept(n, s, port)
           st == [n.status EXCEPT ![s] = "open", ![q] = "closed"]
           pe == [t \in Sock |-> IF t = s THEN n.peer[q]
                                 ELSE IF t = q THEN None
                                 ELSE IF n.peer[t] = q THEN s ELSE n.peer[t]]
           ib == [n.inbuf EXCEPT ![s] = n.inbuf[q], ![q] = <<>>]
<1>1. m = [n EXCEPT !.status = st, !.peer = pe, !.inbuf = ib]
  BY Zenon DEF Accept
<1>2. st[s] = "open" /\ st[q] = "closed"
  BY NetFields DEF Sock, Pending
<1> HIDE DEF st, pe, ib, m
<1>3. m.status = st /\ m.listening = n.listening
  BY <1>1 DEF NetOf
<1> QED
  BY <1>2, <1>3 DEF m, q

-----------------------------------------------------------------------------
(***************************************************************************)
(* No call of a pipe throws                                                *)
(***************************************************************************)

\* The last chunk of a channel that is not a multiple of CHUNK_SIZE ends it.
LEMMA LastChunkEnds ==
  ASSUME NEW ch \in Seq(Float), NEW idx \in Nat, Multiple(idx),
         idx < Len(Cells(ch)), LastChunk(ch, idx), ~Multiple(Len(Cells(ch)))
  PROVE  idx + ChunkLen(ch, idx) = Len(Cells(ch))
<1> DEFINE C == CHUNK_SIZE
           L == Len(Cells(ch))
<1>1. C \in Nat \ {0}
  BY StreamAssumption
<1>2. L \in Nat
  <2>1. <<Garbage>> \in Seq(Float)
    BY DEF Float
  <2>2. Cells(ch) \in Seq(Float)
    BY <2>1 DEF Cells
  <2> QED
    BY <2>2
<1>3. PICK q \in Nat : idx = q * C
  BY DEF Multiple
<1>4. ChunkLen(ch, idx) = L % C /\ idx + C >= L /\ idx < L
  BY DEF ChunkLen, LastChunk
<1>5. idx + C # L
  <2>1. idx + C = (q + 1) * C /\ q + 1 \in Nat
    BY <1>1, <1>3
  <2> QED
    BY <2>1 DEF Multiple
<1> HIDE DEF C, L
<1>6. L = q * C + (L - idx) /\ (L - idx) \in 0 .. C - 1
  BY <1>1, <1>2, <1>3, <1>4, <1>5
<1>7. (L % C) = L - idx
  BY <1>1, <1>6, DivUnique
<1> QED
  BY <1>2, <1>4, <1>7 DEF L

\* A channel backwards.
LEMMA ReverseLength ==
  ASSUME NEW s \in Seq(Float)
  PROVE  Len(Reverse(s)) = Len(s)
<1> DEFINE L == Len(s)
<1>1. L \in Nat /\ \A i \in 1 .. L : s[i] \in Float
  OBVIOUS
<1>2. Reverse(s) = [i \in 1 .. L |-> s[(L - i) + 1]]
  BY DEF Reverse
<1> HIDE DEF L
<1>3. \A i \in 1 .. L : (L - i) + 1 \in 1 .. L
  BY <1>1
<1>4. Len(Reverse(s)) = L
  BY <1>1, <1>2, <1>3
<1> QED
  BY <1>4 DEF L

\* The file that is being reversed.
LEMMA BusyFile ==
  ASSUME WaveTechInv, FileFits, pc["gui"] \in BusyLabel
  PROVE  /\ loaded
         /\ \A c \in 1 .. 2 : /\ file[c] # <<>> /\ Want[c] # <<>> /\ Back[c] # <<>>
                              /\ Len(Back[c]) = Len(file[c])
         /\ Len(file[1]) = Len(file[2])
<1>1. loaded /\ Len(file[1]) = Len(file[2]) /\ file[1] # <<>>
  BY DEF FileFits
<1>2. file[1] \in Seq(Float) /\ file[2] \in Seq(Float)
  BY DataTypes, ChannelTypes
<1>4. Len(file[1]) # 0
  BY <1>1, <1>2
<1>5. \A c \in 1 .. 2 : file[c] # <<>> /\ Len(file[c]) # 0 /\ file[c] \in Seq(Float)
  <2>1. Len(<<>>) = 0
    OBVIOUS
  <2> QED
    BY <1>1, <1>2, <1>4, <2>1
<1>6. \A c \in 1 .. 2 : Cells(file[c]) = file[c]
  BY <1>5 DEF Cells
<1>7. \A c \in 1 .. 2 : Want[c] = file[c] /\ Back[c] = Reverse(file[c])
  BY <1>6 DEF Want, Back
<1>8. \A c \in 1 .. 2 : Len(Back[c]) = Len(file[c])
  BY <1>5, <1>7, ReverseLength
<1>9. \A c \in 1 .. 2 : Back[c] # <<>>
  <2>1. Len(<<>>) = 0
    OBVIOUS
  <2> QED
    BY <1>5, <1>8, <2>1
<1> QED
  BY <1>1, <1>5, <1>7, <1>8, <1>9

\* The end of the reversal is still to be read.
LEMMA AllSentLeft ==
  ASSUME WaveTechInv, ShortEnd, pc["dsp"] = "d_rxrev", AllSent
  PROVE  net.inbuf["dsp8800"] # <<>>
<1> DEFINE b == net.inbuf["dsp8800"]
           i == buffer_idx["dsp"]
           L == Len(Back[2])
<1>1. OnStream("right", i, b, Back, L) /\ ChannelIn("right") = 2
  BY DEF AllSent, GetsTo, ChannelIn
<1>2. Multiple(i) /\ i <= L /\ Carries(b, Back[2], i, L)
  BY <1>1 DEF OnStream
<1>3. i \in Nat /\ L \in Nat
  BY DataTypes, ChannelTypes DEF Program
<1>4. ~Multiple(L)
  BY DEF ShortEnd, Passed, DspWork
<1>5. Len(b) = (L - i) * FLOAT_BYTES
  BY <1>2 DEF Carries
<1> HIDE DEF b, i, L
<1>6. L - i \in Nat \ {0}
  BY <1>2, <1>3, <1>4
<1>7. 1 * FLOAT_BYTES <= (L - i) * FLOAT_BYTES /\ FLOAT_BYTES \in Nat \ {0}
  <2> DEFINE k == L - i
  <2>1. k \in Nat \ {0} /\ FLOAT_BYTES \in Nat \ {0}
    BY <1>6, StreamAssumption
  <2> HIDE DEF k
  <2>2. 1 * FLOAT_BYTES <= k * FLOAT_BYTES
    BY <2>1, MulMono
  <2> QED
    BY <2>1, <2>2 DEF k
<1>8. Len(b) # 0
  BY <1>5, <1>6, <1>7
<1> QED
  BY <1>8 DEF b

\* Where the programs are connected.
LEMMA WhoIsThere ==
  ASSUME SessionInv, PatientInv
  PROVE  /\ pc["gui"] \in {"g_exit", "g_stretch", "g_shift", "g_reverse", "g_ready",
                           "g_tx", "g_rx", "g_set"} => Live
         /\ pc["dsp"] = "d_loop" =>
              \/ Live
              \/ /\ net.status["dsp5500"] = "open"
                 /\ net.inbuf["dsp5500"] = TextBytes("exit")
         /\ pc["dsp"] \in {"d_ready", "d_rxgui", "d_txgui", "d_txrev"} => Live
         /\ pc["dsp"] \in {"d_run", "d_started", "d_txrev", "d_done", "d_fetch",
                           "d_stop"} => net.peer["dsp8800"] # None
         /\ pc["dsp"] = "d_rxrev" =>
              \/ net.peer["dsp8800"] # None
              \/ AllSent /\ pc["gui"] \in BusyLabel
         /\ pc["rev"] \in ReverseWork =>
              \/ Linked
              \/ /\ pc["rev"] = "r_recv" /\ net.status["rev8800"] = "open"
                 /\ net.inbuf["rev8800"] = TextBytes("exit")
         /\ pc["rev"] \in ReverseWork \ {"r_recv"} => Live
<1>1. Engaged => net.peer["dsp8800"] # None
  BY DEF Engaged, Linked, None
<1>2. pc["rev"] \in ReverseWork => ~Waits /\ ~Rests
  BY DEF ReverseWork, Waits, Rests
<1>3. (pc["rev"] \in ReverseWork /\ Engaged) => Linked
  BY DEF ReverseWork, Engaged
<1>4. (pc["rev"] \in ReverseWork /\ Leaves) =>
        /\ pc["rev"] = "r_recv" /\ net.status["rev8800"] = "open"
        /\ net.inbuf["rev8800"] = TextBytes("exit")
  BY DEF ReverseWork, Leaves
<1>5. (Linked /\ pc["dsp"] = "d_stop") => pc["rev"] \notin ReverseWork \ {"r_recv"}
  BY Phases DEF ReversePhase, DspAway, ReverseWork
<1>6. pc["rev"] \in ReverseWork => pc["rev"] \notin {"r_bind", "r_accept"}
  BY DEF ReverseWork
<1> HIDE DEF Waits, Rests, Engaged, Leaves, Linked, AllSent
<1>7. CASE Starting
  BY <1>6, <1>7 DEF Starting
<1>8. CASE Greeting
  BY <1>2, <1>8 DEF Greeting
<1>9. CASE Asking
  BY <1>2, <1>9 DEF Asking
<1>10. CASE Reversing
  BY <1>1, <1>2, <1>3, <1>10 DEF Reversing, BusyLabel
<1>11. CASE Resting
  BY <1>2, <1>11 DEF Resting
<1>12. CASE Exiting
  BY <1>1, <1>2, <1>3, <1>4, <1>5, <1>12 DEF Exiting
<1> QED
  BY <1>7, <1>8, <1>9, <1>10, <1>11, <1>12 DEF PatientInv, PhaseInv, SessionPhase

\* Every call of a pipe finds its connection, or input that is left of it.
LEMMA Connected ==
  ASSUME WaveTechInv, SessionInv, PatientInv, NEW p \in Program, NEW c, In(p, c)
  PROVE  LET s == Site(p).sock
         IN  /\ s \in Sock /\ net.status[s] = "open"
             /\ \/ net.peer[s] # None
                \/ c = "recv_message" /\ net.inbuf[s] # <<>>
                \/ c = "recv_audio" /\ stage[p] = "right" /\ net.inbuf[s] # <<>>
<1>1. Wired(net)
  BY DEF SessionInv
<1>2. ASSUME NEW s \in Sock, net.peer[s] # None
      PROVE  net.status[s] = "open"
  BY <1>1, <1>2 DEF Wired
<1>3. /\ Live => net.peer["gui"] # None /\ net.peer["dsp5500"] # None
      /\ Linked => net.peer["rev8800"] # None
  BY <1>1, OtherEnd DEF Live, Linked, None
<1>4. {"gui", "dsp5500", "dsp8800", "rev8800"} \subseteq Sock
  BY DEF Sock
<1>5. TextBytes("exit") # <<>>
  BY TextShape DEF Message
<1>6. pc[p] \in DOMAIN GuiCalls \cup DOMAIN DspCalls \cup DOMAIN ReverseCalls
  BY DEF In, Calls
<1>7. pc[p] \in LabelsOf(p)
  BY DEF WaveTechInv, ProgramInv
<1>8. CASE p = "gui"
  <2>1. pc["gui"] \in {"g_exit", "g_stretch", "g_shift", "g_reverse", "g_ready",
                       "g_tx", "g_rx"}
    BY <1>8, InGui
  <2>2. Site("gui").sock = "gui"
    BY <2>1, GuiSites DEF Site, Send, Recv, SendAudio, RecvAudio
  <2>3. Live
    BY <2>1, WhoIsThere
  <2> QED
    BY <1>2, <1>3, <1>4, <1>8, <2>2, <2>3
<1>9. CASE p = "dsp"
  <2>1. pc["dsp"] \in {"d_loop", "d_ready", "d_rxgui", "d_run", "d_started", "d_txrev",
                       "d_done", "d_fetch", "d_rxrev", "d_txgui", "d_stop"}
    BY <1>6, <1>7, <1>9, Domains DEF LabelsOf, DspLabel, EndLabel
  <2>2. CASE pc["dsp"] = "d_loop"
    <3>1. Site("dsp").sock = "dsp5500" /\ c = "recv_message"
      BY <1>9, <2>2, DspSites DEF Site, In, Recv
    <3> QED
      BY <1>2, <1>3, <1>4, <1>5, <1>9, <2>2, <3>1, WhoIsThere
  <2>3. CASE pc["dsp"] \in {"d_ready", "d_rxgui", "d_txgui"}
    <3>1. Site("dsp").sock = "dsp5500"
      BY <2>3, DspSites DEF Site, Send, SendAudio, RecvAudio
    <3>2. Live
      BY <2>3, WhoIsThere
    <3> QED
      BY <1>2, <1>3, <1>4, <1>9, <3>1, <3>2
  <2>4. CASE pc["dsp"] \in {"d_run", "d_started", "d_txrev", "d_done", "d_fetch", "d_stop"}
    <3>1. Site("dsp").sock = "dsp8800"
      BY <2>4, DspSites DEF Site, Send, Recv, SendAudio
    <3>2. net.peer["dsp8800"] # None
      BY <2>4, WhoIsThere
    <3> QED
      BY <1>2, <1>4, <1>9, <3>1, <3>2
  <2>5. CASE pc["dsp"] = "d_rxrev"
    <3>1. Site("dsp").sock = "dsp8800" /\ c = "recv_audio"
      BY <1>9, <2>5, DspSites DEF Site, In, RecvAudio
    <3>2. CASE net.peer["dsp8800"] # None
      BY <1>2, <1>4, <1>9, <3>1, <3>2
    <3>3. CASE AllSent /\ pc["gui"] \in BusyLabel
      <4>1. net.inbuf["dsp8800"] # <<>>
        BY <2>5, <3>3, AllSentLeft DEF PatientInv, PhaseInv
      <4>2. stage["dsp"] = "right" /\ net.status["dsp8800"] = "open"
        BY <3>3 DEF AllSent
      <4> QED
        BY <1>4, <1>9, <3>1, <4>1, <4>2
    <3> QED
      BY <2>5, <3>2, <3>3, WhoIsThere
  <2> QED
    BY <2>1, <2>2, <2>3, <2>4, <2>5
<1>10. CASE p = "rev"
  <2>1. pc["rev"] \in {"r_recv", "r_ready", "r_rx", "r_done", "r_fetch", "r_tx"}
    BY <1>6, <1>7, <1>10, Domains DEF LabelsOf, ReverseLabel, EndLabel
  <2>2. /\ Site("rev").sock = "rev8800"
        /\ pc["rev"] = "r_recv" => c = "recv_message"
    BY <1>10, <2>1, ReverseSites DEF Site, In, Send, Recv, SendAudio, RecvAudio
  <2>3. \/ Linked
        \/ /\ pc["rev"] = "r_recv" /\ net.status["rev8800"] = "open"
           /\ net.inbuf["rev8800"] = TextBytes("exit")
    BY <2>1, WhoIsThere DEF ReverseWork
  <2> QED
    BY <1>2, <1>3, <1>4, <1>5, <1>10, <2>2, <2>3
<1> QED
  BY <1>8, <1>9, <1>10 DEF Program

\* A call leaves every connection as it is.
SameLinks(n, m) ==
  m.status = n.status /\ m.peer = n.peer /\ m.listening = n.listening

LEMMA WriteKeepsLinks ==
  ASSUME NEW n \in NetOf(Byte), NEW s \in Sock, n.status[s] = "open",
         n.peer[s] # None, NEW b
  PROVE  SameLinks(n, Write(n, s, b))
<1> DEFINE ib == [n.inbuf EXCEPT ![n.peer[s]] = @ \o b]
           m == Write(n, s, b)
<1>1. m = [n EXCEPT !.inbuf = ib]
  BY Zenon DEF Write
<1> HIDE DEF ib, m
<1>2. m.status = n.status /\ m.peer = n.peer /\ m.listening = n.listening
  BY <1>1 DEF NetOf
<1> QED
  BY <1>2 DEF SameLinks, m

LEMMA TakeKeepsLinks ==
  ASSUME NEW n \in NetOf(Byte), NEW s \in Sock, NEW k
  PROVE  SameLinks(n, Take(n, s, k))
<1> DEFINE ib == [n.inbuf EXCEPT ![s] = SubSeq(@, k + 1, Len(@))]
           m == Take(n, s, k)
<1>1. m = [n EXCEPT !.inbuf = ib]
  BY Zenon DEF Take
<1> HIDE DEF ib, m
<1>2. m.status = n.status /\ m.peer = n.peer /\ m.listening = n.listening
  BY <1>1 DEF NetOf
<1> QED
  BY <1>2 DEF SameLinks, m

\* What is sent is never empty.
LEMMA SendsSomething ==
  ASSUME WaveTechInv, SessionInv, DataInv, PatientInv, NEW p \in Program,
         In(p, "send_audio")
  PROVE  Outgoing(p)[ChannelOf(p)] # <<>>
<1>0. ChannelOf(p) \in 1 .. 2
  BY DEF ChannelOf
<1>1. ASSUME Live, \/ pc["dsp"] \in {"d_txrev", "d_txgui"} \/ pc["gui"] \in BusyLabel
      PROVE  \A c \in 1 .. 2 : file[c] # <<>> /\ Want[c] # <<>> /\ Back[c] # <<>>
  <2>1. pc["gui"] \in BusyLabel
    BY <1>1, Phases DEF GuiPhase, BusyLabel, DspIdle, DspWork
  <2> QED
    BY <2>1, BusyFile DEF PatientInv, PhaseInv, PhaseInv
<1>2. CASE p = "gui"
  <2>1. pc["gui"] = "g_tx"
    BY <1>2, SendAudioTable
  <2>2. Live
    BY <2>1, WhoIsThere
  <2> QED
    BY <1>0, <1>1, <1>2, <2>1, <2>2 DEF Outgoing, BusyLabel
<1>3. CASE p = "dsp"
  <2>1. pc["dsp"] \in {"d_txrev", "d_txgui"}
    BY <1>3, SendAudioTable
  <2>2. Live
    BY <2>1, WhoIsThere
  <2>3. audio["dsp"] \in {Want, Back}
    BY <2>1, <2>2 DEF DataInv, DspHolds
  <2> QED
    BY <1>0, <1>1, <1>3, <2>1, <2>2, <2>3 DEF Outgoing
<1>4. CASE p = "rev"
  <2>1. pc["rev"] = "r_tx"
    BY <1>4, SendAudioTable
  <2>2. Live /\ Linked
    BY <2>1, WhoIsThere DEF ReverseWork
  <2>3. audio["rev"] = Back
    BY <2>1, <2>2 DEF DataInv, ReverseGets
  <2>4. pc["dsp"] = "d_rxrev"
    BY <2>1, <2>2, Phases DEF ReversePhase, DspAway
  <2>5. pc["gui"] \in BusyLabel
    BY <2>2, <2>4, Phases DEF GuiPhase, BusyLabel, DspIdle, DspWork
  <2> QED
    BY <1>0, <1>1, <1>4, <2>2, <2>3, <2>5 DEF Outgoing
<1> QED
  BY <1>2, <1>3, <1>4 DEF Program

\* A call of a pipe.
PipeCall(p) ==
  \/ SendMessage(p) \/ RecvMessage(p)
  \/ SendChunk(p) \/ SendAborts(p) \/ RecvConfirmation(p)
  \/ RecvChunk(p) \/ SendConfirmation(p)

\* Every call of a pipe returns.
LEMMA CallGoesOn ==
  ASSUME WaveTechInv, SessionInv, DataInv, PatientInv, NEW p \in Program,
         PipeCall(p)
  PROVE  /\ ~EndWith(p, "crashed") /\ ~SendAborts(p)
         /\ SameLinks(net, net') /\ loaded' = loaded
<1> DEFINE s == Site(p).sock
<1>1. net \in NetOf(Byte) /\ pc \in [Program -> Label]
  BY SessionTypes
<1>2. ASSUME NEW l, Goto(p, l), l # "crashed"
      PROVE  ~EndWith(p, "crashed")
  <2>1. pc'[p] = l
    BY <1>1, <1>2 DEF Goto
  <2>2. EndWith(p, "crashed") => pc'[p] = "crashed"
    BY <1>1 DEF EndWith, Goto
  <2> QED
    BY <1>2, <2>1, <2>2
<1>3. ASSUME pc' = pc, pc[p] # "crashed"
      PROVE  ~EndWith(p, "crashed")
  BY <1>1, <1>3 DEF EndWith, Goto
<1>4. ASSUME NEW c, In(p, c)
      PROVE  pc[p] # "crashed"
  <2>1. pc[p] \in DOMAIN GuiCalls \cup DOMAIN DspCalls \cup DOMAIN ReverseCalls
    BY <1>4 DEF In, Calls
  <2> QED
    BY <2>1, Domains
<1>5. ~SendAborts(p)
  BY SendsSomething DEF SendAborts
<1>6. CASE SendMessage(p)
  <2>1. In(p, "send_message")
    BY <1>6 DEF SendMessage
  <2>2. s \in Sock /\ net.status[s] = "open" /\ net.peer[s] # None
    BY <2>1, Connected DEF In
  <2>3. ~WriteFails(net, s)
    BY <2>2 DEF WriteFails
  <2>4. /\ net' = Write(net, s, TextBytes(Site(p).text)) /\ Goto(p, Site(p).next)
        /\ loaded' = loaded
    BY <1>6, <2>3 DEF SendMessage
  <2>5. Site(p).next # "crashed"
    BY <2>1, SendTable DEF GuiIdle, Send
  <2> QED
    BY <1>1, <1>2, <1>5, <2>2, <2>4, <2>5, WriteKeepsLinks
<1>7. CASE RecvMessage(p)
  <2>1. In(p, "recv_message")
    BY <1>7 DEF RecvMessage
  <2>2. s \in Sock /\ ~ReadFails(net, s)
    BY <2>1, Connected DEF ReadFails, In
  <2>3. PICK n \in ReadSizes(Len(net.inbuf[s]), RECV_CAP) :
          /\ Goto(p, AfterText(pc[p], SubSeq(net.inbuf[s], 1, n)))
          /\ net' = Take(net, s, n) /\ loaded' = loaded
    BY <1>7, <2>2 DEF RecvMessage
  <2> DEFINE t == SubSeq(net.inbuf[s], 1, n)
  <2> HIDE DEF t
  <2>4. AfterText(pc[p], t) # "crashed"
    BY <2>1, RecvTable, AfterTexts
       DEF DspCommand, DspStarted, ReverseCommand, ReverseFetch
  <2> QED
    BY <1>1, <1>2, <1>5, <2>2, <2>3, <2>4, TakeKeepsLinks DEF t
<1>8. CASE SendChunk(p)
  <2>1. In(p, "send_audio")
    BY <1>8 DEF SendChunk
  <2>2. s \in Sock /\ net.status[s] = "open" /\ net.peer[s] # None
    BY <2>1, Connected DEF In
  <2>3. Site(p).next # "crashed" /\ pc[p] # "crashed"
    BY <1>4, <2>1, SendAudioTable
  <2>4. pc' = pc \/ Goto(p, Site(p).next)
    BY <1>8 DEF SendChunk
  <2>5. loaded' = loaded /\ (net' = net \/ \E b : net' = Write(net, s, b))
    BY <1>8 DEF SendChunk
  <2>6. SameLinks(net, net')
    BY <1>1, <2>2, <2>5, WriteKeepsLinks DEF SameLinks
  <2> QED
    BY <1>2, <1>3, <1>5, <2>3, <2>4, <2>5, <2>6
<1>9. CASE RecvConfirmation(p)
  <2>1. In(p, "send_audio")
    BY <1>9 DEF RecvConfirmation
  <2>2. s \in Sock /\ ~ReadFails(net, s)
    BY <2>1, Connected DEF ReadFails, In
  <2>3. PICK n \in ReadSizes(Len(net.inbuf[s]), RECV_CAP) :
          /\ net' = Take(net, s, n) /\ loaded' = loaded
          /\ pc' = pc \/ Goto(p, Site(p).next)
    BY <1>9, <2>2 DEF RecvConfirmation
  <2>4. Site(p).next # "crashed" /\ pc[p] # "crashed"
    BY <1>4, <2>1, SendAudioTable
  <2> QED
    BY <1>1, <1>2, <1>3, <1>5, <2>2, <2>3, <2>4, TakeKeepsLinks
<1>10. CASE RecvChunk(p)
  <2>1. In(p, "recv_audio") /\ stage[p] # "confirm"
    BY <1>10 DEF RecvChunk
  <2>2. s \in Sock /\ ~ReadFails(net, s)
    BY <2>1, Connected DEF ReadFails, In
  <2>3. PICK n \in ReadSizes(Len(net.inbuf[s]), CHUNK_SIZE * FLOAT_BYTES) :
          /\ net' = Take(net, s, n) /\ loaded' = loaded
          /\ pc' = pc \/ Goto(p, Site(p).next)
    BY <1>10, <2>2 DEF RecvChunk
  <2>4. Site(p).next # "crashed" /\ pc[p] # "crashed"
    BY <1>4, <2>1, RecvAudioTable
  <2> QED
    BY <1>1, <1>2, <1>3, <1>5, <2>2, <2>3, <2>4, TakeKeepsLinks
<1>11. CASE SendConfirmation(p)
  <2>1. In(p, "recv_audio") /\ stage[p] = "confirm"
    BY <1>11 DEF SendConfirmation
  <2>2. s \in Sock /\ net.status[s] = "open" /\ net.peer[s] # None
    BY <2>1, Connected DEF In
  <2>3. ~WriteFails(net, s)
    BY <2>2 DEF WriteFails
  <2>4. /\ net' = Write(net, s, TextBytes("CONFIRMED")) /\ pc' = pc
        /\ loaded' = loaded
    BY <1>11, <2>3 DEF SendConfirmation
  <2>5. pc[p] # "crashed"
    BY <1>4, <2>1
  <2> QED
    BY <1>1, <1>3, <1>5, <2>2, <2>4, <2>5, WriteKeepsLinks
<1> QED
  BY <1>5, <1>6, <1>7, <1>8, <1>9, <1>10, <1>11 DEF PipeCall

\* The label tells which call it is.
LEMMA WhichCall ==
  ASSUME WaveTechInv, SessionInv, DataInv, PatientInv, NEW p \in Program,
         PipeCall(p)
  PROVE  /\ pc[p] \in {"g_exit", "g_stretch", "g_shift", "g_reverse", "d_ready", "d_run",
                       "d_fetch", "d_stop", "r_ready", "r_done"} => SendMessage(p)
         /\ pc[p] \in {"g_ready", "d_loop", "d_started", "d_done", "r_recv",
                       "r_fetch"} => RecvMessage(p)
         /\ pc[p] \in SendAudioLabel => SendChunk(p) \/ RecvConfirmation(p)
         /\ pc[p] \in RecvAudioLabel => RecvChunk(p) \/ SendConfirmation(p)
<1>1. ~SendAborts(p)
  BY CallGoesOn
<1>2. /\ In(p, "send_message") => pc[p] \in GuiIdle \cup {"d_ready", "d_run", "d_fetch",
                                            "d_stop", "r_ready", "r_done"}
      /\ In(p, "recv_message") => pc[p] \in {"g_ready", "d_loop", "d_started", "d_done",
                                             "r_recv", "r_fetch"}
      /\ In(p, "send_audio") => pc[p] \in SendAudioLabel
      /\ In(p, "recv_audio") => pc[p] \in RecvAudioLabel
  BY SendTable, RecvTable, SendAudioTable, RecvAudioTable
     DEF SendAudioLabel, RecvAudioLabel
<1>3. \/ SendMessage(p) /\ In(p, "send_message")
      \/ RecvMessage(p) /\ In(p, "recv_message")
      \/ (SendChunk(p) \/ RecvConfirmation(p)) /\ In(p, "send_audio")
      \/ (RecvChunk(p) \/ SendConfirmation(p)) /\ In(p, "recv_audio")
  BY <1>1 DEF PipeCall, SendMessage, RecvMessage, SendChunk, RecvConfirmation, RecvChunk,
              SendConfirmation
<1> QED
  BY <1>2, <1>3 DEF GuiIdle, SendAudioLabel, RecvAudioLabel

-----------------------------------------------------------------------------
(***************************************************************************)
(* The phases go on: the calls of the pipes                                *)
(***************************************************************************)

\* What does not depend on the bytes that are under way.
LEMMA ServiceKept ==
  ASSUME SameLinks(net, net'), pc'["rev"] = pc["rev"]
  PROVE  /\ (Waits <=> Waits') /\ (Rests <=> Rests') /\ (Engaged <=> Engaged')
         /\ (Live <=> Live') /\ (Linked <=> Linked')
<1>1. net'.status = net.status /\ net'.peer = net.peer
  BY DEF SameLinks
<1> QED
  BY <1>1 DEF Waits, Rests, Engaged, Live, Linked

LEMMA LeavesKept ==
  ASSUME SameLinks(net, net'), pc'["rev"] = pc["rev"], Leaves,
         net'.inbuf["pend8800"] = net.inbuf["pend8800"],
         net'.inbuf["rev8800"] = net.inbuf["rev8800"]
  PROVE  Leaves'
<1>1. net'.status = net.status
  BY DEF SameLinks
<1> QED
  BY <1>1 DEF Leaves

LEMMA AllSentKept ==
  ASSUME SameLinks(net, net'), Still("dsp"), Back' = Back, AllSent,
         net'.inbuf["dsp8800"] = net.inbuf["dsp8800"]
  PROVE  AllSent'
<1>1. net'.status = net.status
  BY DEF SameLinks
<1> QED
  BY <1>1 DEF AllSent, Still

\* A call neither makes nor ends an acceptor, and leaves the file alone.
LEMMA CallKeeps ==
  ASSUME WaveTechInv, SessionInv, DataInv, PatientInv, NEW p \in Program,
         PipeCall(p)
  PROVE  Listens' /\ FileFits'
<1>1. ~EndWith(p, "crashed") /\ ~SendAborts(p) /\ SameLinks(net, net') /\ loaded' = loaded
  BY CallGoesOn
<1>2. UNCHANGED Editor!editorVars
  BY <1>1, EditorWaits DEF PipeCall
<1>3. file' = file /\ EditorStatus' = EditorStatus
  BY <1>2 DEF Editor!editorVars
<1>4. pc["gui"] \in BusyLabel <=> pc'["gui"] \in BusyLabel
  <2>1. pc["gui"] \in BusyLabel <=> EditorStatus = "busy"
    BY StatusOf DEF BusyLabel, EndLabel
  <2>2. pc'["gui"] \in BusyLabel <=> EditorStatus' = "busy"
    BY StatusNext DEF BusyLabel, EndLabel
  <2> QED
    BY <1>3, <2>1, <2>2
<1>5. FileFits'
  BY <1>1, <1>3, <1>4 DEF FileFits, PatientInv, PhaseInv, PhaseInv
<1> DEFINE X == {"d_bind", "r_bind"} \cup EndLabel
<1>6. pc[p] \notin X
  <2>1. pc[p] \in DOMAIN GuiCalls \cup DOMAIN DspCalls \cup DOMAIN ReverseCalls
    BY DEF PipeCall, SendMessage, RecvMessage, SendChunk, SendAborts, RecvConfirmation,
           RecvChunk, SendConfirmation, In, Calls
  <2> QED
    BY <2>1, Domains DEF EndLabel
<1>7. \/ pc' = pc
      \/ /\ Goto(p, Site(p).next)
         /\ In(p, "send_message") \/ In(p, "send_audio") \/ In(p, "recv_audio")
      \/ /\ In(p, "recv_message")
         /\ \E t : Goto(p, AfterText(pc[p], t))
  BY <1>1 DEF PipeCall, SendMessage, RecvMessage, SendChunk, RecvConfirmation,
              RecvChunk, SendConfirmation
<1>8. In(p, "send_message") \/ In(p, "send_audio") \/ In(p, "recv_audio") =>
        Site(p).next \notin X
  BY SendTable, SendAudioTable, RecvAudioTable DEF Send, GuiIdle, EndLabel
<1>9. ASSUME In(p, "recv_message"), NEW t
      PROVE  AfterText(pc[p], t) \notin X
  BY <1>9, RecvTable, AfterTexts
     DEF DspCommand, DspStarted, ReverseCommand, ReverseFetch, EndLabel
<1>10. \E l : l \notin X /\ Goto(p, l)
  <2>1. pc' = pc => Goto(p, pc[p])
    BY SessionTypes DEF Goto
  <2> QED
    BY <1>6, <1>7, <1>8, <1>9, <2>1
<1>11. \A q \in Program : pc'[q] = pc[q] \/ (q = p /\ pc[q] \notin X /\ pc'[q] \notin X)
  BY <1>6, <1>10, SessionTypes DEF Goto
<1>12. /\ pc["dsp"] \in {"d_bind"} \cup EndLabel <=> pc'["dsp"] \in {"d_bind"} \cup EndLabel
       /\ pc["rev"] \in {"r_bind"} \cup EndLabel <=> pc'["rev"] \in {"r_bind"} \cup EndLabel
  <2>1. "dsp" \in Program /\ "rev" \in Program
    BY DEF Program
  <2> QED
    BY <1>11, <2>1
<1>13. Listens'
  BY <1>1, <1>12 DEF Listens, SameLinks, PatientInv, PhaseInv, PhaseInv
<1> QED
  BY <1>5, <1>13

\* The calls of the gui.
LEMMA GuiCallPhase ==
  ASSUME WholeReads, WaveTechInv, SessionInv, DataInv, PatientInv, SessionInv',
         PipeCall("gui")
  PROVE  SessionPhase'
<1>0. "gui" \in Program
  BY DEF Program
<1>1. ~EndWith("gui", "crashed") /\ ~SendAborts("gui") /\ SameLinks(net, net')
  BY <1>0, CallGoesOn
<1>2. ASSUME Still("dsp"), Still("rev"), Back' = Back, Same8800(net, net')
      PROVE  /\ (Waits <=> Waits') /\ (Rests <=> Rests') /\ (Engaged <=> Engaged')
             /\ (Live <=> Live') /\ (AllSent => AllSent')
             /\ pc'["dsp"] = pc["dsp"]
  <2>1. pc'["rev"] = pc["rev"] /\ net'.inbuf["dsp8800"] = net.inbuf["dsp8800"]
    BY <1>2 DEF Still, Same8800
  <2>2. /\ (Waits <=> Waits') /\ (Rests <=> Rests') /\ (Engaged <=> Engaged')
        /\ (Live <=> Live')
    BY <1>1, <2>1, ServiceKept
  <2>3. AllSent => AllSent'
    BY <1>1, <1>2, <2>1, AllSentKept
  <2> QED
    BY <1>2, <2>2, <2>3 DEF Still
<1>3. CASE SendMessage("gui")
  <2> DEFINE site == Site("gui")
  <2>1. /\ pc["gui"] \in {"g_exit", "g_stretch", "g_shift", "g_reverse"}
        /\ site.sock = "gui"
        /\ site.text \in Message
        /\ pc["gui"] = "g_exit" => site.text = "exit" /\ site.next = "g_quit"
        /\ pc["gui"] = "g_stretch" => site.text = "stretch" /\ site.next = "menu"
        /\ pc["gui"] = "g_shift" => site.text = "shift" /\ site.next = "menu"
        /\ pc["gui"] = "g_reverse" => site.text = "reverse" /\ site.next = "g_ready"
    <3>1. In("gui", "send_message")
      BY <1>3 DEF SendMessage
    <3>2. pc["gui"] \in {"g_exit", "g_stretch", "g_shift", "g_reverse"}
      BY <1>0, <3>1, SendTable, InGui DEF GuiIdle
    <3> QED
      BY <3>2, GuiSites DEF Site, Send, Message
  <2>2. Sent("gui", TextBytes(site.text)) /\ Turn("gui", site.next, stage["gui"], buffer_idx["gui"])
    BY <1>0, <1>1, <1>3, <2>1, MessageSent
  <2>3. /\ pc'["gui"] = site.next /\ Still("dsp") /\ Still("rev") /\ Back' = Back
    BY <2>2, OthersStill
  <2>4. /\ Same8800(net, net')
        /\ Live => net'.inbuf["dsp5500"] = net.inbuf["dsp5500"] \o TextBytes(site.text)
    BY <2>2, SentByGui
  <2>5. /\ Live /\ pc["dsp"] = "d_loop" /\ Waits
        /\ net.inbuf["dsp5500"] = <<>>
    BY <2>1 DEF PatientInv, PhaseInv, PhaseInv, SessionPhase, Starting, Greeting, Asking, Reversing,
                Resting, Exiting
  <2>6. net'.inbuf["dsp5500"] = TextBytes(site.text)
    BY <2>1, <2>4, <2>5, OnEmpty
  <2>7. Live' /\ pc'["dsp"] = "d_loop" /\ Waits'
    BY <1>2, <2>3, <2>4, <2>5
  <2>8. net'.status["dsp5500"] = "open"
    <3>1. net'.peer["dsp5500"] = "gui" /\ Wired(net')
      BY <2>7, OtherEnd DEF Live, SessionInv
    <3> QED
      BY <3>1 DEF Wired, Sock, None
  <2> HIDE DEF site
  <2>9. Asking' \/ Exiting'
    BY <2>1, <2>3, <2>6, <2>7, <2>8 DEF Asking, Exiting
  <2> QED
    BY <2>9 DEF SessionPhase
<1>4. CASE RecvMessage("gui")
  <2>1. pc["gui"] = "g_ready" /\ Site("gui").sock = "gui"
    BY <1>0, <1>4, RecvTable DEF RecvMessage
  <2>2. /\ Received("gui")
        /\ \E t : Turn("gui", AfterText("g_ready", t), stage["gui"], buffer_idx["gui"])
    BY <1>0, <1>1, <1>4, <2>1, MessageRead
  <2>3. Turn("gui", "g_tx", stage["gui"], buffer_idx["gui"])
    BY <2>2, AfterTexts
  <2>4. pc'["gui"] = "g_tx" /\ Still("dsp") /\ Still("rev") /\ Back' = Back
    BY <2>3, OthersStill
  <2>5. Same8800(net, net') /\ net.inbuf["gui"] # <<>>
    BY <2>2, ReceivedBy
  <2>6. Live
    BY <2>1, WhoIsThere
  <2>7. pc["dsp"] \notin DspIdle
    BY <2>1, <2>5, <2>6, Phases DEF GuiPhase, GuiIdle, DspIdle
  <2>8. Waits /\ pc["dsp"] \in {"d_ready", "d_rxgui", "d_connect"}
    BY <2>1, <2>7 DEF PatientInv, PhaseInv, PhaseInv, SessionPhase, Starting, Greeting, Asking, Reversing,
                Resting, Exiting, DspIdle
  <2>9. Reversing'
    BY <1>2, <2>4, <2>5, <2>6, <2>8 DEF Reversing
  <2> QED
    BY <2>9 DEF SessionPhase
<1>5. CASE SendChunk("gui") \/ RecvConfirmation("gui")
  <2>1. pc["gui"] = "g_tx" /\ Site("gui").sock = "gui" /\ Site("gui").next = "g_rx"
    BY <1>0, <1>5, SendAudioTable DEF SendChunk, RecvConfirmation
  <2>2. /\ Same8800(net, net') /\ Still("dsp") /\ Still("rev") /\ Back' = Back
        /\ pc'["gui"] \in {"g_tx", "g_rx"}
    <3>1. CASE SendChunk("gui")
      <4>1. /\ \E b : Sent("gui", b)
            /\ \E l \in {"g_tx", "g_rx"} : \E st, i : Turn("gui", l, st, i)
        BY <1>0, <2>1, <3>1, ChunkSent
      <4> QED
        BY <4>1, SentByGui, OthersStill
    <3>2. CASE RecvConfirmation("gui")
      <4>1. stage["gui"] = "confirm" /\ Received("gui")
        BY <1>0, <1>1, <2>1, <3>2, ConfirmationRead
      <4>2. net.inbuf["gui"] = TextBytes("CONFIRMED")
        BY <2>1, <4>1, ReceivedBy, Phases DEF GuiFinds
      <4>3. Turn("gui", "g_tx", "right", 0)
        BY <1>0, <1>1, <2>1, <3>2, <4>2, ConfirmationRead
      <4> QED
        BY <4>1, <4>3, ReceivedBy, OthersStill
    <3> QED
      BY <1>5, <3>1, <3>2
  <2>3. Live /\ Waits /\ pc["dsp"] \in {"d_ready", "d_rxgui", "d_connect"}
    BY <2>1 DEF PatientInv, PhaseInv, PhaseInv, SessionPhase, Starting, Greeting, Asking, Reversing,
                Resting, Exiting
  <2>4. Reversing'
    BY <1>2, <2>2, <2>3 DEF Reversing
  <2> QED
    BY <2>4 DEF SessionPhase
<1>6. CASE RecvChunk("gui") \/ SendConfirmation("gui")
  <2>1. pc["gui"] = "g_rx" /\ Site("gui").sock = "gui" /\ Site("gui").next = "g_set"
    BY <1>0, <1>6, RecvAudioTable DEF RecvChunk, SendConfirmation
  <2>2. /\ Same8800(net, net') /\ Still("dsp") /\ Still("rev") /\ Back' = Back
        /\ pc'["gui"] \in {"g_rx", "g_set"}
        /\ Live => net'.inbuf["dsp5500"] = net.inbuf["dsp5500"] \/ pc["dsp"] # "d_loop"
    <3>1. CASE RecvChunk("gui")
      <4>1. /\ Received("gui")
            /\ \E l \in {"g_rx", "g_set"} : \E st, i : Turn("gui", l, st, i)
        BY <1>0, <1>1, <2>1, <3>1, ChunkRead
      <4> QED
        BY <4>1, ReceivedBy, OthersStill
    <3>2. CASE SendConfirmation("gui")
      <4>1. /\ Sent("gui", TextBytes("CONFIRMED")) /\ stage["gui"] = "confirm"
            /\ Turn("gui", "g_rx", "right", 0)
        BY <1>0, <1>1, <2>1, <3>2, ConfirmationSent
      <4>2. Live => pc["dsp"] # "d_loop"
        BY <2>1, <4>1, Phases DEF GuiPhase, GuiIdle, DspWork
      <4> QED
        BY <4>1, <4>2, SentByGui, OthersStill
    <3> QED
      BY <1>6, <3>1, <3>2
  <2>3. /\ (Waits <=> Waits') /\ (Rests <=> Rests') /\ (Engaged <=> Engaged')
        /\ (Live <=> Live') /\ (AllSent => AllSent')
        /\ pc'["dsp"] = pc["dsp"]
    BY <1>2, <2>2
  <2>4. Live' /\ pc'["gui"] = "g_set" => pc'["dsp"] \in DspIdle
    BY PhasesNext DEF GuiPhase
  <2>5. Reversing \/ Resting
    BY <2>1 DEF PatientInv, PhaseInv, PhaseInv, SessionPhase, Starting, Greeting, Asking, Exiting
  <2>6. CASE Reversing
    <3>1. pc'["gui"] = "g_rx"
      BY <2>2, <2>3, <2>4, <2>6 DEF Reversing, DspIdle
    <3>2. Reversing'
      BY <2>1, <2>3, <2>6, <3>1 DEF Reversing
    <3> QED
      BY <3>2 DEF SessionPhase
  <2>7. CASE Resting
    <3>1. Resting'
      BY <2>2, <2>3, <2>7 DEF Resting
    <3> QED
      BY <3>1 DEF SessionPhase
  <2> QED
    BY <2>5, <2>6, <2>7
<1> QED
  BY <1>1, <1>3, <1>4, <1>5, <1>6 DEF PipeCall

\* The dsp reads a command.
LEMMA DspCommandPhase ==
  ASSUME WholeReads, WaveTechInv, SessionInv, DataInv, PatientInv, SessionInv',
         RecvMessage("dsp"), pc["dsp"] = "d_loop"
  PROVE  SessionPhase'
<1>0. "dsp" \in Program
  BY DEF Program
<1>1. ~EndWith("dsp", "crashed") /\ SameLinks(net, net')
  BY <1>0, CallGoesOn DEF PipeCall
<1> DEFINE b == net.inbuf["dsp5500"]
<1>2. Site("dsp").sock = "dsp5500"
  BY DspSites DEF Site, Recv
<1>3. /\ Received("dsp5500")
      /\ \E n \in ReadSizes(Len(b), RECV_CAP) :
           /\ Turn("dsp", AfterText("d_loop", SubSeq(b, 1, n)), stage["dsp"], buffer_idx["dsp"])
           /\ net'.inbuf["dsp5500"] = SubSeq(b, n + 1, Len(b))
  BY <1>0, <1>1, <1>2, MessageRead
<1>4. PICK n \in ReadSizes(Len(b), RECV_CAP) :
        /\ Turn("dsp", AfterText("d_loop", SubSeq(b, 1, n)), stage["dsp"], buffer_idx["dsp"])
        /\ net'.inbuf["dsp5500"] = SubSeq(b, n + 1, Len(b))
  BY <1>3
<1>5. b # <<>>
  BY <1>3, ReceivedBy
<1>6. \/ Asking /\ pc["gui"] = "menu" /\ b \in {TextBytes("stretch"), TextBytes("shift")}
      \/ Asking /\ pc["gui"] = "g_ready" /\ b = TextBytes("reverse")
      \/ Exiting /\ b = TextBytes("exit") /\ Waits /\ net.status["dsp5500"] = "open"
  BY <1>5 DEF PatientInv, PhaseInv, PhaseInv, SessionPhase, Starting, Greeting, Asking, Reversing, Resting,
              Exiting
<1> HIDE DEF b
<1>7. ASSUME NEW m \in Message, b = TextBytes(m)
      PROVE  /\ pc'["dsp"] = DspCommand(TextBytes(m)) /\ net'.inbuf["dsp5500"] = <<>>
             /\ pc'["gui"] = pc["gui"] /\ pc'["rev"] = pc["rev"]
  <2>1. SubSeq(b, 1, n) = TextBytes(m) /\ SubSeq(b, n + 1, Len(b)) = <<>>
    BY <1>4, <1>7, ReadText
  <2>2. /\ Turn("dsp", DspCommand(TextBytes(m)), stage["dsp"], buffer_idx["dsp"])
        /\ net'.inbuf["dsp5500"] = <<>>
    BY <1>4, <2>1, AfterTexts
  <2> QED
    BY <2>2, OthersStill DEF Still
<1>8. {"stretch", "shift", "reverse", "exit"} \subseteq Message
  BY DEF Message
<1>9. CASE Asking /\ pc["gui"] = "menu" /\ b \in {TextBytes("stretch"), TextBytes("shift")}
  <2>1. PICK m \in {"stretch", "shift"} : b = TextBytes(m)
    BY <1>9
  <2>2. TextBytes(m) # TextBytes("reverse")
    BY <1>8, TextsDiffer
  <2>3. ~IsPrefix(TextBytes("exit"), TextBytes(m))
    <3>1. TextBytes(m) \in Seq(BytesIf(FALSE))
      BY <1>8, TextAllowed
    <3> QED
      BY <3>1, ExitRead
  <2>4. DspCommand(TextBytes(m)) = "d_loop"
    BY <2>2, <2>3 DEF DspCommand
  <2>5. /\ pc'["dsp"] = "d_loop" /\ net'.inbuf["dsp5500"] = <<>>
        /\ pc'["gui"] = "menu" /\ pc'["rev"] = pc["rev"]
    BY <1>7, <1>8, <1>9, <2>1, <2>4
  <2>6. Live' /\ Waits'
    BY <1>1, <1>9, <2>5, ServiceKept DEF Asking
  <2>7. Resting'
    BY <2>5, <2>6 DEF Resting, Rests, Waits
  <2> QED
    BY <2>7 DEF SessionPhase
<1>10. CASE Asking /\ pc["gui"] = "g_ready" /\ b = TextBytes("reverse")
  <2>1. pc'["dsp"] = "d_ready" /\ pc'["gui"] = "g_ready" /\ pc'["rev"] = pc["rev"]
    BY <1>7, <1>8, <1>10 DEF DspCommand
  <2>2. Live' /\ Waits'
    BY <1>1, <1>10, <2>1, ServiceKept DEF Asking
  <2>3. Reversing'
    BY <2>1, <2>2 DEF Reversing
  <2> QED
    BY <2>3 DEF SessionPhase
<1>11. CASE Exiting /\ b = TextBytes("exit") /\ Waits /\ net.status["dsp5500"] = "open"
  <2>1. TextBytes("exit") # TextBytes("reverse")
    BY <1>8, TextsDiffer
  <2>2. IsPrefix(TextBytes("exit"), TextBytes("exit"))
    <3>1. TextBytes("exit") \in Seq(Byte)
      BY <1>8, TextShape
    <3> QED
      BY <3>1 DEF IsPrefix
  <2>3. pc'["dsp"] = "d_xconnect" /\ pc'["gui"] = pc["gui"] /\ pc'["rev"] = pc["rev"]
    BY <1>7, <1>8, <1>11, <2>1, <2>2 DEF DspCommand
  <2>4. Waits' /\ net'.status["dsp5500"] = "open"
    BY <1>1, <1>11, <2>3, ServiceKept DEF SameLinks
  <2>5. Exiting'
    BY <1>11, <2>3, <2>4 DEF Exiting
  <2> QED
    BY <2>5 DEF SessionPhase
<1> QED
  BY <1>6, <1>9, <1>10, <1>11

\* The dsp's other calls on its connection with the gui.
LEMMA DspGuiPhase ==
  ASSUME WholeReads, WaveTechInv, SessionInv, DataInv, PatientInv, SessionInv',
         PipeCall("dsp"), pc["dsp"] \in {"d_ready", "d_rxgui", "d_txgui"}
  PROVE  SessionPhase'
<1>0. "dsp" \in Program
  BY DEF Program
<1>1. ~EndWith("dsp", "crashed") /\ ~SendAborts("dsp") /\ SameLinks(net, net')
  BY <1>0, CallGoesOn
<1>2. ASSUME pc'["gui"] = pc["gui"], pc'["rev"] = pc["rev"],
             pc["dsp"] \in {"d_ready", "d_rxgui"}, pc'["dsp"] \in {"d_rxgui", "d_connect"}
      PROVE  SessionPhase'
  <2>1. /\ Live /\ pc["gui"] \in {"g_ready", "g_tx", "g_rx"} /\ Waits
    BY <1>2 DEF PatientInv, PhaseInv, PhaseInv, SessionPhase, Starting, Greeting, Asking, Reversing, Resting,
                Exiting
  <2>2. Live' /\ Waits'
    BY <1>1, <1>2, <2>1, ServiceKept
  <2>3. Reversing'
    BY <1>2, <2>1, <2>2 DEF Reversing
  <2> QED
    BY <2>3 DEF SessionPhase
<1>3. ASSUME pc'["gui"] = pc["gui"], pc'["rev"] = pc["rev"],
             pc["dsp"] = "d_txgui", pc'["dsp"] \in {"d_txgui", "d_loop"}
      PROVE  SessionPhase'
  <2>1. Live /\ pc["gui"] = "g_rx" /\ Rests
    BY <1>3 DEF PatientInv, PhaseInv, PhaseInv, SessionPhase, Starting, Greeting, Asking, Reversing, Resting,
                Exiting
  <2>2. Live' /\ Rests' /\ pc'["gui"] = "g_rx"
    BY <1>1, <1>3, <2>1, ServiceKept
  <2>3. pc'["dsp"] = "d_loop" => net'.inbuf["dsp5500"] = <<>>
    BY <2>2, PhasesNext DEF GuiPhase, GuiIdle, DspWork
  <2>4. Reversing' \/ Resting'
    BY <1>3, <2>2, <2>3 DEF Reversing, Resting
  <2> QED
    BY <2>4 DEF SessionPhase
<1>4. CASE pc["dsp"] = "d_ready"
  <2>1. /\ Site("dsp") = Send("dsp5500", "ready", "d_rxgui") /\ SendMessage("dsp")
    BY <1>0, <1>4, DspSites, WhichCall
         DEF Site, Send
  <2>2. Turn("dsp", "d_rxgui", stage["dsp"], buffer_idx["dsp"])
    BY <1>0, <1>1, <2>1, MessageSent DEF Send
  <2> QED
    BY <1>2, <1>4, <2>2, OthersStill DEF Still
<1>5. CASE pc["dsp"] = "d_rxgui"
  <2>1. /\ Site("dsp").next = "d_connect"
        /\ RecvChunk("dsp") \/ SendConfirmation("dsp")
    BY <1>0, <1>5, DspSites, WhichCall
         DEF Site, RecvAudio, RecvAudioLabel
  <2>2. \E l \in {"d_rxgui", "d_connect"} : \E st, i : Turn("dsp", l, st, i)
    <3>1. CASE RecvChunk("dsp")
      BY <1>0, <1>1, <1>5, <2>1, <3>1, ChunkRead
    <3>2. CASE SendConfirmation("dsp")
      BY <1>0, <1>1, <1>5, <3>2, ConfirmationSent
    <3> QED
      BY <2>1, <3>1, <3>2
  <2> QED
    BY <1>2, <1>5, <2>2, OthersStill DEF Still
<1>6. CASE pc["dsp"] = "d_txgui"
  <2>1. /\ Site("dsp").next = "d_loop" /\ Site("dsp").sock = "dsp5500"
        /\ SendChunk("dsp") \/ RecvConfirmation("dsp")
    BY <1>0, <1>6, DspSites, WhichCall
         DEF Site, SendAudio, SendAudioLabel
  <2>2. \E l \in {"d_txgui", "d_loop"} : \E st, i : Turn("dsp", l, st, i)
    <3>1. CASE SendChunk("dsp")
      BY <1>0, <1>6, <2>1, <3>1, ChunkSent
    <3>2. CASE RecvConfirmation("dsp")
      <4>1. stage["dsp"] = "confirm" /\ Received("dsp5500")
        BY <1>0, <1>1, <2>1, <3>2, ConfirmationRead
      <4>2. net.inbuf["dsp5500"] = TextBytes("CONFIRMED")
        BY <1>6, <4>1, ReceivedBy, Phases DEF DspFinds, DspIdle
      <4> QED
        BY <1>0, <1>1, <1>6, <2>1, <3>2, <4>2, ConfirmationRead
    <3> QED
      BY <2>1, <3>1, <3>2
  <2> QED
    BY <1>3, <1>6, <2>2, OthersStill DEF Still
<1> QED
  BY <1>4, <1>5, <1>6

\* Nobody has accepted the dsp yet.
LEMMA PendingPhase ==
  ASSUME SessionInv, net.peer["dsp8800"] = "pend8800"
  PROVE  /\ pc["dsp"] \in {"d_run", "d_stop", "d_started", "d_disc"}
         /\ pc["dsp"] = "d_stop" => net.inbuf["pend8800"] = <<>>
         /\ net.status["pend8800"] = "open"
<1>1. ReversePhase(pc["dsp"], stage["dsp"], "r_recv", "left", net.inbuf["dsp8800"],
                   net.inbuf["pend8800"])
  BY DEF SessionInv, ReverseLink, ReverseSession
<1>2. net.status["pend8800"] = "open"
  BY DEF SessionInv, Wired, Sock, None
<1> QED
  BY <1>1, <1>2 DEF ReversePhase

LEMMA PendingPhaseNext ==
  ASSUME SessionInv', net'.peer["dsp8800"] = "pend8800"
  PROVE  pc'["dsp"] \in {"d_run", "d_stop", "d_started", "d_disc"}
<1>1. ReversePhase(pc'["dsp"], stage'["dsp"], "r_recv", "left", net'.inbuf["dsp8800"],
                   net'.inbuf["pend8800"])
  BY DEF SessionInv, ReverseLink, ReverseSession
<1> QED
  BY <1>1 DEF ReversePhase

\* The dsp talks to the service.
LEMMA DspServicePhase ==
  ASSUME WholeReads, WaveTechInv, SessionInv, DataInv, PatientInv, SessionInv',
         PipeCall("dsp"),
         pc["dsp"] \in {"d_run", "d_started", "d_txrev", "d_done", "d_fetch"}
  PROVE  SessionPhase'
<1>0. "dsp" \in Program
  BY DEF Program
<1>1. ~EndWith("dsp", "crashed") /\ ~SendAborts("dsp") /\ SameLinks(net, net')
  BY <1>0, CallGoesOn
<1> DEFINE L == {"d_started", "d_txrev", "d_done", "d_fetch", "d_rxrev"}
<1>2. \E l \in L : \E st, i : Turn("dsp", l, st, i)
  <2>1. CASE pc["dsp"] \in {"d_run", "d_fetch"}
    <3>1. Site("dsp").next \in L /\ SendMessage("dsp")
      BY <1>0, <2>1, DspSites, WhichCall
         DEF Site, Send
    <3> QED
      BY <1>0, <1>1, <3>1, MessageSent
  <2>2. CASE pc["dsp"] \in {"d_started", "d_done"}
    <3>1. RecvMessage("dsp")
      BY <1>0, <2>2, DspSites, WhichCall
         DEF Site, Recv
    <3>2. \E t : Turn("dsp", AfterText(pc["dsp"], t), stage["dsp"], buffer_idx["dsp"])
      BY <1>0, <1>1, <3>1, MessageRead
    <3>3. \A t : AfterText(pc["dsp"], t) \in L
      BY <2>2, AfterTexts DEF DspStarted
    <3> QED
      BY <3>2, <3>3
  <2>3. CASE pc["dsp"] = "d_txrev"
    <3>1. /\ Site("dsp").next = "d_done" /\ Site("dsp").sock = "dsp8800"
          /\ SendChunk("dsp") \/ RecvConfirmation("dsp")
      BY <1>0, <2>3, DspSites, WhichCall
         DEF Site, SendAudio, SendAudioLabel
    <3>2. CASE SendChunk("dsp")
      BY <1>0, <2>3, <3>1, <3>2, ChunkSent
    <3>3. CASE RecvConfirmation("dsp")
      <4>1. stage["dsp"] = "confirm" /\ Received("dsp8800")
        BY <1>0, <1>1, <3>1, <3>3, ConfirmationRead
      <4>2. net.inbuf["dsp8800"] = TextBytes("CONFIRMED")
        BY <2>3, <4>1, ReceivedBy, Phases DEF ClientFinds
      <4> QED
        BY <1>0, <1>1, <2>3, <3>1, <3>3, <4>2, ConfirmationRead
    <3> QED
      BY <3>1, <3>2, <3>3
  <2> QED
    BY <2>1, <2>2, <2>3
<1>3. pc'["dsp"] \in L /\ pc'["gui"] = pc["gui"] /\ pc'["rev"] = pc["rev"]
  BY <1>2, OthersStill DEF Still
<1>4. Live /\ pc["gui"] = "g_rx" /\ Engaged
  BY DEF PatientInv, PhaseInv, PhaseInv, SessionPhase, Starting, Greeting, Asking, Reversing, Resting,
         Exiting
<1>5. Live' /\ Engaged'
  BY <1>1, <1>3, <1>4, ServiceKept
<1>6. Reversing'
  BY <1>3, <1>4, <1>5 DEF Reversing
<1> QED
  BY <1>6 DEF SessionPhase

\* and reads the reversal, whether the service is still there or not.
LEMMA DspFetchPhase ==
  ASSUME WholeReads, WaveTechInv, SessionInv, DataInv, PatientInv, SessionInv',
         PipeCall("dsp"), pc["dsp"] = "d_rxrev"
  PROVE  SessionPhase'
<1>0. "dsp" \in Program
  BY DEF Program
<1>1. ~EndWith("dsp", "crashed") /\ ~SendAborts("dsp") /\ SameLinks(net, net')
  BY <1>0, CallGoesOn
<1>2. /\ Site("dsp").next = "d_txgui" /\ Site("dsp").sock = "dsp8800"
      /\ RecvChunk("dsp") \/ SendConfirmation("dsp")
  BY <1>0, DspSites, WhichCall
         DEF Site, RecvAudio, RecvAudioLabel
<1>3. Live /\ pc["gui"] = "g_rx" /\ (Engaged \/ (Rests /\ AllSent))
  BY DEF PatientInv, PhaseInv, PhaseInv, SessionPhase, Starting, Greeting, Asking, Reversing, Resting,
         Exiting
<1>4. ASSUME Engaged, pc'["dsp"] \in {"d_rxrev", "d_txgui"}, pc'["gui"] = pc["gui"],
             pc'["rev"] = pc["rev"]
      PROVE  SessionPhase'
  <2>1. Live' /\ Engaged'
    BY <1>1, <1>3, <1>4, ServiceKept
  <2>2. net'.peer["dsp8800"] # "pend8800"
    BY <1>4, PendingPhaseNext
  <2>3. Linked' /\ pc'["rev"] \in ReverseWork
    BY <2>1, <2>2 DEF Engaged
  <2>4. pc'["dsp"] # "d_txgui"
    BY <2>3, PhasesNext DEF ReversePhase, ReverseWork
  <2>5. Reversing'
    BY <1>3, <1>4, <2>1, <2>4 DEF Reversing
  <2> QED
    BY <2>5 DEF SessionPhase
<1>5. CASE SendConfirmation("dsp")
  <2>1. Turn("dsp", "d_rxrev", "right", 0) /\ stage["dsp"] = "confirm"
    BY <1>0, <1>1, <1>5, ConfirmationSent
  <2>2. Engaged
    BY <1>3, <2>1 DEF AllSent
  <2> QED
    BY <1>4, <2>1, <2>2, OthersStill DEF Still
<1>6. CASE RecvChunk("dsp")
  <2> DEFINE ds == stage["dsp"]
             idx == buffer_idx["dsp"]
             in == net.inbuf["dsp8800"]
             con == audio["dsp"]
             con2 == audio'["dsp"]
             rest == net'.inbuf["dsp8800"]
  <2>1. PICK n, f :
          /\ ReadOf(ds, con, idx, in, n, f, con2, rest)
          /\ IF Len(f) = CHUNK_SIZE
             THEN Turn("dsp", "d_rxrev", ds, idx + CHUNK_SIZE)
             ELSE IF ds = "left" THEN Turn("dsp", "d_rxrev", "confirm", 0)
             ELSE Turn("dsp", "d_txgui", "left", 0)
    BY <1>0, <1>1, <1>2, <1>6, ChunkRead
  <2>2. /\ pc'["gui"] = pc["gui"] /\ pc'["rev"] = pc["rev"] /\ Back' = Back
        /\ IF Len(f) = CHUNK_SIZE
           THEN /\ pc'["dsp"] = "d_rxrev" /\ stage'["dsp"] = ds
                /\ buffer_idx'["dsp"] = idx + CHUNK_SIZE
           ELSE pc'["dsp"] = IF ds = "left" THEN "d_rxrev" ELSE "d_txgui"
    BY <2>1, OthersStill DEF Still
  <2>3. CASE Engaged
    BY <1>4, <2>2, <2>3
  <2>4. CASE Rests /\ AllSent
    <3>1. Live' /\ Rests' /\ pc'["gui"] = "g_rx"
      BY <1>1, <1>3, <2>2, <2>4, ServiceKept
    <3>2. ds = "right"
      BY <2>4 DEF AllSent
    <3>3. CASE Len(f) # CHUNK_SIZE
      <4>1. Reversing'
        BY <2>2, <3>1, <3>2, <3>3 DEF Reversing
      <4> QED
        BY <4>1 DEF SessionPhase
    <3>4. CASE Len(f) = CHUNK_SIZE
      <4> DEFINE w == Len(Back[2])
      <4>1. /\ Back \in Channels /\ con \in Channels /\ idx \in Nat /\ in \in Seq(Byte)
            /\ w \in Nat
        BY DataTypes, ChannelTypes DEF Program, Sock
      <4>2. GetsTo("right", con, idx, in, Back, w) /\ Gets("right", con, idx, in, Back)
        BY <2>4, <4>1 DEF AllSent, Gets
      <4>3. ReadOf("right", con, idx, in, n, f, con2, rest)
        BY <2>1, <3>2
      <4>4. GetsTo("right", con2, idx + CHUNK_SIZE, rest, Back, w)
        <5> HIDE DEF ds, idx, in, con, con2, rest, w
        <5> QED
          BY <3>4, <4>1, <4>2, <4>3, StreamRead
      <4>5. net'.status["dsp8800"] = "open"
        BY <1>1, <2>4 DEF AllSent, SameLinks
      <4>6. AllSent'
        BY <2>2, <3>2, <3>4, <4>4, <4>5 DEF AllSent
      <4>7. Reversing'
        BY <2>2, <3>1, <3>4, <4>6 DEF Reversing
      <4> QED
        BY <4>7 DEF SessionPhase
    <3> QED
      BY <3>3, <3>4
  <2> QED
    BY <1>3, <2>3, <2>4
<1> QED
  BY <1>2, <1>5, <1>6

\* The dsp passes the exit command on.
LEMMA DspStopPhase ==
  ASSUME WholeReads, WaveTechInv, SessionInv, DataInv, PatientInv, SessionInv',
         PipeCall("dsp"), pc["dsp"] = "d_stop"
  PROVE  SessionPhase'
<1>0. "dsp" \in Program /\ "exit" \in Message
  BY DEF Program, Message
<1>1. ~EndWith("dsp", "crashed") /\ ~SendAborts("dsp") /\ SameLinks(net, net')
  BY <1>0, CallGoesOn
<1>2. Site("dsp") = Send("dsp8800", "exit", "d_disc") /\ SendMessage("dsp")
  BY <1>0, DspSites, WhichCall
         DEF Site, Send
<1>3. /\ Turn("dsp", "d_disc", stage["dsp"], buffer_idx["dsp"])
      /\ Sent("dsp8800", TextBytes("exit"))
  BY <1>0, <1>1, <1>2, MessageSent DEF Send
<1>4. pc'["dsp"] = "d_disc" /\ pc'["gui"] = pc["gui"] /\ pc'["rev"] = pc["rev"]
  BY <1>3, OthersStill DEF Still
<1>5. pc["gui"] \in {"g_quit", "exited"} /\ Engaged /\ net.status["dsp5500"] = "open"
  BY DEF PatientInv, PhaseInv, PhaseInv, SessionPhase, Starting, Greeting, Asking, Reversing, Resting,
         Exiting
<1>6. net'.status = net.status
  BY <1>1 DEF SameLinks
<1>7. ASSUME NEW s \in {"pend8800", "rev8800"}, net.peer["dsp8800"] = s,
             net.inbuf[s] = <<>>
      PROVE  net'.inbuf[s] = TextBytes("exit")
  <2>1. net'.inbuf[s] = net.inbuf[s] \o TextBytes("exit")
    BY <1>3, <1>7 DEF Sent, Sock
  <2> QED
    BY <1>0, <1>7, <2>1, OnEmpty
<1>8. Leaves'
  <2>1. CASE net.peer["dsp8800"] = "pend8800"
    <3>1. pc["rev"] = "r_accept"
      BY <1>5, <2>1 DEF Engaged, Linked
    <3>2. net.inbuf["pend8800"] = <<>> /\ net.status["pend8800"] = "open"
      BY <2>1, PendingPhase
    <3> QED
      BY <1>4, <1>6, <1>7, <2>1, <3>1, <3>2 DEF Leaves
  <2>2. CASE Linked
    <3>1. pc["rev"] \in ReverseWork /\ net.status["pend8800"] = "closed"
      BY <1>5, <2>2 DEF Engaged, Linked
    <3>2. pc["rev"] = "r_recv" /\ net.inbuf["rev8800"] = <<>>
      BY <2>2, <3>1, Phases DEF ReversePhase, ReverseWork, DspAway
    <3>3. net.status["rev8800"] = "open"
      <4>1. net.peer["rev8800"] = "dsp8800" /\ Wired(net)
        BY <2>2, OtherEnd DEF Linked, SessionInv
      <4> QED
        BY <4>1 DEF Wired, Sock, None
    <3> QED
      BY <1>4, <1>6, <1>7, <2>2, <3>1, <3>2, <3>3 DEF Leaves, Linked
  <2> QED
    BY <1>5, <2>1, <2>2 DEF Engaged
<1>9. Exiting'
  BY <1>4, <1>5, <1>6, <1>8 DEF Exiting
<1> QED
  BY <1>9 DEF SessionPhase

\* The calls of the dsp.
LEMMA DspCallPhase ==
  ASSUME WholeReads, WaveTechInv, SessionInv, DataInv, PatientInv, SessionInv',
         PipeCall("dsp")
  PROVE  SessionPhase'
<1>1. ~SendAborts("dsp") /\ "dsp" \in Program
  BY CallGoesOn DEF Program
<1>2. \/ pc["dsp"] = "d_loop" /\ RecvMessage("dsp")
      \/ pc["dsp"] \in {"d_ready", "d_rxgui", "d_txgui"}
      \/ pc["dsp"] \in {"d_run", "d_started", "d_txrev", "d_done", "d_fetch"}
      \/ pc["dsp"] = "d_rxrev"
      \/ pc["dsp"] = "d_stop"
  BY <1>1, SendTable, RecvTable, SendAudioTable, RecvAudioTable
     DEF PipeCall, SendMessage, RecvMessage, SendChunk, RecvConfirmation, RecvChunk,
         SendConfirmation
<1> QED
  BY <1>2, DspCommandPhase, DspGuiPhase, DspServicePhase, DspFetchPhase, DspStopPhase

\* The last chunk of a channel that is not a multiple of CHUNK_SIZE: all of it
\* is on the stream.
LEMMA StreamEnds ==
  ASSUME NEW S \in Channels, NEW ch \in Seq(Float), Cells(ch) = S[2],
         NEW si \in Nat, Multiple(si), si < Len(Cells(ch)),
         LastChunk(ch, si), ~Multiple(Len(S[2])),
         NEW con, NEW ri \in Nat, NEW in \in Seq(Byte),
         GetsTo("right", con, ri, in, S, si),
         NEW in2, in2 = in \o AudioBytes(Chunk(ch, si))
  PROVE  GetsTo("right", con, ri, in2, S, Len(S[2]))
<1> DEFINE s == S[2]
           n == ChunkLen(ch, si)
           w == Len(s)
<1>0. ChannelIn("right") = 2
  BY DEF ChannelIn
<1>1. s \in Seq(Float) /\ w \in Nat /\ ChannelIn("right") = 2
  BY <1>0, ChannelTypes
<1>2. Chunk(ch, si) = SubSeq(s, si + 1, si + n)
  BY DEF Chunk
<1>3. si + n = w
  BY LastChunkEnds
<1>4. Multiple(ri) /\ ri <= si /\ Carries(in, s, ri, si)
  BY <1>1 DEF GetsTo, OnStream
<1>5. si < w
  OBVIOUS
<1> HIDE DEF n, w
<1>6. ri <= w /\ si <= w
  BY <1>1, <1>4, <1>5
<1>7. Carries(in2, s, ri, w)
  <2>1. w <= Len(s)
    BY <1>1 DEF w
  <2>2. Chunk(ch, si) = SubSeq(s, si + 1, w)
    BY <1>2, <1>3
  <2> HIDE DEF s
  <2> QED
    BY <1>1, <1>4, <1>6, <2>1, <2>2, CarriesAppend
<1>8. OnStream("right", ri, in2, S, w)
  BY <1>1, <1>4, <1>6, <1>7 DEF OnStream, w
<1>9. HoldsPart("right", con, ri, S)
  BY DEF GetsTo
<1> QED
  BY <1>8, <1>9 DEF GetsTo, w

\* The service sends the last chunk.
LEMMA ReverseLastPhase ==
  ASSUME WholeReads, WaveTechInv, SessionInv, DataInv, PatientInv, SessionInv',
         SendChunk("rev"), pc["rev"] = "r_tx", pc'["rev"] # "r_tx"
  PROVE  SessionPhase'
<1> DEFINE rs == stage["rev"]
           ch == audio["rev"][ChannelIn(rs)]
           idx == buffer_idx["rev"]
<1>1. /\ Site("rev").sock = "rev8800" /\ Site("rev").next = "r_disc"
      /\ "rev" \in Program /\ ch = Outgoing("rev")[ChannelIn(rs)]
  BY ReverseSites DEF Site, SendAudio, Program, Outgoing
<1>2. /\ ch \in Seq(Float) /\ idx \in Nat
      /\ Multiple(idx) /\ idx < Len(Cells(ch))
      /\ Sent("rev8800", AudioBytes(Chunk(ch, idx)))
      /\ IF ~LastChunk(ch, idx) THEN Turn("rev", "r_tx", rs, idx + CHUNK_SIZE)
         ELSE IF rs = "left" THEN Turn("rev", "r_tx", "confirm", 0)
         ELSE Turn("rev", "r_disc", "left", 0)
      /\ rs \in {"left", "right"}
  BY <1>1, ChunkSent
<1>3. /\ LastChunk(ch, idx) /\ rs = "right" /\ Turn("rev", "r_disc", "left", 0)
  BY <1>2, OthersStill
<1>4. SameLinks(net, net')
  BY <1>1, CallGoesOn DEF PipeCall
<1>5. /\ pc'["rev"] = "r_disc" /\ Still("gui") /\ Still("dsp") /\ Back' = Back
  BY <1>3, OthersStill
<1>6. Live /\ Linked
  BY WhoIsThere DEF ReverseWork
<1>7. /\ pc["dsp"] = "d_rxrev" /\ stage["dsp"] = "right"
  BY <1>3, <1>6, Phases DEF ReversePhase, DspAway, Transfer
<1>8. pc["gui"] = "g_rx" /\ Engaged
  BY <1>7 DEF PatientInv, PhaseInv, SessionPhase, Starting, Greeting, Asking, Reversing, Resting,
              Exiting, Rests
<1>9. audio["rev"] = Back
  BY <1>6 DEF DataInv, ReverseGets
<1>10. GetsTo("right", audio["dsp"], buffer_idx["dsp"], net.inbuf["dsp8800"], Back, idx)
  BY <1>3, <1>6, <1>7 DEF DataInv, ReversePaced, Paced, Pace
<1>11. ~Multiple(Len(Back[2]))
  BY <1>7 DEF PatientInv, PhaseInv, ShortEnd, Passed, DspWork
<1>12. /\ Back \in Channels /\ buffer_idx["dsp"] \in Nat
       /\ net.inbuf["dsp8800"] \in Seq(Byte) /\ Cells(ch) = Back[2]
  <2>1. ch = Back[2]
    BY <1>3, <1>9 DEF ChannelIn
  <2> HIDE DEF ch
  <2> QED
    BY <2>1, DataTypes DEF Program, Sock
<1>13. net'.inbuf["dsp8800"] = net.inbuf["dsp8800"] \o AudioBytes(Chunk(ch, idx))
  BY <1>2, <1>6, SentByReverse
<1> HIDE DEF rs, ch, idx
<1>14. GetsTo("right", audio["dsp"], buffer_idx["dsp"], net'.inbuf["dsp8800"], Back,
              Len(Back[2]))
  <2> DEFINE in2 == net'.inbuf["dsp8800"]
             con == audio["dsp"]
             ri == buffer_idx["dsp"]
             in == net.inbuf["dsp8800"]
  <2>1. /\ in2 = in \o AudioBytes(Chunk(ch, idx)) /\ ri \in Nat /\ in \in Seq(Byte)
        /\ GetsTo("right", con, ri, in, Back, idx)
    BY <1>10, <1>12, <1>13
  <2> HIDE DEF in2, con, ri, in
  <2>2. GetsTo("right", con, ri, in2, Back, Len(Back[2]))
    BY <1>2, <1>3, <1>11, <1>12, <2>1, StreamEnds
  <2> QED
    BY <2>2 DEF in2, con, ri
<1>15. /\ net'.status["dsp8800"] = "open" /\ net'.status["rev8800"] = "open"
       /\ net'.status["pend8800"] = "closed" /\ Live'
  <2>1. net.status["dsp8800"] = "open" /\ net.status["rev8800"] = "open"
    <3>1. net.peer["rev8800"] = "dsp8800" /\ Wired(net) /\ net.peer["dsp8800"] = "rev8800"
      BY <1>6, OtherEnd DEF Linked, SessionInv
    <3> QED
      BY <3>1 DEF Wired, Sock, None
  <2>2. net.status["pend8800"] = "closed"
    BY <1>8 DEF Engaged
  <2> QED
    BY <1>4, <1>6, <2>1, <2>2 DEF SameLinks, Live
<1>16. AllSent'
  BY <1>5, <1>7, <1>14, <1>15 DEF AllSent, Still
<1>17. Rests'
  BY <1>5, <1>15 DEF Rests
<1>18. Reversing'
  BY <1>5, <1>7, <1>8, <1>15, <1>16, <1>17 DEF Reversing, Still
<1> QED
  BY <1>18 DEF SessionPhase

\* The calls of the service.
LEMMA ReverseCallPhase ==
  ASSUME WholeReads, WaveTechInv, SessionInv, DataInv, PatientInv, SessionInv',
         PipeCall("rev")
  PROVE  SessionPhase'
<1>0. "rev" \in Program
  BY DEF Program
<1>1. ~EndWith("rev", "crashed") /\ ~SendAborts("rev") /\ SameLinks(net, net')
  BY <1>0, CallGoesOn
<1>2. pc["rev"] \in {"r_recv", "r_ready", "r_rx", "r_done", "r_fetch", "r_tx"}
  BY <1>0, <1>1, SendTable, RecvTable, SendAudioTable, RecvAudioTable
     DEF PipeCall, SendMessage, RecvMessage, SendChunk, RecvConfirmation, RecvChunk,
         SendConfirmation
<1>3. Site("rev").sock = "rev8800"
  BY <1>2, ReverseSites DEF Site, Send, Recv, SendAudio, RecvAudio
<1>4. \/ Reversing /\ Engaged
      \/ Exiting /\ pc["dsp"] = "d_stop" /\ Engaged
      \/ Exiting /\ pc["dsp"] \in {"d_disc", "exited"} /\ Leaves
  BY <1>2 DEF PatientInv, PhaseInv, SessionPhase, Starting, Greeting, Asking, Reversing, Resting,
              Exiting, Waits, Rests
<1>5. Engaged => Linked /\ net.status["pend8800"] = "closed"
  BY <1>2 DEF Engaged
<1>6. Leaves => /\ pc["rev"] = "r_recv" /\ net.inbuf["rev8800"] = TextBytes("exit")
                /\ net.status["rev8800"] = "open" /\ net.status["pend8800"] = "closed"
  BY <1>2 DEF Leaves
\* It is connected for a reversal, and stays so,
<1>7. ASSUME Reversing, Engaged, Still("gui"), Still("dsp"), pc'["rev"] \in ReverseWork
      PROVE  SessionPhase'
  <2>1. Engaged' /\ (Live <=> Live')
    BY <1>1, <1>5, <1>7 DEF Engaged, Linked, SameLinks, Live
  <2>2. Reversing'
    BY <1>2, <1>7, <2>1 DEF Reversing, Still, Waits, Rests
  <2> QED
    BY <2>2 DEF SessionPhase
\* or hears that it is to exit.
<1>8. ASSUME RecvMessage("rev"), pc["rev"] = "r_recv", NEW m \in {"run", "exit"},
             net.inbuf["rev8800"] = TextBytes(m)
      PROVE  /\ pc'["rev"] = IF m = "run" THEN "r_ready" ELSE "r_xdisc"
             /\ Still("gui") /\ Still("dsp")
  <2> DEFINE b == net.inbuf["rev8800"]
  <2>1. \E n \in ReadSizes(Len(b), RECV_CAP) :
          Turn("rev", AfterText("r_recv", SubSeq(b, 1, n)), stage["rev"], buffer_idx["rev"])
    BY <1>0, <1>1, <1>3, <1>8, MessageRead
  <2> HIDE DEF b
  <2>2. PICK n \in ReadSizes(Len(b), RECV_CAP) :
          Turn("rev", AfterText("r_recv", SubSeq(b, 1, n)), stage["rev"], buffer_idx["rev"])
    BY <2>1
  <2>3. b = TextBytes(m) /\ m \in Message /\ {"run", "exit"} \subseteq Message
    BY <1>8 DEF b, Message
  <2>4. SubSeq(b, 1, n) = TextBytes(m)
    BY <2>2, <2>3, ReadText
  <2>5. Turn("rev", ReverseCommand(TextBytes(m)), stage["rev"], buffer_idx["rev"])
    BY <2>2, <2>4, AfterTexts
  <2>6. ReverseCommand(TextBytes(m)) = IF m = "run" THEN "r_ready" ELSE "r_xdisc"
    BY <1>8, <2>3, TextsDiffer DEF ReverseCommand
  <2> QED
    BY <2>5, <2>6, OthersStill
<1>9. CASE pc["rev"] = "r_recv"
  <2>1. RecvMessage("rev")
    BY <1>0, <1>9, WhichCall
  <2>2. net.inbuf["rev8800"] # <<>>
    BY <1>0, <1>1, <1>3, <2>1, MessageRead, ReceivedBy
  <2>3. CASE Engaged /\ (Reversing \/ pc["dsp"] = "d_stop")
    <3>1. pc["dsp"] \in {"d_started", "d_disc"}
      BY <1>5, <1>9, <2>2, <2>3, Phases DEF ReversePhase
    <3>2. Reversing /\ pc["dsp"] = "d_started"
      BY <2>3, <3>1 DEF Reversing
    <3>3. net.inbuf["rev8800"] = TextBytes("run")
      BY <1>5, <1>9, <2>2, <2>3, <3>2, Phases DEF ReversePhase, DspAway
    <3>4. pc'["rev"] = "r_ready" /\ Still("gui") /\ Still("dsp")
      BY <1>8, <1>9, <2>1, <3>3
    <3> QED
      BY <1>7, <2>3, <3>2, <3>4 DEF ReverseWork
  <2>4. CASE Leaves /\ Exiting /\ pc["dsp"] \in {"d_disc", "exited"}
    <3>1. pc'["rev"] = "r_xdisc" /\ Still("gui") /\ Still("dsp")
      BY <1>6, <1>8, <1>9, <2>1, <2>4
    <3>2. net'.status = net.status
      BY <1>1 DEF SameLinks
    <3>3. Leaves'
      BY <1>6, <2>4, <3>1, <3>2 DEF Leaves
    <3>4. Exiting'
      BY <2>4, <3>1, <3>2, <3>3 DEF Exiting, Still
    <3> QED
      BY <3>4 DEF SessionPhase
  <2> QED
    BY <1>4, <2>3, <2>4
<1>10. CASE pc["rev"] # "r_recv"
  <2>1. Engaged /\ Linked
    BY <1>4, <1>5, <1>6, <1>10
  <2>2. Reversing
    <3>1. pc["dsp"] # "d_stop"
      BY <1>2, <1>10, <2>1, Phases DEF ReversePhase, DspAway
    <3> QED
      BY <1>4, <1>6, <1>10, <3>1
  <2>3. ASSUME NEW l \in ReverseWork, NEW st, NEW i, Turn("rev", l, st, i)
        PROVE  SessionPhase'
    BY <1>7, <2>1, <2>2, <2>3, OthersStill
  <2>4. CASE pc["rev"] \in {"r_ready", "r_done"}
    <3>1. SendMessage("rev") /\ Site("rev").next \in ReverseWork
      BY <1>0, <2>4, WhichCall, ReverseSites DEF Site, Send, ReverseWork
    <3> QED
      BY <1>0, <1>1, <2>3, <3>1, MessageSent
  <2>5. CASE pc["rev"] = "r_fetch"
    <3> DEFINE b == net.inbuf["rev8800"]
    <3>1. RecvMessage("rev")
      BY <1>0, <2>5, WhichCall
    <3>2. /\ Received("rev8800")
          /\ \E n \in ReadSizes(Len(b), RECV_CAP) :
               Turn("rev", AfterText("r_fetch", SubSeq(b, 1, n)), stage["rev"],
                    buffer_idx["rev"])
      BY <1>0, <1>1, <1>3, <2>5, <3>1, MessageRead
    <3>3. b = TextBytes("ready") /\ "ready" \in Message
      BY <2>5, <3>2, ReceivedBy, Phases DEF ReverseFinds, Message
    <3> HIDE DEF b
    <3>4. PICK n \in ReadSizes(Len(b), RECV_CAP) :
            Turn("rev", AfterText("r_fetch", SubSeq(b, 1, n)), stage["rev"],
                 buffer_idx["rev"])
      BY <3>2
    <3>5. SubSeq(b, 1, n) = TextBytes("ready")
      BY <3>3, <3>4, ReadText
    <3>6. Turn("rev", "r_tx", stage["rev"], buffer_idx["rev"])
      BY <3>4, <3>5, AfterTexts DEF ReverseFetch
    <3> QED
      BY <2>3, <3>6 DEF ReverseWork
  <2>6. CASE pc["rev"] = "r_rx"
    <3>1. /\ Site("rev").next = "r_reverse" /\ "r_reverse" \in ReverseWork
          /\ "r_rx" \in ReverseWork
          /\ RecvChunk("rev") \/ SendConfirmation("rev")
      BY <1>0, <2>6, WhichCall, ReverseSites DEF Site, RecvAudio, RecvAudioLabel, ReverseWork
    <3>2. \E l \in ReverseWork : \E st, i : Turn("rev", l, st, i)
      <4>1. CASE RecvChunk("rev")
        BY <1>0, <1>1, <2>6, <3>1, <4>1, ChunkRead
      <4>2. CASE SendConfirmation("rev")
        BY <1>0, <1>1, <2>6, <3>1, <4>2, ConfirmationSent
      <4> QED
        BY <3>1, <4>1, <4>2
    <3> QED
      BY <2>3, <3>2
  <2>7. CASE pc["rev"] = "r_tx"
    <3>1. /\ SendChunk("rev") \/ RecvConfirmation("rev")
          /\ "r_tx" \in ReverseWork
      BY <1>0, <2>7, WhichCall DEF SendAudioLabel, ReverseWork
    <3>2. CASE SendChunk("rev") /\ pc'["rev"] # "r_tx"
      BY <2>7, <3>2, ReverseLastPhase
    <3>3. CASE SendChunk("rev") /\ pc'["rev"] = "r_tx"
      <4>1. \E l, st, i : Turn("rev", l, st, i)
        BY <1>0, <3>3, ChunkSent
      <4> QED
        BY <1>7, <2>1, <2>2, <3>1, <3>3, <4>1, OthersStill
    <3>4. CASE RecvConfirmation("rev")
      <4>1. stage["rev"] = "confirm" /\ Received("rev8800")
        BY <1>0, <1>1, <1>3, <3>4, ConfirmationRead
      <4>2. net.inbuf["rev8800"] = TextBytes("CONFIRMED")
        BY <2>7, <4>1, ReceivedBy, Phases DEF ReverseFinds
      <4>3. Turn("rev", "r_tx", "right", 0)
        BY <1>0, <1>1, <1>3, <2>7, <3>4, <4>2, ConfirmationRead
      <4> QED
        BY <2>3, <3>1, <4>3
    <3> QED
      BY <3>1, <3>2, <3>3, <3>4
  <2> QED
    BY <1>2, <1>10, <2>4, <2>5, <2>6, <2>7
<1> QED
  BY <1>9, <1>10

-----------------------------------------------------------------------------
(***************************************************************************)
(* The phases go on: everything else                                       *)
(***************************************************************************)
LEMMA FileKept ==
  ASSUME FileFits, file' = file, loaded' = loaded,
         pc'["gui"] \in BusyLabel => pc["gui"] \in BusyLabel
  PROVE  FileFits'
BY DEF FileFits

\* Whose label it is.
LEMMA WhoseLabel ==
  ASSUME WaveTechInv, NEW p \in Program
  PROVE  /\ pc[p] \in {"d_bind", "d_accept", "d_connect", "d_xconnect", "d_disc"} =>
              p = "dsp"
         /\ pc[p] \in {"r_bind", "r_accept", "r_disc", "r_drop", "r_xdisc", "r_reverse"} =>
              p = "rev"
         /\ pc[p] \in {"g_set", "g_quit", "g_connect"} => p = "gui"
<1>1. pc[p] \in LabelsOf(p)
  BY DEF WaveTechInv, ProgramInv
<1> QED
  BY <1>1 DEF LabelsOf, GuiLabel, DspLabel, ReverseLabel, EndLabel, Program

\* One program goes to another label.
LEMMA Went ==
  ASSUME WaveTechInv, NEW p \in Program, NEW l, Goto(p, l)
  PROVE  pc'[p] = l /\ \A q \in Program \ {p} : pc'[q] = pc[q]
BY SessionTypes DEF Goto

\* A new acceptor.
LEMMA ListenEffect ==
  ASSUME NEW n \in NetOf(Byte), NEW port \in Port
  PROVE  LET m == Listen(n, port)
         IN  /\ m.status = n.status /\ m.peer = n.peer /\ m.inbuf = n.inbuf
             /\ m.listening[port]
             /\ \A q \in Port \ {port} : m.listening[q] = n.listening[q]
<1> DEFINE m == [n EXCEPT !.listening[port] = TRUE]
<1>1. TRUE \in BOOLEAN
  OBVIOUS
<1>2. /\ m.status = n.status /\ m.peer = n.peer /\ m.inbuf = n.inbuf
      /\ m.listening[port] = TRUE
      /\ \A q \in Port \ {port} : m.listening[q] = n.listening[q]
  BY <1>1, ListeningEffect
<1>3. Listen(n, port) = m
  BY DEF Listen
<1> HIDE DEF m
<1> QED
  BY <1>2, <1>3

\* make_unique<DownstreamPipe>
LEMMA BindPhase ==
  ASSUME WaveTechInv, SessionInv, PatientInv, NEW p \in Program, Bind(p)
  PROVE  PhaseInv'
<1>0. /\ net \in NetOf(Byte) /\ {"gui", "dsp", "rev"} \subseteq Program
      /\ 5500 \in Port /\ 8800 \in Port /\ 5500 \in Port \ {8800} /\ 8800 \in Port \ {5500}
  BY SessionTypes DEF Program, Port
<1>2. UNCHANGED <<stage, buffer_idx, audio, file, loaded>>
  BY DEF Bind
<1>3. CASE pc[p] = "d_bind"
  <2>1. p = "dsp" /\ Goto("dsp", "d_accept") /\ net' = Listen(net, 5500)
    BY <1>3, WhoseLabel DEF Bind
  <2>2. pc'["dsp"] = "d_accept" /\ pc'["gui"] = pc["gui"] /\ pc'["rev"] = pc["rev"]
    BY <1>0, <2>1, Went
  <2>3. /\ net'.status = net.status /\ net'.listening[5500]
        /\ net'.listening[8800] = net.listening[8800]
    BY <1>0, <2>1, ListenEffect
  <2>4. Starting
    BY <1>3, <2>1 DEF PatientInv, PhaseInv, PhaseInv, SessionPhase, Starting, Greeting, Asking, Reversing,
                      Resting, Exiting
  <2>5. Starting'
    BY <2>2, <2>3, <2>4 DEF Starting
  <2>6. Listens'
    BY <2>2, <2>3 DEF PatientInv, PhaseInv, PhaseInv, Listens, EndLabel
  <2>7. FileFits'
    BY <1>2, <2>2, FileKept DEF PatientInv, PhaseInv, PhaseInv
  <2> QED
    BY <2>5, <2>6, <2>7 DEF PatientInv, PhaseInv, PhaseInv, SessionPhase
<1>4. CASE pc[p] = "r_bind"
  <2>1. p = "rev" /\ Goto("rev", "r_accept") /\ net' = Listen(net, 8800)
    BY <1>4, WhoseLabel DEF Bind
  <2>2. pc'["rev"] = "r_accept" /\ pc'["gui"] = pc["gui"] /\ pc'["dsp"] = pc["dsp"]
    BY <1>0, <2>1, Went
  <2>3. /\ net'.status = net.status /\ net'.peer = net.peer /\ net'.inbuf = net.inbuf
        /\ net'.listening[8800]
        /\ net'.listening[5500] = net.listening[5500]
    BY <1>0, <2>1, ListenEffect
  <2>4. /\ Rests => Rests'
        /\ Live => Live'
        /\ AllSent => AllSent'
    <3>1. Back' = Back
      BY <1>2, SameFile
    <3> QED
      BY <1>2, <1>4, <2>1, <2>2, <2>3, <3>1 DEF Rests, Live, AllSent
  <2>5. ~Waits /\ ~Engaged /\ ~Leaves
    BY <1>4, <2>1 DEF Waits, Engaged, Leaves, ReverseWork
  <2>6. SessionPhase'
    <3>1. CASE Starting
      <4>1. Starting'
        BY <2>2, <2>3, <3>1 DEF Starting
      <4> QED
        BY <4>1 DEF SessionPhase
    <3>2. CASE Reversing
      <4>1. Reversing'
        BY <2>2, <2>4, <2>5, <3>2 DEF Reversing
      <4> QED
        BY <4>1 DEF SessionPhase
    <3>3. CASE Resting
      <4>1. Resting'
        BY <2>2, <2>3, <2>4, <3>3 DEF Resting
      <4> QED
        BY <4>1 DEF SessionPhase
    <3> QED
      BY <2>5, <3>1, <3>2, <3>3 DEF PatientInv, PhaseInv, PhaseInv, SessionPhase, Greeting, Asking, Exiting
  <2>7. Listens'
    BY <2>2, <2>3 DEF PatientInv, PhaseInv, PhaseInv, Listens, EndLabel
  <2>8. FileFits'
    BY <1>2, <2>2, FileKept DEF PatientInv, PhaseInv, PhaseInv
  <2> QED
    BY <2>6, <2>7, <2>8 DEF PatientInv, PhaseInv, PhaseInv
<1> QED
  BY <1>3, <1>4 DEF Bind

\* DownstreamPipe::connect of the dsp
LEMMA DspAcceptPhase ==
  ASSUME WaveTechInv, SessionInv, PatientInv, AcceptClient("dsp")
  PROVE  PhaseInv'
<1>0. /\ net \in NetOf(Byte) /\ Wired(net) /\ {"gui", "dsp", "rev"} \subseteq Program
      /\ Pending(5500) = "pend5500"
      /\ {"pend8800", "rev8800"} \subseteq Sock \ {"dsp5500", "pend5500"}
  BY SessionTypes DEF Program, Pending, SessionInv, Sock
<1>1. /\ pc["dsp"] = "d_accept" /\ CanAccept(net, 5500) /\ Goto("dsp", "d_loop")
      /\ net' = Accept(net, "dsp5500", 5500)
      /\ UNCHANGED <<stage, buffer_idx, audio, file, loaded>>
  BY <1>0, WhoseLabel DEF AcceptClient
<1>2. pc'["dsp"] = "d_loop" /\ pc'["gui"] = pc["gui"] /\ pc'["rev"] = pc["rev"]
  BY <1>0, <1>1, Went
<1>3. net.status["dsp5500"] = "closed"
  BY <1>1 DEF SessionInv, DspUp
<1>4. /\ net'.peer["gui"] = IF net.peer["gui"] = "pend5500" THEN "dsp5500"
                            ELSE net.peer["gui"]
      /\ net'.inbuf["dsp5500"] = net.inbuf["pend5500"]
      /\ net'.status["pend8800"] = net.status["pend8800"]
  BY <1>0, <1>1, <1>3, AcceptEffect
<1>5. net'.listening = net.listening
  BY <1>0, <1>1, AcceptBeside
<1>6. Greeting
  <2>1. ~Starting
    BY <1>0, <1>1 DEF CanAccept, Starting, Sock
  <2> QED
    BY <1>1, <2>1 DEF PatientInv, PhaseInv, PhaseInv, SessionPhase, Asking, Reversing, Resting, Exiting
<1>7. Resting'
  BY <1>2, <1>4, <1>6 DEF Greeting, Resting, Rests, Waits, Live
<1>8. Listens'
  BY <1>1, <1>2, <1>5 DEF PatientInv, PhaseInv, PhaseInv, Listens, EndLabel
<1>9. FileFits'
  BY <1>1, <1>2, FileKept DEF PatientInv, PhaseInv, PhaseInv
<1> QED
  BY <1>7, <1>8, <1>9 DEF PatientInv, PhaseInv, PhaseInv, SessionPhase

\* and of the reverse service.
LEMMA ReverseAcceptPhase ==
  ASSUME WaveTechInv, SessionInv, PatientInv, AcceptClient("rev")
  PROVE  PhaseInv'
<1>0. /\ net \in NetOf(Byte) /\ Wired(net) /\ {"gui", "dsp", "rev"} \subseteq Program
      /\ Pending(8800) = "pend8800"
      /\ {"dsp5500", "gui"} \subseteq Sock \ {"rev8800", "pend8800"}
      /\ "gui" \in Sock \ {"rev8800", "pend8800", "dsp8800"}
  BY SessionTypes DEF Program, Pending, SessionInv, Sock
<1>1. /\ pc["rev"] = "r_accept" /\ CanAccept(net, 8800) /\ Goto("rev", "r_recv")
      /\ net' = Accept(net, "rev8800", 8800)
      /\ UNCHANGED <<stage, buffer_idx, audio, file, loaded>>
  BY <1>0, WhoseLabel DEF AcceptClient
<1>2. pc'["rev"] = "r_recv" /\ pc'["gui"] = pc["gui"] /\ pc'["dsp"] = pc["dsp"]
  BY <1>0, <1>1, Went
<1>3. net.status["rev8800"] = "closed"
  BY <1>1 DEF SessionInv, ReverseUp
<1>4. /\ net'.peer["dsp8800"] = IF net.peer["dsp8800"] = "pend8800" THEN "rev8800"
                                ELSE net.peer["dsp8800"]
      /\ net'.inbuf["rev8800"] = net.inbuf["pend8800"]
      /\ net'.status["dsp5500"] = net.status["dsp5500"]
      /\ net'.peer["gui"] = net.peer["gui"]
  BY <1>0, <1>1, <1>3, AcceptEffect
<1>5. /\ net'.listening = net.listening
      /\ net'.status["rev8800"] = "open" /\ net'.status["pend8800"] = "closed"
  BY <1>0, <1>1, AcceptBeside
<1>6. ~Waits /\ ~Rests /\ ~Starting
  BY <1>0, <1>1 DEF Waits, Rests, CanAccept, Starting, Sock
<1>7. Engaged => Engaged'
  BY <1>1, <1>2, <1>4, <1>5 DEF Engaged, Linked, ReverseWork
<1>8. Leaves => Leaves'
  BY <1>1, <1>2, <1>4, <1>5 DEF Leaves
<1>9. Live => Live'
  BY <1>4 DEF Live
<1>10. Reversing' \/ Exiting'
  <2>1. CASE Reversing
    BY <1>2, <1>6, <1>7, <1>9, <2>1 DEF Reversing
  <2>2. CASE Exiting
    BY <1>2, <1>4, <1>6, <1>7, <1>8, <2>2 DEF Exiting
  <2> QED
    BY <1>6, <2>1, <2>2 DEF PatientInv, PhaseInv, PhaseInv, SessionPhase, Greeting, Asking, Resting
<1>11. Listens'
  BY <1>1, <1>2, <1>5 DEF PatientInv, PhaseInv, PhaseInv, Listens, EndLabel
<1>12. FileFits'
  BY <1>1, <1>2, FileKept DEF PatientInv, PhaseInv, PhaseInv
<1> QED
  BY <1>10, <1>11, <1>12 DEF PatientInv, PhaseInv, PhaseInv, SessionPhase

\* UpstreamPipe::connect of the dsp
LEMMA ConnectPhase ==
  ASSUME WaveTechInv, SessionInv, PatientInv, NEW p \in Program, ConnectReverse(p)
  PROVE  PhaseInv'
<1>0. /\ net \in NetOf(Byte) /\ Wired(net) /\ {"gui", "dsp", "rev"} \subseteq Program
      /\ Pending(8800) = "pend8800"
      /\ {"dsp5500", "gui"} \subseteq Sock \ {"dsp8800", "pend8800"}
  BY SessionTypes DEF Program, Pending, SessionInv, Sock
<1>1. p = "dsp" /\ pc["dsp"] \in {"d_connect", "d_xconnect"}
  BY WhoseLabel DEF ConnectReverse
<1>2. \/ Reversing /\ pc["dsp"] = "d_connect"
      \/ Exiting /\ pc["dsp"] = "d_xconnect" /\ net.status["dsp5500"] = "open"
  BY <1>1 DEF PatientInv, PhaseInv, PhaseInv, SessionPhase, Starting, Greeting, Asking, Reversing, Resting,
              Exiting
<1>3. Waits
  BY <1>1, <1>2 DEF Reversing, Exiting
<1>4. net.listening[8800]
  BY <1>3 DEF PatientInv, PhaseInv, PhaseInv, Listens, Waits, EndLabel
<1>5. /\ net' = Connect(net, "dsp8800", 8800)
      /\ Goto("dsp", IF pc["dsp"] = "d_connect" THEN "d_run" ELSE "d_stop")
      /\ UNCHANGED <<stage, buffer_idx, audio, file, loaded>>
  BY <1>1, <1>4 DEF ConnectReverse
<1>6. /\ pc'["dsp"] = IF pc["dsp"] = "d_connect" THEN "d_run" ELSE "d_stop"
      /\ pc'["gui"] = pc["gui"] /\ pc'["rev"] = pc["rev"]
  BY <1>0, <1>5, Went
<1>7. net.inbuf["dsp8800"] = <<>>
  BY <1>1, Phases DEF ClientFinds
<1>8. net.peer["dsp8800"] # "gui"
  BY <1>0 DEF Wired, None
<1>9. /\ net'.listening = net.listening /\ net'.peer["dsp8800"] = "pend8800"
      /\ net'.peer["gui"] = net.peer["gui"]
      /\ net'.status["dsp5500"] = net.status["dsp5500"]
  BY <1>0, <1>5, <1>7, <1>8, ConnectBeside
<1>10. Engaged'
  BY <1>3, <1>6, <1>9 DEF Engaged, Waits
<1>11. Reversing' \/ Exiting'
  <2>1. CASE Reversing /\ pc["dsp"] = "d_connect"
    <3>1. pc["gui"] = "g_rx"
      BY <2>1, Phases DEF Reversing, GuiPhase, DspIdle, DspWork
    <3>2. Live'
      BY <1>9, <2>1 DEF Reversing, Live
    <3> QED
      BY <1>6, <1>10, <2>1, <3>1, <3>2 DEF Reversing
  <2>2. CASE Exiting /\ pc["dsp"] = "d_xconnect" /\ net.status["dsp5500"] = "open"
    BY <1>6, <1>9, <1>10, <2>2 DEF Exiting
  <2> QED
    BY <1>2, <2>1, <2>2
<1>12. Listens'
  BY <1>1, <1>6, <1>9 DEF PatientInv, PhaseInv, PhaseInv, Listens, EndLabel
<1>13. FileFits'
  BY <1>5, <1>6, FileKept DEF PatientInv, PhaseInv, PhaseInv
<1> QED
  BY <1>11, <1>12, <1>13 DEF PatientInv, PhaseInv, PhaseInv, SessionPhase

\* The gui ends: set_exit_status(true), and main returns.
LEMMA QuitPhase ==
  ASSUME WaveTechInv, SessionInv, PatientInv, NEW p \in Program, Quit(p)
  PROVE  PhaseInv'
<1>0. /\ net \in NetOf(Byte) /\ Wired(net) /\ {"gui", "dsp", "rev"} \subseteq Program
      /\ {"dsp5500", "dsp8800", "rev8800", "pend8800"} \subseteq Sock \ {"gui"}
  BY SessionTypes DEF Program, SessionInv, Sock
<1>1. p = "gui" /\ pc["gui"] = "g_quit" /\ EndWith("gui", "exited")
  BY WhoseLabel DEF Quit
<1>2. /\ Goto("gui", "exited") /\ net' = CloseAll(net, "gui")
      /\ UNCHANGED <<stage, buffer_idx, audio, file, loaded>>
  BY <1>1 DEF EndWith
<1>3. pc'["gui"] = "exited" /\ pc'["dsp"] = pc["dsp"] /\ pc'["rev"] = pc["rev"]
  BY <1>0, <1>2, Went
<1>4. net.inbuf["gui"] = <<>>
  BY <1>1, Phases DEF GuiFinds
<1>5. /\ net'.listening = net.listening
      /\ \A t \in Sock \ {"gui"} :
           net'.status[t] = net.status[t] /\ net'.inbuf[t] = net.inbuf[t]
      /\ net'.peer["dsp8800"] = net.peer["dsp8800"]
  BY <1>0, <1>2, <1>4, GuiGone
<1>6. /\ Waits => Waits'
      /\ Engaged => Engaged'
      /\ Leaves => Leaves'
  BY <1>0, <1>3, <1>5 DEF Waits, Engaged, Linked, Leaves
<1>7. /\ net'.status["dsp5500"] = net.status["dsp5500"]
      /\ net'.inbuf["dsp5500"] = net.inbuf["dsp5500"]
  BY <1>0, <1>5
<1>8. Exiting
  BY <1>1 DEF PatientInv, PhaseInv, PhaseInv, SessionPhase, Starting, Greeting, Asking, Reversing, Resting
<1>9. Exiting'
  BY <1>3, <1>6, <1>7, <1>8 DEF Exiting
<1>10. Listens'
  BY <1>3, <1>5 DEF PatientInv, PhaseInv, PhaseInv, Listens
<1>11. FileFits'
  BY <1>2, <1>3, FileKept DEF PatientInv, PhaseInv, PhaseInv, BusyLabel
<1> QED
  BY <1>9, <1>10, <1>11 DEF PatientInv, PhaseInv, PhaseInv, SessionPhase

\* The dsp disconnects and ends.
LEMMA DspEndsPhase ==
  ASSUME WaveTechInv, SessionInv, PatientInv, Disconnect("dsp")
  PROVE  PhaseInv'
<1>0. /\ net \in NetOf(Byte) /\ Wired(net) /\ {"gui", "dsp", "rev"} \subseteq Program
  BY SessionTypes DEF Program, SessionInv
<1>1. pc["dsp"] = "d_disc"
  BY <1>0, WhoseLabel DEF Disconnect
<1>2. Exiting /\ Leaves /\ net.status["dsp5500"] = "open"
  BY <1>1 DEF PatientInv, PhaseInv, PhaseInv, SessionPhase, Starting, Greeting, Asking, Reversing, Resting,
              Exiting
<1>3. EndWith("dsp", "exited")
  BY <1>1, <1>2 DEF Disconnect
<1>4. /\ Goto("dsp", "exited") /\ net' = CloseAll(net, "dsp")
      /\ UNCHANGED <<stage, buffer_idx, audio, file, loaded>>
  BY <1>3 DEF EndWith
<1>5. pc'["dsp"] = "exited" /\ pc'["gui"] = pc["gui"] /\ pc'["rev"] = pc["rev"]
  BY <1>0, <1>4, Went
<1>6. net.inbuf["dsp8800"] = <<>>
  BY <1>1, Phases DEF ClientFinds
<1>7. /\ ~net'.listening[5500] /\ net'.listening[8800] = net.listening[8800]
      /\ \A t \in {"rev8800", "pend8800"} :
           net'.status[t] = net.status[t] /\ net'.inbuf[t] = net.inbuf[t]
  BY <1>0, <1>4, <1>6, DspGone
<1>8. Leaves'
  BY <1>2, <1>5, <1>7 DEF Leaves
<1>9. Exiting'
  BY <1>2, <1>5, <1>8 DEF Exiting
<1>10. Listens'
  BY <1>5, <1>7 DEF PatientInv, PhaseInv, PhaseInv, Listens, EndLabel
<1>11. FileFits'
  BY <1>4, <1>5, FileKept DEF PatientInv, PhaseInv, PhaseInv
<1> QED
  BY <1>9, <1>10, <1>11 DEF PatientInv, PhaseInv, PhaseInv, SessionPhase

\* What the end of the service, or of its pipe, leaves.
LEMMA ReverseGoes ==
  ASSUME WaveTechInv, SessionInv, NEW l, EndWith("rev", l),
         net.inbuf["rev8800"] = <<>>, net.status["pend8800"] = "closed"
  PROVE  /\ pc'["rev"] = l /\ pc'["gui"] = pc["gui"] /\ pc'["dsp"] = pc["dsp"]
         /\ UNCHANGED <<stage, buffer_idx, audio, file, loaded>>
         /\ ~net'.listening[8800] /\ net'.listening[5500] = net.listening[5500]
         /\ \A t \in {"dsp5500", "dsp8800"} :
              net'.status[t] = net.status[t] /\ net'.inbuf[t] = net.inbuf[t]
         /\ net'.status["pend8800"] = "closed"
         /\ Live => Live'
         /\ AllSent => AllSent'
<1>0. /\ net \in NetOf(Byte) /\ Wired(net) /\ {"gui", "dsp", "rev"} \subseteq Program
      /\ {"dsp5500", "dsp8800"} \subseteq Sock \ {"rev8800", "pend8800"}
  BY SessionTypes DEF Program, SessionInv, Sock
<1>1. /\ Goto("rev", l) /\ net' = CloseAll(net, "rev")
      /\ UNCHANGED <<stage, buffer_idx, audio, file, loaded>>
  BY DEF EndWith
<1>2. pc'["rev"] = l /\ pc'["gui"] = pc["gui"] /\ pc'["dsp"] = pc["dsp"]
  BY <1>0, <1>1, Went
<1>3. /\ ~net'.listening[8800] /\ net'.listening[5500] = net.listening[5500]
      /\ \A t \in Sock \ {"rev8800", "pend8800"} :
           net'.status[t] = net.status[t] /\ net'.inbuf[t] = net.inbuf[t]
      /\ net'.status["pend8800"] = "closed"
      /\ net'.peer["gui"] = net.peer["gui"]
  BY <1>0, <1>1, ReverseGone
<1>4. \A t \in {"dsp5500", "dsp8800"} :
        net'.status[t] = net.status[t] /\ net'.inbuf[t] = net.inbuf[t]
  BY <1>0, <1>3
<1>5. Live => Live'
  BY <1>3 DEF Live
<1>6. AllSent => AllSent'
  <2>1. Back' = Back
    BY <1>1, SameFile
  <2> QED
    BY <1>1, <1>4, <2>1 DEF AllSent
<1> QED
  BY <1>1, <1>2, <1>3, <1>4, <1>5, <1>6

\* The service is talking to nobody, and goes on doing so.
LEMMA RestsOn ==
  ASSUME PatientInv, pc["rev"] \in {"r_disc", "r_drop", "r_bind", "killed"},
         Rests', pc'["gui"] = pc["gui"], pc'["dsp"] = pc["dsp"],
         net'.inbuf["dsp5500"] = net.inbuf["dsp5500"],
         Live => Live', AllSent => AllSent',
         ~Starting
  PROVE  Rests /\ SessionPhase'
<1>1. ~Waits /\ ~Engaged /\ ~Leaves
  BY DEF Waits, Engaged, Leaves, ReverseWork
<1>2. Reversing \/ Resting
  BY <1>1 DEF PatientInv, PhaseInv, PhaseInv, SessionPhase, Greeting, Asking, Exiting
<1>3. Rests /\ (Reversing' \/ Resting')
  <2>1. CASE Reversing
    BY <1>1, <2>1 DEF Reversing
  <2>2. CASE Resting
    BY <2>2 DEF Resting
  <2> QED
    BY <1>2, <2>1, <2>2
<1> QED
  BY <1>3 DEF SessionPhase

\* The service disconnects, and ends when it was told to.
LEMMA ReverseDisconnectPhase ==
  ASSUME WaveTechInv, SessionInv, PatientInv, Disconnect("rev")
  PROVE  PhaseInv'
<1>0. /\ net \in NetOf(Byte) /\ Wired(net) /\ {"gui", "dsp", "rev"} \subseteq Program
      /\ {"gui", "dsp5500", "dsp8800", "pend8800"} \subseteq Sock \ {"rev8800"}
      /\ "rev8800" \in Sock
  BY SessionTypes DEF Program, SessionInv, Sock
<1>1. pc["rev"] \in {"r_disc", "r_xdisc"}
  BY <1>0, WhoseLabel DEF Disconnect
<1>2. net.inbuf["rev8800"] = <<>>
  BY <1>1, Phases DEF ReverseFinds
<1>3. CASE pc["rev"] = "r_disc"
  <2>1. Rests /\ ~Starting
    BY <1>3 DEF PatientInv, PhaseInv, PhaseInv, SessionPhase, Starting, Greeting, Asking, Reversing, Resting,
                Exiting, Waits, Engaged, Leaves, ReverseWork
  <2>2. net.status["rev8800"] = "open" /\ net.status["pend8800"] = "closed"
    BY <1>3, <2>1 DEF Rests
  <2>3. /\ net' = Close(net, "rev8800") /\ Goto("rev", "r_drop")
        /\ UNCHANGED <<stage, buffer_idx, audio, file, loaded>>
    BY <1>3, <2>2 DEF Disconnect
  <2>4. pc'["rev"] = "r_drop" /\ pc'["gui"] = pc["gui"] /\ pc'["dsp"] = pc["dsp"]
    BY <1>0, <2>3, Went
  <2>5. /\ net'.listening = net.listening
        /\ \A t \in Sock \ {"rev8800"} :
             /\ net'.peer[t] = IF t = net.peer["rev8800"] THEN None ELSE net.peer[t]
             /\ net'.status[t] = net.status[t] /\ net'.inbuf[t] = net.inbuf[t]
    BY <1>0, <1>2, <2>3, CloseEffect
  <2>6. Live => Live'
    <3>1. net.peer["rev8800"] # "gui"
      BY <1>0 DEF Wired, None
    <3> QED
      BY <1>0, <2>5, <3>1 DEF Live
  <2>7. AllSent => AllSent'
    <3>1. Back' = Back
      BY <2>3, SameFile
    <3>2. /\ net'.status["dsp8800"] = net.status["dsp8800"]
          /\ net'.inbuf["dsp8800"] = net.inbuf["dsp8800"]
      BY <1>0, <2>5
    <3> QED
      BY <2>3, <3>1, <3>2 DEF AllSent
  <2>8. Rests'
    BY <1>0, <2>2, <2>4, <2>5 DEF Rests
  <2>9. net'.inbuf["dsp5500"] = net.inbuf["dsp5500"]
    BY <1>0, <2>5
  <2>10. SessionPhase'
    BY <1>3, <2>1, <2>4, <2>6, <2>7, <2>8, <2>9, RestsOn
  <2>11. Listens'
    BY <1>3, <2>4, <2>5 DEF PatientInv, PhaseInv, PhaseInv, Listens, EndLabel
  <2>12. FileFits'
    BY <2>3, <2>4, FileKept DEF PatientInv, PhaseInv, PhaseInv
  <2> QED
    BY <2>10, <2>11, <2>12 DEF PatientInv, PhaseInv, PhaseInv
<1>4. CASE pc["rev"] = "r_xdisc"
  <2>1. Exiting /\ pc["dsp"] \in {"d_disc", "exited"} /\ Leaves
    BY <1>4 DEF PatientInv, PhaseInv, PhaseInv, SessionPhase, Starting, Greeting, Asking, Reversing, Resting,
                Exiting, Waits, Engaged, Rests, ReverseWork
  <2>2. net.status["rev8800"] = "open" /\ net.status["pend8800"] = "closed"
    BY <1>4, <2>1 DEF Leaves
  <2>3. EndWith("rev", "exited")
    BY <1>4, <2>2 DEF Disconnect
  <2>4. /\ pc'["rev"] = "exited" /\ pc'["gui"] = pc["gui"] /\ pc'["dsp"] = pc["dsp"]
        /\ UNCHANGED <<stage, buffer_idx, audio, file, loaded>>
        /\ ~net'.listening[8800] /\ net'.listening[5500] = net.listening[5500]
        /\ net'.status["dsp5500"] = net.status["dsp5500"]
    BY <1>2, <2>2, <2>3, ReverseGoes
  <2>5. Leaves'
    BY <2>4 DEF Leaves
  <2>6. Exiting'
    BY <2>1, <2>4, <2>5 DEF Exiting
  <2>7. Listens'
    BY <2>4 DEF PatientInv, PhaseInv, PhaseInv, Listens, EndLabel
  <2>8. FileFits'
    BY <2>4, FileKept DEF PatientInv, PhaseInv, PhaseInv
  <2> QED
    BY <2>6, <2>7, <2>8 DEF PatientInv, PhaseInv, PhaseInv, SessionPhase
<1> QED
  BY <1>1, <1>3, <1>4

\* The end of the loop of the service.
LEMMA DropPipePhase ==
  ASSUME WaveTechInv, SessionInv, PatientInv, NEW p \in Program, DropPipe(p)
  PROVE  PhaseInv'
<1>1. p = "rev" /\ pc["rev"] = "r_drop" /\ EndWith("rev", "r_bind")
  BY WhoseLabel DEF DropPipe
<1>2. net.inbuf["rev8800"] = <<>>
  BY <1>1, Phases DEF ReverseFinds
<1>3. Rests /\ ~Starting
  BY <1>1 DEF PatientInv, PhaseInv, PhaseInv, SessionPhase, Starting, Greeting, Asking, Reversing, Resting,
              Exiting, Waits, Engaged, Leaves, ReverseWork
<1>4. net.status["pend8800"] = "closed"
  BY <1>3 DEF Rests
<1>5. /\ pc'["rev"] = "r_bind" /\ pc'["gui"] = pc["gui"] /\ pc'["dsp"] = pc["dsp"]
      /\ UNCHANGED <<stage, buffer_idx, audio, file, loaded>>
      /\ ~net'.listening[8800] /\ net'.listening[5500] = net.listening[5500]
      /\ net'.inbuf["dsp5500"] = net.inbuf["dsp5500"]
      /\ net'.status["pend8800"] = "closed"
      /\ Live => Live'
      /\ AllSent => AllSent'
  BY <1>1, <1>2, <1>4, ReverseGoes
<1>6. Rests'
  BY <1>5 DEF Rests
<1>7. SessionPhase'
  BY <1>1, <1>3, <1>5, <1>6, RestsOn
<1>8. Listens'
  BY <1>5 DEF PatientInv, PhaseInv, PhaseInv, Listens, EndLabel
<1>9. FileFits'
  BY <1>5, FileKept DEF PatientInv, PhaseInv, PhaseInv
<1> QED
  BY <1>7, <1>8, <1>9 DEF PatientInv, PhaseInv, PhaseInv

\* reverse() in reverse.cpp
LEMMA ReverseAudioPhase ==
  ASSUME WaveTechInv, SessionInv, PatientInv, NEW p \in Program, ReverseAudio(p)
  PROVE  PhaseInv'
<1>0. {"gui", "dsp", "rev"} \subseteq Program
  BY DEF Program
<1>1. /\ p = "rev" /\ pc["rev"] = "r_reverse" /\ Goto("rev", "r_done")
      /\ UNCHANGED <<file, loaded, net>>
  BY WhoseLabel DEF ReverseAudio
<1>2. pc'["rev"] = "r_done" /\ pc'["gui"] = pc["gui"] /\ pc'["dsp"] = pc["dsp"]
  BY <1>0, <1>1, Went
<1>3. ~Waits /\ ~Rests /\ ~Leaves /\ pc["rev"] \notin {"r_bind", "r_accept"}
  BY <1>1 DEF Waits, Rests, Leaves
<1>4. Engaged => Engaged'
  BY <1>1, <1>2 DEF Engaged, Linked, ReverseWork
<1>5. Live => Live'
  BY <1>1 DEF Live
<1>6. Reversing' \/ Exiting'
  <2>1. CASE Reversing
    BY <1>2, <1>3, <1>4, <1>5, <2>1 DEF Reversing
  <2>2. CASE Exiting
    BY <1>1, <1>2, <1>3, <1>4, <2>2 DEF Exiting
  <2> QED
    BY <1>3, <2>1, <2>2 DEF PatientInv, PhaseInv, PhaseInv, SessionPhase, Starting, Greeting, Asking, Resting
<1>7. Listens'
  BY <1>1, <1>2 DEF PatientInv, PhaseInv, PhaseInv, Listens, EndLabel
<1>8. FileFits'
  BY <1>1, <1>2, FileKept DEF PatientInv, PhaseInv, PhaseInv
<1> QED
  BY <1>6, <1>7, <1>8 DEF PatientInv, PhaseInv, PhaseInv, SessionPhase

\* The assertion of AudioFile::setAudioBuffer holds.
LEMMA SetAudioBufferPhase ==
  ASSUME WaveTechInv, SessionInv, DataInv, PatientInv, NEW p \in Program,
         SetAudioBuffer(p)
  PROVE  PhaseInv'
<1>0. {"gui", "dsp", "rev"} \subseteq Program
  BY DEF Program
<1>1. p = "gui" /\ pc["gui"] = "g_set"
  BY WhoseLabel DEF SetAudioBuffer
<1>2. audio["gui"] = Back
  BY <1>1 DEF DataInv, GuiGets
<1>3. loaded /\ Len(Back[1]) = Len(Back[2]) /\ Back[1] # <<>>
  <2>1. FileFits /\ pc["gui"] \in BusyLabel
    BY <1>1 DEF PatientInv, PhaseInv, BusyLabel
  <2>2. /\ loaded /\ Len(file[1]) = Len(file[2])
        /\ \A c \in 1 .. 2 : Len(Back[c]) = Len(file[c]) /\ Back[c] # <<>>
    BY <2>1, BusyFile
  <2>3. Len(Back[1]) = Len(file[1]) /\ Len(Back[2]) = Len(file[2]) /\ Back[1] # <<>>
    BY <2>2
  <2> QED
    BY <2>2, <2>3
<1>4. ~EndWith("gui", "crashed") /\ file' = Back /\ Goto("gui", "menu")
      /\ UNCHANGED <<loaded, net>>
  <2>1. /\ file' = audio["gui"] /\ Goto("gui", "menu")
        /\ UNCHANGED <<loaded, net>>
    BY <1>1, <1>2, <1>3 DEF SetAudioBuffer
  <2>2. pc'["gui"] = "menu"
    BY <1>0, <2>1, Went
  <2>3. EndWith("gui", "crashed") => pc'["gui"] = "crashed"
    BY <1>0, Went DEF EndWith
  <2> QED
    BY <1>2, <2>1, <2>2, <2>3
<1>5. pc'["gui"] = "menu" /\ pc'["dsp"] = pc["dsp"] /\ pc'["rev"] = pc["rev"]
  BY <1>0, <1>4, Went
<1>6. Resting
  BY <1>1 DEF PatientInv, PhaseInv, SessionPhase, Starting, Greeting, Asking, Reversing, Exiting
<1>7. Resting'
  BY <1>4, <1>5, <1>6 DEF Resting, Rests, Live
<1>8. Listens'
  BY <1>4, <1>5 DEF PatientInv, PhaseInv, Listens
<1>9. FileFits'
  BY <1>3, <1>4, <1>5 DEF FileFits, BusyLabel
<1> QED
  BY <1>7, <1>8, <1>9 DEF PatientInv, PhaseInv, SessionPhase

\* The gui is started, when both services listen.
LEMMA StartPhase ==
  ASSUME Patient, WaveTechInv, SessionInv, PatientInv, StartGui
  PROVE  PhaseInv'
<1>0. /\ net \in NetOf(Byte) /\ Wired(net) /\ {"gui", "dsp", "rev"} \subseteq Program
      /\ "pend8800" \in Sock \ {"gui", "pend5500"} /\ "gui" \in Sock
      /\ Pending(5500) = "pend5500" /\ 5500 \in Port /\ 8800 \in Port
  BY SessionTypes DEF Program, SessionInv, Sock, Pending, Port
<1>1. Starting
  BY DEF StartGui, PatientInv, PhaseInv, SessionPhase, Greeting, Asking, Reversing, Resting, Exiting
<1>2. net.listening[5500] /\ net.listening[8800]
  BY <1>0 DEF StartGui, Patient
<1>3. pc["dsp"] = "d_accept" /\ pc["rev"] = "r_accept"
  BY <1>1, <1>2 DEF PatientInv, PhaseInv, Listens, Starting
<1>4. /\ net' = Connect(net, "gui", 5500) /\ Goto("gui", "menu")
      /\ UNCHANGED <<file, loaded>>
  BY <1>2 DEF StartGui
<1>5. pc'["gui"] = "menu" /\ pc'["dsp"] = pc["dsp"] /\ pc'["rev"] = pc["rev"]
  BY <1>0, <1>4, Went
<1>6. net.inbuf["gui"] = <<>> /\ net.status["pend8800"] = "closed"
  BY <1>0, <1>1 DEF Starting, Wired
<1>7. /\ net'.listening = net.listening
      /\ net'.peer["gui"] = "pend5500" /\ net'.inbuf["pend5500"] = <<>>
      /\ net'.status["pend8800"] = "closed"
  BY <1>0, <1>4, <1>6, ConnectBeside
<1>8. Greeting'
  BY <1>3, <1>5, <1>7 DEF Greeting, Waits
<1>9. Listens'
  BY <1>5, <1>7 DEF PatientInv, PhaseInv, Listens
<1>10. FileFits'
  BY <1>4, <1>5, FileKept DEF PatientInv, PhaseInv, BusyLabel
<1> QED
  BY <1>8, <1>9, <1>10 DEF PatientInv, PhaseInv, SessionPhase

\* When nothing is under way the session rests.
LEMMA AtRestPhase ==
  ASSUME PatientInv, AtRest
  PROVE  Live /\ Waits /\ Resting
<1>1. net.inbuf["dsp5500"] = <<>>
  BY DEF AtRest, Sock
<1>2. TextBytes("stretch") # <<>> /\ TextBytes("shift") # <<>>
  BY TextShape DEF Message
<1>3. Resting
  BY <1>1, <1>2 DEF AtRest, PatientInv, PhaseInv, SessionPhase, Starting, Greeting, Asking,
                    Reversing, Exiting
<1> QED
  BY <1>3 DEF AtRest, Resting, Rests, Waits

\* The user chooses.
LEMMA UserPhase ==
  ASSUME Patient, WaveTechInv, PatientInv, User
  PROVE  PhaseInv'
<1>0. {"gui", "dsp", "rev"} \subseteq Program
  BY DEF Program
<1>1. pc["gui"] = "menu" /\ AtRest /\ net' = net
  BY DEF User, Patient
<1>2. Live /\ Waits /\ Resting
  BY <1>1, AtRestPhase
<1>3. CASE Load
  <2>1. pc' = pc /\ file' \in Buffers /\ loaded' = TRUE
    BY <1>3 DEF Load
  <2>2. Resting'
    BY <1>1, <1>2, <2>1 DEF Resting, Rests, Live
  <2>3. Listens'
    BY <1>1, <2>1 DEF PatientInv, PhaseInv, Listens
  <2>4. FileFits'
    BY <2>1 DEF FileFits, Patient
  <2> QED
    BY <2>2, <2>3, <2>4 DEF PatientInv, PhaseInv, SessionPhase
<1>4. ASSUME NEW cmd \in Command \ {"load"}, Choose(cmd)
      PROVE  PhaseInv'
  <2> DEFINE l == CASE cmd = "reverse" -> "g_reverse"
                    [] cmd = "stretch" -> "g_stretch"
                    [] cmd = "shift"   -> "g_shift"
                    [] cmd = "exit"    -> "g_exit"
  <2>1. cmd \in {"reverse", "stretch", "shift", "exit"}
    BY <1>4 DEF Command
  <2>2. /\ l \in {"g_stretch", "g_shift", "g_reverse", "g_exit"}
        /\ l = "g_reverse" => cmd = "reverse"
    BY <2>1
  <2>3. Goto("gui", l) /\ UNCHANGED <<file, loaded>> /\ (cmd = "reverse" => loaded)
    BY <1>4, Zenon DEF Choose
  <2> HIDE DEF l
  <2>4. pc'["gui"] = l /\ pc'["dsp"] = pc["dsp"] /\ pc'["rev"] = pc["rev"]
    BY <1>0, <2>3, Went
  <2>5. Asking'
    BY <1>1, <1>2, <2>2, <2>4 DEF Asking, Resting, Live, Waits
  <2>6. Listens'
    BY <1>1, <2>4 DEF PatientInv, PhaseInv, Listens
  <2>7. FileFits'
    BY <2>2, <2>3, <2>4 DEF PatientInv, PhaseInv, FileFits, BusyLabel
  <2> QED
    BY <2>5, <2>6, <2>7 DEF PatientInv, PhaseInv, SessionPhase
<1> QED
  BY <1>3, <1>4 DEF User

\* The service is killed while nothing is under way,
LEMMA DiePhase ==
  ASSUME Patient, WaveTechInv, SessionInv, PatientInv, NEW p \in Program, Die(p)
  PROVE  PhaseInv'
<1>1. p = "rev" /\ AtRest /\ EndWith("rev", "killed")
  BY DEF Die, Patient
<1>2. Live /\ Waits /\ Resting
  BY <1>1, AtRestPhase
<1>3. net.inbuf["rev8800"] = <<>> /\ net.status["pend8800"] = "closed"
  BY <1>1, <1>2 DEF AtRest, Waits, Sock
<1>4. /\ pc'["rev"] = "killed" /\ pc'["gui"] = pc["gui"] /\ pc'["dsp"] = pc["dsp"]
      /\ UNCHANGED <<stage, buffer_idx, audio, file, loaded>>
      /\ ~net'.listening[8800] /\ net'.listening[5500] = net.listening[5500]
      /\ net'.inbuf["dsp5500"] = net.inbuf["dsp5500"]
      /\ net'.status["pend8800"] = "closed"
      /\ Live => Live'
  BY <1>1, <1>3, ReverseGoes
<1>5. Resting'
  BY <1>2, <1>4 DEF Resting, Rests
<1>6. Listens'
  BY <1>4 DEF PatientInv, PhaseInv, Listens, EndLabel
<1>7. FileFits'
  BY <1>4, FileKept DEF PatientInv, PhaseInv
<1> QED
  BY <1>5, <1>6, <1>7 DEF PatientInv, PhaseInv, SessionPhase

\* Nobody has crashed, and only the service has been killed.
LEMMA NobodyEnded ==
  ASSUME PatientInv
  PROVE  /\ pc["gui"] \notin {"crashed", "killed"}
         /\ pc["dsp"] \notin {"crashed", "killed"}
         /\ pc["rev"] # "crashed"
         /\ pc["rev"] = "killed" => Rests /\ ~Starting
<1>1. /\ Waits => pc["rev"] = "r_accept"
      /\ Rests => pc["rev"] # "crashed"
      /\ Engaged => pc["rev"] \notin {"crashed", "killed"}
      /\ Leaves => pc["rev"] \notin {"crashed", "killed"}
  BY DEF Waits, Rests, Engaged, Leaves, ReverseWork
<1>2. CASE Starting
  BY <1>2 DEF Starting
<1>3. CASE Greeting \/ Asking
  BY <1>1, <1>3 DEF Greeting, Asking, Starting
<1>4. CASE Reversing \/ Resting
  BY <1>1, <1>4 DEF Reversing, Resting, Starting
<1>5. CASE Exiting
  BY <1>1, <1>5 DEF Exiting
<1> QED
  BY <1>2, <1>3, <1>4, <1>5 DEF PatientInv, PhaseInv, SessionPhase

\* and is started again.
LEMMA RestartPhase ==
  ASSUME WaveTechInv, PatientInv, NEW p \in Program, Restart(p)
  PROVE  PhaseInv'
<1>0. {"gui", "dsp", "rev"} \subseteq Program
  BY DEF Program
<1>1. p = "rev" /\ pc["rev"] = "killed"
  BY NobodyEnded DEF Restart, Program
<1>2. /\ Goto("rev", "r_bind") /\ Advance("rev", "left") /\ UNCHANGED <<file, loaded, net>>
      /\ audio' = [audio EXCEPT !["rev"] = Empty]
  BY <1>1 DEF Restart, Entry
<1>3. pc'["rev"] = "r_bind" /\ pc'["gui"] = pc["gui"] /\ pc'["dsp"] = pc["dsp"]
  BY <1>0, <1>2, Went
<1>4. stage'["dsp"] = stage["dsp"] /\ buffer_idx'["dsp"] = buffer_idx["dsp"]
      /\ audio'["dsp"] = audio["dsp"]
  BY <1>2, DataTypes, SessionTypes DEF Advance, WaveTechInv, SharedInv
<1>5. Rests /\ ~Starting
  BY <1>1, NobodyEnded
<1>6. Rests'
  BY <1>2, <1>3, <1>5 DEF Rests
<1>7. Live => Live'
  BY <1>2 DEF Live
<1>8. AllSent => AllSent'
  <2>1. Back' = Back
    BY <1>2, SameFile
  <2> QED
    BY <1>2, <1>4, <2>1 DEF AllSent
<1>9. SessionPhase'
  BY <1>1, <1>2, <1>3, <1>5, <1>6, <1>7, <1>8, RestsOn
<1>10. Listens'
  BY <1>1, <1>2, <1>3 DEF PatientInv, PhaseInv, Listens, EndLabel
<1>11. FileFits'
  BY <1>2, <1>3, FileKept DEF PatientInv, PhaseInv
<1> QED
  BY <1>9, <1>10, <1>11 DEF PatientInv, PhaseInv

-----------------------------------------------------------------------------
LEMMA PatientInit ==
  ASSUME Init
  PROVE  PatientInv
<1>1. /\ pc["gui"] = "g_connect" /\ pc["dsp"] = "d_bind" /\ pc["rev"] = "r_bind"
  BY DEF Init, Entry
<1>2. /\ \A s \in Sock : net.status[s] = "closed"
      /\ ~net.listening[5500] /\ ~net.listening[8800]
  BY DEF Init, NoNet, Port
<1>3. Starting
  BY <1>1, <1>2 DEF Starting
<1>4. Listens /\ FileFits
  BY <1>1, <1>2 DEF Listens, FileFits, Init, BusyLabel
<1>5. ShortEnd
  BY <1>1 DEF ShortEnd, Passed, DspWork
<1> QED
  BY <1>3, <1>4, <1>5 DEF PatientInv, PhaseInv, SessionPhase

LEMMA PhaseNext ==
  ASSUME Patient, WaveTechInv, SessionInv, DataInv, PatientInv, SessionInv', [Next]_vars
  PROVE  PhaseInv'
<1>0. WholeReads
  BY DEF Patient
<1>1. CASE UNCHANGED vars
  BY <1>1 DEF vars, PatientInv, PhaseInv, SessionPhase, Listens, FileFits, Starting, Greeting,
              Asking, Reversing, Resting, Exiting, Waits, Rests, Engaged, Leaves,
              AllSent, Live, Linked, Back
<1>2. CASE StartGui \/ User
  BY <1>2, StartPhase, UserPhase
<1>3. ASSUME NEW p \in Program, Die(p) \/ Restart(p)
      PROVE  PhaseInv'
  BY <1>3, DiePhase, RestartPhase
<1>4. ASSUME NEW p \in Program, Step(p)
      PROVE  PhaseInv'
  <2>1. CASE PipeCall(p)
    <3>1. Listens' /\ FileFits'
      BY <2>1, CallKeeps
    <3>2. SessionPhase'
      BY <1>0, <2>1, GuiCallPhase, DspCallPhase, ReverseCallPhase DEF Program
    <3> QED
      BY <3>1, <3>2 DEF PhaseInv
  <2>2. CASE Bind(p) \/ ConnectReverse(p) \/ DropPipe(p) \/ ReverseAudio(p)
    BY <2>2, BindPhase, ConnectPhase, DropPipePhase, ReverseAudioPhase
  <2>3. CASE SetAudioBuffer(p) \/ Quit(p)
    BY <2>3, SetAudioBufferPhase, QuitPhase
  <2>4. CASE AcceptClient(p)
    <3>1. p # "gui"
      BY <2>4, WhoseLabel DEF AcceptClient
    <3> QED
      BY <2>4, <3>1, DspAcceptPhase, ReverseAcceptPhase DEF Program
  <2>5. CASE Disconnect(p)
    <3>1. p # "gui"
      BY <2>5, WhoseLabel DEF Disconnect
    <3> QED
      BY <2>5, <3>1, DspEndsPhase, ReverseDisconnectPhase DEF Program
  <2> QED
    BY <1>4, <2>1, <2>2, <2>3, <2>4, <2>5 DEF Step, PipeCall
<1> QED
  BY <1>1, <1>2, <1>3, <1>4 DEF Next

\* A step moves one program at most.
LEMMA StepMoves ==
  ASSUME NEW q \in Program, Step(q)
  PROVE  (\E l : Goto(q, l)) \/ UNCHANGED pc
<1>1. CASE SendMessage(q) \/ RecvMessage(q)
  BY <1>1 DEF SendMessage, RecvMessage, EndWith
<1>2. CASE SendChunk(q) \/ SendAborts(q) \/ RecvConfirmation(q)
  BY <1>2 DEF SendChunk, SendAborts, RecvConfirmation, EndWith
<1>3. CASE RecvChunk(q) \/ SendConfirmation(q)
  BY <1>3 DEF RecvChunk, SendConfirmation, EndWith
<1>4. CASE Bind(q) \/ AcceptClient(q) \/ ConnectReverse(q)
  BY <1>4 DEF Bind, AcceptClient, ConnectReverse, EndWith
<1>5. CASE Disconnect(q) \/ DropPipe(q) \/ ReverseAudio(q)
  BY <1>5 DEF Disconnect, DropPipe, ReverseAudio, EndWith
<1>6. CASE SetAudioBuffer(q) \/ Quit(q)
  BY <1>6 DEF SetAudioBuffer, Quit, EndWith
<1> QED
  BY <1>1, <1>2, <1>3, <1>4, <1>5, <1>6 DEF Step

\* While the gui waits for the reversal its file stays.
LEMMA FileWaits ==
  ASSUME WaveTechInv, pc["gui"] \in {"g_ready", "g_tx", "g_rx"}, [Next]_vars
  PROVE  file' = file
<1>1. CASE UNCHANGED vars
  BY <1>1 DEF vars
<1>2. ~StartGui /\ ~User
  BY DEF StartGui, User
<1>3. ASSUME NEW q \in Program, Die(q) \/ Restart(q)
      PROVE  file' = file
  <2>1. CASE Die(q)
    BY <2>1 DEF Die, EndWith
  <2>2. CASE Restart(q)
    <3>1. q # "gui"
      BY <2>2 DEF Restart
    <3> QED
      BY <2>2, <3>1 DEF Restart
  <2> QED
    BY <1>3, <2>1, <2>2
<1>4. ASSUME NEW q \in Program, Step(q)
      PROVE  file' = file
  <2>1. ~SetAudioBuffer(q)
    BY WhoseLabel DEF SetAudioBuffer
  <2>2. CASE SendMessage(q) \/ RecvMessage(q)
    BY <2>2 DEF SendMessage, RecvMessage, EndWith
  <2>3. CASE SendChunk(q) \/ SendAborts(q) \/ RecvConfirmation(q)
    BY <2>3 DEF SendChunk, SendAborts, RecvConfirmation, EndWith
  <2>4. CASE RecvChunk(q) \/ SendConfirmation(q)
    BY <2>4 DEF RecvChunk, SendConfirmation, EndWith
  <2>5. CASE Bind(q) \/ AcceptClient(q) \/ ConnectReverse(q)
    BY <2>5 DEF Bind, AcceptClient, ConnectReverse, EndWith
  <2>6. CASE Disconnect(q) \/ DropPipe(q) \/ ReverseAudio(q) \/ Quit(q)
    BY <2>6 DEF Disconnect, DropPipe, ReverseAudio, Quit, EndWith
  <2> QED
    BY <1>4, <2>1, <2>2, <2>3, <2>4, <2>5, <2>6 DEF Step
<1> QED
  BY <1>1, <1>2, <1>3, <1>4 DEF Next

\* The dsp goes on to the reverse service when the last read of the file was a
\* short one.
LEMMA ReadToTheEnd ==
  ASSUME WholeReads, WaveTechInv, SessionInv, DataInv, PatientInv,
         pc["dsp"] = "d_rxgui", RecvChunk("dsp"), pc'["dsp"] = "d_connect"
  PROVE  ~Multiple(Len(Back[2])) /\ file' = file
<1> DEFINE ds == stage["dsp"]
           idx == buffer_idx["dsp"]
           in == net.inbuf["dsp5500"]
           con == audio["dsp"]
           con2 == audio'["dsp"]
           rest == net'.inbuf["dsp5500"]
<1>1. Site("dsp").sock = "dsp5500" /\ Site("dsp").next = "d_connect" /\ "dsp" \in Program
  BY DspSites DEF Site, RecvAudio, Program
<1>2. ~EndWith("dsp", "crashed")
  BY <1>1, Went DEF EndWith
<1>3. /\ ds \in {"left", "right"} /\ Received("dsp5500")
      /\ \E n, f :
           /\ ReadOf(ds, con, idx, in, n, f, con2, rest)
           /\ IF Len(f) = CHUNK_SIZE
              THEN Turn("dsp", "d_rxgui", ds, idx + CHUNK_SIZE)
              ELSE IF ds = "left" THEN Turn("dsp", "d_rxgui", "confirm", 0)
              ELSE Turn("dsp", "d_connect", "left", 0)
  BY <1>1, <1>2, ChunkRead
<1>4. PICK n, f :
        /\ ReadOf(ds, con, idx, in, n, f, con2, rest)
        /\ IF Len(f) = CHUNK_SIZE
           THEN Turn("dsp", "d_rxgui", ds, idx + CHUNK_SIZE)
           ELSE IF ds = "left" THEN Turn("dsp", "d_rxgui", "confirm", 0)
           ELSE Turn("dsp", "d_connect", "left", 0)
  BY <1>3
<1>5. file' = file /\ Len(f) # CHUNK_SIZE /\ ds = "right" /\ in # <<>>
  BY <1>3, <1>4, OthersStill, ReceivedBy
<1>6. Live /\ Gets(ds, con, idx, in, Want)
  <2>1. Live
    BY WhoIsThere
  <2> QED
    BY <2>1 DEF DataInv, DspGets, Got
<1>7. /\ Want \in Channels /\ con \in Channels /\ idx \in Nat /\ in \in Seq(Byte)
  BY DataTypes DEF Program, Sock
<1> HIDE DEF idx, in, con, con2, rest
<1>8. ~Multiple(Len(Want[ChannelIn(ds)]))
  BY <1>4, <1>5, <1>6, <1>7, StreamRead
<1>9. Len(Back[2]) = Len(Want[2])
  <2>1. Want[2] \in Seq(Float) /\ Back[2] = Reverse(Want[2])
    <3>1. Want[2] \in Seq(Float)
      BY <1>7 DEF Channels
    <3>2. 2 \in 1 .. 2 /\ \A c \in 1 .. 2 : Back[c] = Reverse(Want[c])
      BY DataTypes
    <3> QED
      BY <3>1, <3>2
  <2> QED
    BY <2>1, ReverseLength
<1> QED
  BY <1>5, <1>8, <1>9 DEF ChannelIn

LEMMA ShortEndNext ==
  ASSUME Patient, WaveTechInv, SessionInv, DataInv, PatientInv, [Next]_vars
  PROVE  ShortEnd'
<1> SUFFICES ASSUME pc'["dsp"] \in Passed
             PROVE  ~Multiple(Len(Back'[2]))
  BY DEF ShortEnd
<1>0. WholeReads /\ {"gui", "dsp", "rev"} \subseteq Program
  BY DEF Patient, Program
<1>1. CASE pc["dsp"] \in Passed
  <2>1. pc["gui"] \in {"g_ready", "g_tx", "g_rx"}
    BY <1>1 DEF PatientInv, PhaseInv, SessionPhase, Starting, Greeting, Asking, Reversing,
                Resting, Exiting, Passed, DspWork
  <2>2. Back' = Back
    BY <2>1, FileWaits, SameFile
  <2> QED
    BY <1>1, <2>2 DEF PatientInv, ShortEnd
<1>2. CASE pc["dsp"] \notin Passed
  <2>1. pc'["dsp"] # pc["dsp"] /\ pc'["dsp"] \notin {"d_bind", "killed"}
    BY <1>2 DEF Passed, DspWork
  <2>2. ASSUME NEW q \in Program, NEW l, Goto(q, l)
        PROVE  q = "dsp" /\ pc'["dsp"] = l
    BY <1>0, <2>1, <2>2, Went
  <2>3. ~UNCHANGED vars /\ ~StartGui /\ ~User
    <3>1. ~UNCHANGED pc
      BY <2>1
    <3>2. ~StartGui
      BY <1>0, <2>2 DEF StartGui, EndWith
    <3>3. ~User
      BY <1>0, <2>2, <3>1 DEF User, Load, Choose
    <3> QED
      BY <3>1, <3>2, <3>3 DEF vars
  <2>4. ASSUME NEW q \in Program PROVE ~Die(q) /\ ~Restart(q)
    BY <2>1, <2>2 DEF Die, Restart, EndWith, Entry
  <2>5. Step("dsp")
    <3>1. PICK q \in Program : Step(q)
      BY <2>3, <2>4 DEF Next
    <3>2. \E l : Goto(q, l)
      BY <2>1, <3>1, StepMoves
    <3> QED
      BY <2>2, <3>1, <3>2
  <2>6. PipeCall("dsp")
    <3>1. ~Bind("dsp") /\ ~AcceptClient("dsp") /\ ~ConnectReverse("dsp")
      <4>1. CASE Bind("dsp")
        BY <1>0, <2>2, <4>1 DEF Bind, EndWith, Passed, DspWork
      <4>2. CASE AcceptClient("dsp")
        BY <1>0, <2>2, <4>2 DEF AcceptClient, Passed, DspWork
      <4>3. CASE ConnectReverse("dsp")
        BY <1>0, <1>2, <2>2, <4>3 DEF ConnectReverse, EndWith, Passed, DspWork
      <4> QED
        BY <4>1, <4>2, <4>3
    <3>2. ~Disconnect("dsp") /\ ~DropPipe("dsp") /\ ~ReverseAudio("dsp")
      BY <1>0, <2>2, WhoseLabel DEF Disconnect, DropPipe, ReverseAudio, EndWith, Passed,
                                    DspWork
    <3>3. ~SetAudioBuffer("dsp") /\ ~Quit("dsp")
      BY <1>0, WhoseLabel DEF SetAudioBuffer, Quit
    <3> QED
      BY <2>5, <3>1, <3>2, <3>3 DEF Step, PipeCall
  <2>7. ~EndWith("dsp", "crashed") /\ ~SendAborts("dsp")
    BY <1>0, <2>6, CallGoesOn
  <2>8. CASE pc["dsp"] = "d_rxgui"
    <3>1. /\ Site("dsp").next = "d_connect"
          /\ RecvChunk("dsp") \/ SendConfirmation("dsp")
      BY <1>0, <2>6, <2>7, <2>8, DspSites, WhichCall
           DEF Site, RecvAudio, RecvAudioLabel
    <3>2. ~SendConfirmation("dsp")
      BY <1>0, <2>1, <2>7, ConfirmationSent, OthersStill
    <3>3. pc'["dsp"] = "d_connect"
      BY <1>0, <2>1, <2>7, <3>1, <3>2, ChunkRead, OthersStill
    <3>4. ~Multiple(Len(Back[2])) /\ file' = file
      BY <1>0, <2>8, <3>1, <3>2, <3>3, ReadToTheEnd
    <3> QED
      BY <3>4, SameFile
  <2>9. CASE pc["dsp"] # "d_rxgui"
    <3>1. pc["dsp"] \in {"d_loop", "d_ready", "d_stop"}
      <4>1. \/ In("dsp", "send_message") \/ In("dsp", "recv_message")
            \/ In("dsp", "send_audio") \/ In("dsp", "recv_audio")
        BY <2>6 DEF PipeCall, SendMessage, RecvMessage, SendChunk, SendAborts,
                    RecvConfirmation, RecvChunk, SendConfirmation
      <4> QED
        BY <1>0, <1>2, <2>9, <4>1, SendTable, RecvTable, SendAudioTable, RecvAudioTable
           DEF Passed, DspWork
    <3>2. CASE pc["dsp"] = "d_loop"
      <4>1. RecvMessage("dsp")
        BY <1>0, <2>6, <3>2, WhichCall
      <4>2. PICK t : Goto("dsp", AfterText("d_loop", t))
        BY <2>7, <3>2, <4>1 DEF RecvMessage
      <4>3. AfterText("d_loop", t) \notin Passed
        BY AfterTexts DEF DspCommand, Passed, DspWork
      <4> QED
        BY <1>0, <2>2, <4>2, <4>3
    <3>3. CASE pc["dsp"] \in {"d_ready", "d_stop"}
      <4>1. SendMessage("dsp")
        BY <1>0, <2>6, <3>3, WhichCall
      <4>2. Goto("dsp", Site("dsp").next)
        BY <2>7, <4>1 DEF SendMessage
      <4>3. Site("dsp").next \in {"d_rxgui", "d_disc"}
        BY <3>3, DspSites DEF Site, Send
      <4> QED
        BY <1>0, <2>2, <4>2, <4>3 DEF Passed, DspWork
    <3> QED
      BY <3>1, <3>2, <3>3
  <2> QED
    BY <2>8, <2>9
<1> QED
  BY <1>1, <1>2

LEMMA PatientInductive ==
  ASSUME Patient, WaveTechInv, SessionInv, DataInv, PatientInv, [Next]_vars
  PROVE  (WaveTechInv /\ SessionInv /\ DataInv /\ PatientInv)'
<1>0. WholeReads
  BY DEF Patient
<1>1. WaveTechInv'
  BY WaveTechNext
<1>2. SessionInv'
  BY <1>0, SessionNext
<1>3. DataInv'
  BY <1>0, <1>2, DataNext
<1>4. PhaseInv' /\ ShortEnd'
  BY <1>2, PhaseNext, ShortEndNext
<1> QED
  BY <1>1, <1>2, <1>3, <1>4 DEF PatientInv

(***************************************************************************)
(* With a user who waits for the services no call of any program throws,   *)
(* however often the reverse service is killed and started again in        *)
(* between: NobodyCrashes, for every CHUNK_SIZE, every set of files whose  *)
(* channels are equally long and not empty, and any number of commands.    *)
(***************************************************************************)
THEOREM PatientUserNeverCrashes == ASSUME Patient PROVE Spec => []NobodyCrashes
<1>1. Init => WaveTechInv /\ SessionInv /\ DataInv /\ PatientInv
  BY WaveTechInit, SessionInit, DataInit, PatientInit
<1>2. WaveTechInv /\ SessionInv /\ DataInv /\ PatientInv /\ [Next]_vars =>
        (WaveTechInv /\ SessionInv /\ DataInv /\ PatientInv)'
  BY PatientInductive
<1>3. PatientInv => NobodyCrashes
  BY NobodyEnded DEF NobodyCrashes, Program
<1> QED
  BY <1>1, <1>2, <1>3, PTL DEF Spec

-----------------------------------------------------------------------------
(***************************************************************************)
(* Messages do not pile up                                                 *)
(*                                                                         *)
(* recv_message takes whatever the stream holds.  It holds one message at  *)
(* most, as the user sends the next command only when the last one has     *)
(* been read, and every other message is an answer.                        *)
(***************************************************************************)
OneWaits ==
  \A p \in Program :
    In(p, "recv_message") =>
      LET b == net.inbuf[Site(p).sock]
      IN  b = <<>> \/ \E m \in Message : b = TextBytes(m)

LEMMA CommandAlone ==
  ASSUME PatientInv, pc["dsp"] = "d_loop"
  PROVE  \/ net.inbuf["dsp5500"] = <<>>
         \/ \E m \in Message : net.inbuf["dsp5500"] = TextBytes(m)
<1>1. {"stretch", "shift", "reverse", "exit"} \subseteq Message
  BY DEF Message
<1>2. \/ net.inbuf["dsp5500"] = <<>>
      \/ \E m \in {"stretch", "shift", "reverse", "exit"} :
           net.inbuf["dsp5500"] = TextBytes(m)
  <2>1. CASE Starting \/ Greeting \/ Reversing
    BY <2>1 DEF Starting, Greeting, Reversing
  <2>2. CASE Asking
    BY <2>2 DEF Asking
  <2>3. CASE Resting
    BY <2>3 DEF Resting
  <2>4. CASE Exiting
    BY <2>4 DEF Exiting
  <2> QED
    BY <2>1, <2>2, <2>3, <2>4 DEF PatientInv, PhaseInv, SessionPhase
<1> QED
  BY <1>1, <1>2

LEMMA OneMessageWaits ==
  ASSUME WaveTechInv, SessionInv, PatientInv
  PROVE  OneWaits
<1> SUFFICES ASSUME NEW p \in Program, In(p, "recv_message")
             PROVE  \/ net.inbuf[Site(p).sock] = <<>>
                    \/ \E m \in Message : net.inbuf[Site(p).sock] = TextBytes(m)
  BY DEF OneWaits
<1>1. {"ready", "done", "run", "exit"} \subseteq Message
  BY DEF Message
<1>2. CASE pc[p] = "g_ready" /\ p = "gui" /\ Site(p).sock = "gui"
  BY <1>1, <1>2, Phases DEF GuiFinds
<1>3. CASE pc[p] = "d_loop" /\ p = "dsp" /\ Site(p).sock = "dsp5500"
  BY <1>3, CommandAlone
<1>4. CASE pc[p] \in {"d_started", "d_done"} /\ p = "dsp" /\ Site(p).sock = "dsp8800"
  BY <1>1, <1>4, Phases DEF ClientFinds
<1>5. CASE pc[p] \in {"r_recv", "r_fetch"} /\ p = "rev" /\ Site(p).sock = "rev8800"
  BY <1>1, <1>5, Phases DEF ReverseFinds, Order
<1> QED
  BY <1>2, <1>3, <1>4, <1>5, RecvTable

\* A read takes the whole message.
LEMMA WholeMessageRead ==
  ASSUME WholeReads, WaveTechInv, SessionInv, OneWaits,
         NEW p \in Program, RecvMessage(p), pc'[p] # "crashed"
  PROVE  net'.inbuf[Site(p).sock] = <<>>
<1> DEFINE s == Site(p).sock
<1>1. In(p, "recv_message") /\ s \in Sock /\ RECV_CAP \in Nat \ {0}
  BY RecvTable, StreamAssumption DEF RecvMessage, Sock
<1>2. ~EndWith(p, "crashed")
  BY Went DEF EndWith
<1>3. PICK n \in ReadSizes(Len(net.inbuf[s]), RECV_CAP) : net' = Take(net, s, n)
  BY <1>2 DEF RecvMessage
<1>4. /\ net.inbuf[s] # <<>>
      /\ net'.inbuf[s] = SubSeq(net.inbuf[s], n + 1, Len(net.inbuf[s]))
  BY <1>1, <1>3, Reads
<1>5. PICK m \in Message : net.inbuf[s] = TextBytes(m)
  BY <1>1, <1>4 DEF OneWaits
<1> QED
  BY <1>3, <1>4, <1>5, ReadText

\* A program leaves a recv_message only by its own read, or by its end.
LEMMA OnlyReadLeaves ==
  ASSUME Patient, WaveTechInv, PatientInv, NEW p \in Program, In(p, "recv_message"),
         [Next]_vars
  PROVE  pc'[p] = pc[p] \/ RecvMessage(p)
<1>1. pc[p] \in {"g_ready", "d_loop", "d_started", "d_done", "r_recv", "r_fetch"}
  BY RecvTable
<1>2. CASE UNCHANGED vars
  BY <1>2 DEF vars
<1>3. CASE StartGui
  <2>1. p # "gui" /\ \E l : Goto("gui", l)
    BY <1>1, <1>3 DEF StartGui, EndWith
  <2> QED
    BY <2>1, Went DEF Program
<1>4. CASE User
  <2>1. p # "gui" /\ ((\E l : Goto("gui", l)) \/ UNCHANGED pc)
    BY <1>1, <1>4 DEF User, Load, Choose
  <2> QED
    BY <2>1, Went DEF Program
<1>5. ASSUME NEW q \in Program, Die(q)
      PROVE  pc'[p] = pc[p]
  <2>1. q = "rev" /\ AtRest /\ Goto("rev", "killed")
    BY <1>5 DEF Die, Patient, EndWith
  <2>2. p # "rev"
    BY <1>1, <2>1, AtRestPhase DEF Waits
  <2> QED
    BY <2>1, <2>2, Went DEF Program
<1>6. ASSUME NEW q \in Program, Restart(q)
      PROVE  pc'[p] = pc[p]
  <2>1. q # p /\ \E l : Goto(q, l)
    BY <1>1, <1>6 DEF Restart
  <2> QED
    BY <2>1, Went
<1>7. ASSUME NEW q \in Program, Step(q)
      PROVE  pc'[p] = pc[p] \/ RecvMessage(p)
  <2>1. CASE q = p
    <3>1. Calls[pc[p]].call = "recv_message"
      BY DEF In
    <3>2. ~SendMessage(p) /\ ~SendChunk(p) /\ ~SendAborts(p) /\ ~RecvConfirmation(p)
          /\ ~RecvChunk(p) /\ ~SendConfirmation(p)
      BY <3>1 DEF In, SendMessage, SendChunk, SendAborts, RecvConfirmation, RecvChunk,
                  SendConfirmation
    <3>3. ~Bind(p) /\ ~AcceptClient(p) /\ ~ConnectReverse(p) /\ ~Disconnect(p)
          /\ ~DropPipe(p) /\ ~ReverseAudio(p) /\ ~SetAudioBuffer(p) /\ ~Quit(p)
      BY <1>1 DEF Bind, AcceptClient, ConnectReverse, Disconnect, DropPipe,
                  ReverseAudio, SetAudioBuffer, Quit
    <3> QED
      BY <1>7, <2>1, <3>2, <3>3 DEF Step
  <2>2. CASE q # p
    <3>1. (\E l : Goto(q, l)) \/ UNCHANGED pc
      BY <1>7, StepMoves
    <3> QED
      BY <2>2, <3>1, Went
  <2> QED
    BY <2>1, <2>2
<1> QED
  BY <1>2, <1>3, <1>4, <1>5, <1>6, <1>7 DEF Next

LEMMA OneMessageStep ==
  ASSUME Patient, WaveTechInv, SessionInv, PatientInv, OneWaits, OneWaits', [Next]_vars
  PROVE  \A p \in Program :
           (In(p, "recv_message") /\ pc'[p] # "crashed") =>
             LET s == Site(p).sock
             IN  Len(net'.inbuf[s]) < Len(net.inbuf[s]) =>
                   Len(net.inbuf[s]) - Len(net'.inbuf[s]) = MSG_BYTES
<1> SUFFICES ASSUME NEW p \in Program, In(p, "recv_message"), pc'[p] # "crashed",
                    Len(net'.inbuf[Site(p).sock]) < Len(net.inbuf[Site(p).sock])
             PROVE  Len(net.inbuf[Site(p).sock]) - Len(net'.inbuf[Site(p).sock]) = MSG_BYTES
  OBVIOUS
<1> DEFINE b == net.inbuf[Site(p).sock]
           c == net'.inbuf[Site(p).sock]
<1>1. b = <<>> \/ \E m \in Message : b = TextBytes(m)
  BY DEF OneWaits
<1>2. c = <<>> \/ \E m \in Message : c = TextBytes(m)
  <2>1. CASE pc'[p] = pc[p]
    <3>1. In(p, "recv_message")' /\ Site(p)' = Site(p)
      BY <2>1 DEF In, Site
    <3>2. OneWaits' => (LET d == net'.inbuf[Site(p)'.sock]
                        IN  d = <<>> \/ \E m \in Message : d = TextBytes(m))
      BY <3>1 DEF OneWaits
    <3> QED
      BY <3>1, <3>2
  <2>2. CASE RecvMessage(p)
    BY <2>2, WholeMessageRead DEF Patient
  <2> QED
    BY <2>1, <2>2, OnlyReadLeaves
<1>3. Len(b) \in {0, MSG_BYTES} /\ Len(c) \in {0, MSG_BYTES} /\ MSG_BYTES \in Nat
  BY <1>1, <1>2, TextShape, StreamAssumption
<1>4. Len(c) < Len(b)
  OBVIOUS
<1> HIDE DEF b, c
<1>5. Len(b) - Len(c) = MSG_BYTES
  BY <1>3, <1>4
<1> QED
  BY <1>5 DEF b, c

(***************************************************************************)
(* For the same user each recv_message of the three programs returns       *)
(* exactly one message (README.md, "Sending/Receiving Strings"), although  *)
(* nothing on the stream marks where one ends: OneMessagePerRead.          *)
(***************************************************************************)
THEOREM PatientUserReadsOneMessage == ASSUME Patient PROVE Spec => OneMessagePerRead
<1>1. Init => WaveTechInv /\ SessionInv /\ DataInv /\ PatientInv
  BY WaveTechInit, SessionInit, DataInit, PatientInit
<1>2. WaveTechInv /\ SessionInv /\ DataInv /\ PatientInv /\ [Next]_vars =>
        (WaveTechInv /\ SessionInv /\ DataInv /\ PatientInv)'
  BY PatientInductive
<1>3. WaveTechInv /\ SessionInv /\ PatientInv => OneWaits
  BY OneMessageWaits
<1>4. WaveTechInv /\ SessionInv /\ PatientInv /\ OneWaits /\ OneWaits' /\ [Next]_vars =>
        [\A p \in Program :
           (In(p, "recv_message") /\ pc'[p] # "crashed") =>
             LET s == Site(p).sock
             IN  Len(net'.inbuf[s]) < Len(net.inbuf[s]) =>
                   Len(net.inbuf[s]) - Len(net'.inbuf[s]) = MSG_BYTES]_vars
  BY OneMessageStep
<1> QED
  BY <1>1, <1>2, <1>3, <1>4, PTL DEF Spec, OneMessagePerRead

==============================================================================
