---------------------------- MODULE StretchProofs ----------------------------
(***************************************************************************)
(* Proofs about Stretch, for every frame and overlap size in the           *)
(* proportion of the code's (StretchAssumption) and every length.          *)
(***************************************************************************)
EXTENDS Stretch, SequenceTheorems, TLAPS

(***************************************************************************)
(* Arithmetic                                                              *)
(***************************************************************************)

\* Multiplication by a ratio between 50 and 200 percent.
LEMMA RatioBounds ==
  ASSUME NEW a \in Nat, NEW r \in 50 .. 200
  PROVE  a * r \in Nat /\ 50 * a <= a * r /\ a * r <= 200 * a
<1>1. r \in Nat /\ 50 <= r /\ r <= 200
  OBVIOUS
<1>2. PICK s \in Nat : r = 50 + s
  <2>1. r - 50 \in Nat /\ r = 50 + (r - 50)
    BY <1>1
  <2> QED  BY <2>1
<1>3. PICK t \in Nat : 200 = r + t
  <2>1. 200 - r \in Nat /\ 200 = r + (200 - r)
    BY <1>1
  <2> QED  BY <2>1
<1>4. a * s \in Nat /\ a * t \in Nat /\ a * r \in Nat
  BY <1>1
<1>5. a * r = 50 * a + a * s
  BY <1>2
<1>6. 200 * a = a * r + a * t
  BY <1>1, <1>3
<1> QED  BY <1>4, <1>5, <1>6

\* A number below the modulus is its own remainder.
LEMMA SmallMod ==
  ASSUME NEW a \in Nat, NEW w \in Nat, a < w
  PROVE  a % w = a
OBVIOUS

\* frame_skip for a clamped number: at least an overlap, and enough for the
\* reads of a frame to stay in the two skips and overlaps the loop keeps back;
\* these fit in an unsigned int.
LEMMA SkipOfNumber ==
  ASSUME NEW r \in 50 .. 200, NEW k \in FrameSkip(r)
  PROVE  /\ k \in Nat
         /\ overlap_size <= k
         /\ frame_size - 4 * overlap_size <= k
         /\ k <= 2 * (frame_size - overlap_size)
         /\ k \in 0 .. UInt - 1
         /\ 2 * (k + overlap_size) < UInt
<1> DEFINE a == frame_size - overlap_size
           p == a * r
<1>1. a \in Nat /\ 2 * overlap_size <= a /\ a = frame_size - overlap_size
  BY StretchAssumption
<1>2. p \in Nat /\ 50 * a <= p /\ p <= 200 * a
  BY <1>1, RatioBounds
<1>3. k = p \div 100
  <2>1. r # NaN
    BY StretchAssumption
  <2> QED  BY <2>1 DEF FrameSkip
<1> HIDE DEF p, a
<1>4. p \div 100 \in Nat /\ 100 * (p \div 100) <= p /\ p < 100 * (p \div 100) + 100
  BY <1>2
<1> QED  BY <1>1, <1>2, <1>3, <1>4, StretchAssumption

\* The ratio is a number the clamp let through, and frame_skip is computed
\* from it.
NumberSkip == ratio \in 50 .. 200 /\ frame_skip \in FrameSkip(ratio)

\* So the bounds hold of frame_skip.
LEMMA SkipBounds ==
  ASSUME NumberSkip
  PROVE  /\ frame_skip \in Nat
         /\ overlap_size <= frame_skip
         /\ frame_size - 4 * overlap_size <= frame_skip
         /\ frame_skip <= 2 * (frame_size - overlap_size)
         /\ frame_skip \in 0 .. UInt - 1
         /\ 2 * (frame_skip + overlap_size) < UInt
BY SkipOfNumber DEF NumberSkip

\* The loop bound of audio that is long enough does not wrap.
LEMMA BoundIsExact ==
  ASSUME NumberSkip, num_input_samples \in 0 .. Memory, LongEnough
  PROVE  LoopBound = num_input_samples - 2 * (frame_skip + overlap_size)
<1> DEFINE k == 2 * (frame_skip + overlap_size)
           b == num_input_samples - k
<1>1. k \in Nat /\ k < UInt /\ b \in Nat /\ b < Word
  BY SkipBounds, StretchAssumption DEF LongEnough
<1>2. LoopBound = (num_input_samples - (k % UInt)) % Word
  BY DEF LoopBound
<1> HIDE DEF k
<1>3. k % UInt = k
  BY <1>1, SmallMod, StretchAssumption
<1>4. LoopBound = b % Word
  BY <1>2, <1>3
<1> HIDE DEF b
<1>5. b % Word = b
  BY <1>1, SmallMod, StretchAssumption
<1>6. LoopBound = b
  BY <1>4, <1>5
<1> QED  BY <1>6 DEF b, k

\* When the loop of sola goes on over audio that is long enough, the three
\* reads end inside the input, and the output grows no faster than the input
\* is used up.
LEMMA FrameFits ==
  ASSUME NumberSkip, num_input_samples \in 0 .. Memory, LongEnough,
         input_cursor \in Nat, output_cursor \in Nat,
         output_cursor <= input_cursor, input_cursor <= LoopBound
  PROVE  /\ TailEnd <= num_input_samples /\ HeadEnd <= num_input_samples
         /\ output_cursor + flat_duration + overlap_size <= num_input_samples
         /\ output_cursor + flat_duration + overlap_size <= HeadEnd
         /\ InMemory
<1>1. input_cursor <= num_input_samples - 2 * (frame_skip + overlap_size)
  BY BoundIsExact
<1>2. /\ flat_duration = frame_size - 2 * overlap_size
      /\ FlatEnd = input_cursor + flat_duration
      /\ TailEnd = FlatEnd + overlap_size
      /\ HeadEnd = FlatEnd + frame_skip
  BY DEF flat_duration, FlatEnd, TailEnd, HeadEnd
<1>3. /\ TailEnd <= num_input_samples /\ HeadEnd <= num_input_samples
      /\ output_cursor + flat_duration + overlap_size <= num_input_samples
      /\ output_cursor + flat_duration + overlap_size <= HeadEnd
  BY <1>1, <1>2, SkipBounds, StretchAssumption
<1>4. TailEnd \in Int /\ HeadEnd \in Int
  BY <1>2, SkipBounds, StretchAssumption
<1> QED  BY <1>2, <1>3, <1>4, StretchAssumption DEF InMemory

(***************************************************************************)
(* Buffers                                                                 *)
(***************************************************************************)

\* A sample of the input, a blend of two, or a zero (see Stretch).
Cell == Seq(Nat)
Buffer == Seq(Cell)

\* A function on 1 .. n with cells for values is a buffer of length n.
LEMMA BufferOfLength ==
  ASSUME NEW n \in Nat, NEW f \in [1 .. n -> Cell]
  PROVE  f \in Buffer /\ Len(f) = n
<1>1. f \in Buffer
  BY DEF Buffer
<1> QED  BY <1>1 DEF Buffer

\* The cells of a buffer.
LEMMA CellsOf ==
  ASSUME NEW buf \in Buffer
  PROVE  Len(buf) \in Nat /\ \A i \in 1 .. Len(buf) : buf[i] \in Cell
BY DEF Buffer

\* The resize of buffer_copy_part makes a buffer as long as it has to be, and
\* leaves one alone that is long enough.
LEMMA GrownLength ==
  ASSUME NEW buf \in Buffer, NEW n \in Int
  PROVE  /\ Grown(buf, n) \in Buffer
         /\ Len(Grown(buf, n)) = IF Len(buf) < n THEN n ELSE Len(buf)
<1> DEFINE m == IF Len(buf) < n THEN n ELSE Len(buf)
<1>1. m \in Nat
  BY CellsOf
<1>2. Grown(buf, n) = [i \in 1 .. m |-> IF i <= Len(buf) THEN buf[i] ELSE <<>>]
  BY DEF Grown
<1>3. ASSUME NEW i \in 1 .. m
      PROVE  (IF i <= Len(buf) THEN buf[i] ELSE <<>>) \in Cell
  <2>1. CASE i <= Len(buf)
    BY <2>1, <1>1, CellsOf
  <2>2. CASE ~(i <= Len(buf))
    BY <2>2 DEF Cell
  <2> QED  BY <2>1, <2>2
<1> HIDE DEF m
<1>4. Grown(buf, n) \in [1 .. m -> Cell]
  BY <1>2, <1>3
<1>5. Grown(buf, n) \in Buffer /\ Len(Grown(buf, n)) = m
  BY <1>1, <1>4, BufferOfLength
<1> QED  BY <1>5 DEF m

\* What buffer_copy_part reads is as long as it was asked for.
LEMMA PartLength ==
  ASSUME NEW buf \in Buffer, NEW k \in Nat, NEW n \in Nat
  PROVE  Part(buf, k, n) \in Buffer /\ Len(Part(buf, k, n)) = n
<1> DEFINE g == Grown(buf, k + n)
<1>1. g \in Buffer /\ Len(g) \in Nat /\ k + n <= Len(g)
  BY GrownLength, CellsOf
<1>2. Part(buf, k, n) = SubSeq(g, k + 1, k + n)
  BY DEF Part
<1> HIDE DEF g
<1>3. \A i \in k + 1 .. k + n : g[i] \in Cell
  BY <1>1, CellsOf
<1>4. SubSeq(g, k + 1, k + n) = [i \in 1 .. n |-> g[k + i]]
  BY <1>1 DEF Buffer
<1>5. ASSUME NEW i \in 1 .. n
      PROVE  g[k + i] \in Cell
  <2>1. k + i \in k + 1 .. k + n
    OBVIOUS
  <2> QED  BY <2>1, <1>3
<1>6. Part(buf, k, n) \in [1 .. n -> Cell]
  BY <1>2, <1>4, <1>5
<1> QED  BY <1>6, BufferOfLength

\* Writing a part into a buffer makes it at most long enough for the part.
LEMMA PutLength ==
  ASSUME NEW part \in Buffer, NEW buf \in Buffer, NEW k \in Nat
  PROVE  /\ Put(part, buf, k) \in Buffer
         /\ Len(Put(part, buf, k)) =
              IF Len(buf) < k + Len(part) THEN k + Len(part) ELSE Len(buf)
<1> DEFINE n == Len(part)
           h == Grown(buf, k + n)
           g == Len(h)
<1>1. /\ g \in Nat /\ n \in Nat
      /\ g = IF Len(buf) < k + n THEN k + n ELSE Len(buf)
  BY GrownLength, CellsOf
<1>2. Put(part, buf, k) =
        [i \in 1 .. g |-> IF i \in k + 1 .. k + n THEN part[i - k] ELSE h[i]]
  BY DEF Put
<1>3. \A i \in 1 .. n : part[i] \in Cell
  BY CellsOf
<1>4. \A i \in 1 .. g : h[i] \in Cell
  BY <1>1, GrownLength, CellsOf
<1> HIDE DEF g, h, n
<1>5. ASSUME NEW i \in 1 .. g
      PROVE  (IF i \in k + 1 .. k + n THEN part[i - k] ELSE h[i]) \in Cell
  <2>1. CASE i \in k + 1 .. k + n
    <3>1. i - k \in 1 .. n
      BY <2>1, <1>1
    <3> QED  BY <3>1, <2>1, <1>3
  <2>2. CASE i \notin k + 1 .. k + n
    BY <2>2, <1>4
  <2> QED  BY <2>1, <2>2
<1>6. Put(part, buf, k) \in [1 .. g -> Cell]
  BY <1>2, <1>5
<1>7. Put(part, buf, k) \in Buffer /\ Len(Put(part, buf, k)) = g
  BY <1>1, <1>6, BufferOfLength
<1> QED  BY <1>1, <1>7 DEF n

\* window_buffers makes a buffer of the common length.
LEMMA BlendLength ==
  ASSUME NEW tail \in Buffer, NEW head \in Buffer, Len(tail) = Len(head)
  PROVE  Blend(tail, head) \in Buffer /\ Len(Blend(tail, head)) = Len(tail)
<1> DEFINE n == Len(tail)
<1>1. n \in Nat /\ n = Len(head)
  BY CellsOf
<1>2. /\ \A k \in 1 .. n : tail[k] \in Cell
      /\ \A k \in 1 .. n : head[k] \in Cell
  BY <1>1, CellsOf
<1>3. Blend(tail, head) = [k \in 1 .. n |-> tail[k] \o head[k] \o <<k - 1>>]
  BY DEF Blend
<1> HIDE DEF n
<1>4. ASSUME NEW k \in 1 .. n
      PROVE  tail[k] \o head[k] \o <<k - 1>> \in Cell
  <2>1. tail[k] \in Seq(Nat) /\ head[k] \in Seq(Nat) /\ k - 1 \in Nat
    BY <1>1, <1>2 DEF Cell
  <2>2. tail[k] \o head[k] \in Seq(Nat) /\ <<k - 1>> \in Seq(Nat)
    BY <2>1
  <2> QED  BY <2>2 DEF Cell
<1>5. Blend(tail, head) \in [1 .. n -> Cell]
  BY <1>3, <1>4
<1> QED  BY <1>1, <1>5, BufferOfLength DEF n

(***************************************************************************)
(* The invariant                                                           *)
(***************************************************************************)

\* What ReadsInside needs to be inductive: the output is never ahead of the
\* input, so that it fits where the input does.
InsideInv ==
  (pc \in {"loop", "bad_alloc"} /\ LongEnough) =>
    /\ pc = "loop"
    /\ Len(input_samples) = num_input_samples
    /\ output_cursor <= input_cursor

\* The inductive invariant.
StretchInv ==
  /\ TypeOK
  /\ input_samples \in Buffer /\ output_samples \in Buffer
  /\ (pc \in {"loop", "send", "bad_alloc"} /\ ratio # NaN) => NumberSkip
  /\ InsideInv

\* In sola, audio is long enough only under a number.
LEMMA LongIsNumber ==
  ASSUME StretchInv, LongEnough, pc \in {"loop", "send", "bad_alloc"}
  PROVE  NumberSkip
BY DEF StretchInv, LongEnough

\* An iteration of sola keeps the buffers in memory; it lengthens the output
\* to its cursor at most, and the input to the end of its reads at most.
LEMMA FrameBuffers ==
  ASSUME StretchInv, Frame
  PROVE  /\ input_samples' \in Buffer /\ output_samples' \in Buffer
         /\ Len(input_samples') \in 0 .. Memory
         /\ Len(output_samples') \in 0 .. Memory
         /\ (TailEnd <= Len(input_samples) /\ HeadEnd <= Len(input_samples))
              => Len(input_samples') = Len(input_samples)
         /\ input_cursor' \in 0 .. Memory /\ output_cursor' \in 0 .. Memory
         /\ input_cursor' = HeadEnd
         /\ output_cursor' = output_cursor + flat_duration + overlap_size
<1> DEFINE flat == Part(input_samples, input_cursor, flat_duration)
           tail == Part(input_samples, FlatEnd, overlap_size)
           head == Part(input_samples, HeadEnd - overlap_size, overlap_size)
           blend == Blend(tail, head)
           part == flat \o blend
<1>1. /\ input_samples \in Buffer /\ output_samples \in Buffer
      /\ frame_skip \in Nat /\ input_cursor \in Nat /\ output_cursor \in Nat
      /\ Len(input_samples) \in 0 .. Memory
      /\ Len(output_samples) \in 0 .. Memory
  BY StretchAssumption DEF StretchInv, TypeOK
<1>2. /\ output_samples' = Put(part, output_samples, output_cursor)
      /\ input_samples' = Grown(Grown(input_samples, TailEnd), HeadEnd)
      /\ input_cursor' = HeadEnd
      /\ output_cursor' = output_cursor + flat_duration + overlap_size
      /\ TailEnd <= Memory /\ HeadEnd <= Memory
      /\ output_cursor + flat_duration + overlap_size <= Memory
  BY DEF Frame, InMemory
<1>3. /\ flat_duration \in Nat /\ overlap_size \in Nat
      /\ FlatEnd \in Nat /\ TailEnd \in Nat
      /\ HeadEnd \in Nat /\ HeadEnd - overlap_size \in Nat
  BY <1>1, StretchAssumption
     DEF flat_duration, FlatEnd, TailEnd, HeadEnd
<1>4. /\ flat \in Buffer /\ Len(flat) = flat_duration
      /\ tail \in Buffer /\ Len(tail) = overlap_size
      /\ head \in Buffer /\ Len(head) = overlap_size
  BY <1>1, <1>3, PartLength
<1> HIDE DEF flat, tail, head
<1>5. blend \in Buffer /\ Len(blend) = overlap_size
  BY <1>4, BlendLength
<1> HIDE DEF blend
<1>6. part \in Buffer /\ Len(part) = flat_duration + overlap_size
  BY <1>4, <1>5 DEF Buffer
<1> HIDE DEF part
<1>7. /\ output_samples' \in Buffer
      /\ Len(output_samples') \in 0 .. Memory
  BY <1>1, <1>2, <1>3, <1>6, PutLength, StretchAssumption
<1> DEFINE once == Grown(input_samples, TailEnd)
<1>8. /\ once \in Buffer
      /\ Len(once) = IF Len(input_samples) < TailEnd THEN TailEnd
                     ELSE Len(input_samples)
  BY <1>1, <1>3, GrownLength
<1>9. input_samples' = Grown(once, HeadEnd)
  BY <1>2
<1> HIDE DEF once
<1>10. /\ input_samples' \in Buffer
       /\ Len(input_samples') = IF Len(once) < HeadEnd THEN HeadEnd
                                ELSE Len(once)
  BY <1>3, <1>8, <1>9, GrownLength
<1>11. Len(input_samples') \in 0 .. Memory
  BY <1>1, <1>2, <1>3, <1>8, <1>10, StretchAssumption
<1>12. (TailEnd <= Len(input_samples) /\ HeadEnd <= Len(input_samples))
         => Len(input_samples') = Len(input_samples)
  BY <1>1, <1>3, <1>8, <1>10
<1>13. input_cursor' \in 0 .. Memory /\ output_cursor' \in 0 .. Memory
  BY <1>1, <1>2, <1>3
<1> QED  BY <1>2, <1>7, <1>10, <1>11, <1>12, <1>13

\* The clamp of main.
LEMMA ClampedRatio ==
  ASSUME NEW r \in Int \cup {NaN}
  PROVE  Clamped(r) \in 50 .. 200 \cup {NaN}
BY DEF Clamped

\* The invariant holds before the first request.
LEMMA StretchInit == Init => StretchInv
<1> SUFFICES ASSUME Init PROVE StretchInv
  OBVIOUS
<1>1. <<>> \in Buffer /\ Len(<<>>) = 0
  BY DEF Buffer
<1> QED  BY <1>1, StretchAssumption
  DEF Init, StretchInv, TypeOK, InsideInv

\* Every step of the service keeps it.
LEMMA StretchNext == StretchInv /\ [Next]_vars => StretchInv'
<1> SUFFICES ASSUME StretchInv, [Next]_vars PROVE StretchInv'
  OBVIOUS
<1> USE DEF StretchInv
<1>1. CASE RecvRatio
  <2>1. PICK r \in Ratio : ratio' = Clamped(r)
    BY <1>1 DEF RecvRatio
  <2>2. ratio' \in 50 .. 200 \cup {NaN}
    BY <2>1, ClampedRatio, StretchAssumption
  <2>3. TypeOK' /\ pc' = "audio"
    BY <1>1, <2>2 DEF RecvRatio, TypeOK
  <2> QED  BY <1>1, <2>3 DEF RecvRatio, InsideInv
<1>2. CASE RecvAudio
  <2> DEFINE n == num_input_samples'
  <2>1. n \in 0 .. Memory /\ n \in Nat
    BY <1>2, StretchAssumption DEF RecvAudio
  <2>2. input_samples' = [i \in 1 .. n |-> <<i>>]
    BY <1>2 DEF RecvAudio
  <2>3. input_samples' \in [1 .. n -> Cell]
    BY <2>1, <2>2 DEF Cell
  <2> HIDE DEF n
  <2>4. input_samples' \in Buffer /\ Len(input_samples') = n
    BY <2>1, <2>3, BufferOfLength
  <2>5. <<>> \in Buffer /\ Len(<<>>) = 0
    BY DEF Buffer
  <2>6. /\ output_samples' = <<>> /\ input_cursor' = 0 /\ output_cursor' = 0
        /\ pc' = "loop" /\ ratio' = ratio /\ frame_skip' \in FrameSkip(ratio)
    BY <1>2 DEF RecvAudio
  <2>7. Len(output_samples') \in 0 .. Memory
    BY <2>5, <2>6, StretchAssumption
  <2>8. ratio # NaN => NumberSkip'
    BY <2>6 DEF NumberSkip, FrameSkip, TypeOK
  <2>9. frame_skip' \in 0 .. UInt - 1
    <3>1. CASE ratio = NaN
      BY <2>6, <3>1, StretchAssumption DEF FrameSkip
    <3>2. CASE ratio # NaN
      BY <2>8, <3>2, SkipOfNumber DEF NumberSkip
    <3> QED  BY <3>1, <3>2
  <2>10. ratio # NaN =>
           overlap_size <= frame_skip' /\ 2 * (frame_skip' + overlap_size) < UInt
    BY <2>8, SkipOfNumber DEF NumberSkip
  <2>11. TypeOK'
    BY <2>1, <2>4, <2>6, <2>7, <2>9, <2>10, StretchAssumption DEF TypeOK, n
  <2>12. InsideInv'
    BY <2>4, <2>6 DEF InsideInv, n
  <2> QED  BY <2>4, <2>5, <2>6, <2>8, <2>11, <2>12
<1>3. CASE Frame
  <2>1. /\ pc = "loop" /\ input_cursor <= LoopBound
        /\ pc' = pc /\ ratio' = ratio /\ frame_skip' = frame_skip
        /\ num_input_samples' = num_input_samples
    BY <1>3 DEF Frame
  <2>2. TypeOK'
    BY <1>3, <2>1, FrameBuffers DEF TypeOK
  <2>3. InsideInv'
    <3> SUFFICES ASSUME LongEnough'
                 PROVE  /\ Len(input_samples') = num_input_samples
                        /\ output_cursor' <= input_cursor'
      BY <2>1 DEF InsideInv
    <3>1. LongEnough
      BY <2>1 DEF LongEnough
    <3>2. /\ Len(input_samples) = num_input_samples
          /\ output_cursor <= input_cursor
      BY <2>1, <3>1 DEF InsideInv
    <3>3. /\ TailEnd <= num_input_samples /\ HeadEnd <= num_input_samples
          /\ output_cursor + flat_duration + overlap_size <= HeadEnd
      BY <2>1, <3>1, <3>2, FrameFits, LongIsNumber, StretchAssumption DEF TypeOK
    <3> QED  BY <1>3, <3>2, <3>3, FrameBuffers
  <2>4. ratio # NaN => NumberSkip'
    BY <2>1 DEF NumberSkip, FrameSkip
  <2> QED  BY <1>3, <2>1, <2>2, <2>3, <2>4, FrameBuffers
<1>4. CASE FrameThrows
  <2>1. /\ pc = "loop" /\ input_cursor <= LoopBound /\ ~InMemory
        /\ pc' = "bad_alloc"
        /\ UNCHANGED <<ratio, frame_skip, num_input_samples, input_samples,
                       output_samples, input_cursor, output_cursor>>
    BY <1>4 DEF FrameThrows
  <2>2. ~LongEnough
    <3> SUFFICES ASSUME LongEnough PROVE FALSE
      OBVIOUS
    <3>1. output_cursor <= input_cursor
      BY <2>1 DEF InsideInv
    <3> QED  BY <2>1, <3>1, FrameFits, LongIsNumber, StretchAssumption DEF TypeOK
  <2>3. ~LongEnough'
    BY <2>1, <2>2 DEF LongEnough
  <2> QED  BY <2>1, <2>3 DEF TypeOK, InsideInv, NumberSkip, FrameSkip
<1>5. CASE FinishSola
  BY <1>5 DEF FinishSola, TypeOK, InsideInv, NumberSkip, FrameSkip
<1>6. CASE SendAudio
  BY <1>6 DEF SendAudio, TypeOK, InsideInv
<1>7. CASE UNCHANGED vars
  BY <1>7 DEF vars, TypeOK, InsideInv, LongEnough, NumberSkip, FrameSkip
<1> QED  BY <1>1, <1>2, <1>3, <1>4, <1>5, <1>6, <1>7 DEF Next, Sola

-----------------------------------------------------------------------------
(***************************************************************************)
(* What the output of sola is                                              *)
(***************************************************************************)

\* The quotient and the remainder of f * h + r.
LEMMA QuotientOf ==
  ASSUME NEW f \in Nat, NEW h \in Nat \ {0}, NEW r \in 0 .. h - 1
  PROVE  (f * h + r) \div h = f /\ (f * h + r) % h = r
OBVIOUS

\* What window_buffers makes of two samples and a weight.
LEMMA BlendedCell ==
  ASSUME NEW a \in Nat, NEW b \in Nat, NEW w \in Nat
  PROVE  <<a>> \o <<b>> \o <<w>> = <<a, b, w>>
<1> DEFINE s == <<a>> \o <<b>>
           x == <<w>>
           t == s \o x
           u == <<a, b, w>>
<1>1. /\ <<a>> \in Seq(Nat) /\ <<b>> \in Seq(Nat)
      /\ x \in Seq(Nat) /\ Len(x) = 1 /\ x[1] = w
      /\ u \in Seq(Nat) /\ Len(u) = 3 /\ u[1] = a /\ u[2] = b /\ u[3] = w
  OBVIOUS
<1>2. s \in Seq(Nat) /\ Len(s) = 2 /\ s[1] = a /\ s[2] = b
  BY <1>1, ConcatProperties
<1> HIDE DEF s, x, u
<1>3. /\ t \in Seq(Nat) /\ Len(t) = Len(s) + Len(x)
      /\ \A i \in 1 .. Len(s) + Len(x) :
           t[i] = IF i <= Len(s) THEN s[i] ELSE x[i - Len(s)]
  BY <1>1, <1>2, ConcatProperties
<1> HIDE DEF t
<1>4. Len(t) = 3 /\ t[1] = a /\ t[2] = b /\ t[3] = w
  BY <1>1, <1>2, <1>3
<1>5. \A i \in 1 .. Len(t) : t[i] = u[i]
  <2>1. \A i \in 1 .. Len(t) : i = 1 \/ i = 2 \/ i = 3
    BY <1>4
  <2> QED  BY <1>1, <1>4, <2>1, Zenon
<1>6. t = u
  BY <1>1, <1>3, <1>4, <1>5, SeqEqual
<1> QED  BY <1>6 DEF t, s, x, u

\* The resize of buffer_copy_part leaves a buffer alone that is long enough.
LEMMA GrownSame ==
  ASSUME NEW buf \in Buffer, NEW n \in Int, n <= Len(buf)
  PROVE  Grown(buf, n) = buf
<1>1. Len(buf) \in Nat /\ ~(Len(buf) < n)
  BY CellsOf
<1>2. Grown(buf, n) = [i \in 1 .. Len(buf) |-> IF i <= Len(buf) THEN buf[i] ELSE <<>>]
  BY <1>1 DEF Grown
<1>3. [i \in 1 .. Len(buf) |-> IF i <= Len(buf) THEN buf[i] ELSE <<>>]
        = [i \in 1 .. Len(buf) |-> buf[i]]
  BY <1>1
<1>4. buf = [i \in 1 .. Len(buf) |-> buf[i]]
  BY DEF Buffer
<1> QED  BY <1>2, <1>3, <1>4

\* A read that ends inside the buffer returns its cells.
LEMMA PartCells ==
  ASSUME NEW buf \in Buffer, NEW k \in Nat, NEW n \in Nat, k + n <= Len(buf)
  PROVE  \A i \in 1 .. n : Part(buf, k, n)[i] = buf[k + i]
<1>1. Grown(buf, k + n) = buf
  BY GrownSame
<1>2. Part(buf, k, n) = SubSeq(buf, k + 1, k + n)
  BY <1>1 DEF Part
<1>3. SubSeq(buf, k + 1, k + n) = [i \in 1 .. n |-> buf[k + i]]
  BY CellsOf DEF Buffer
<1> QED  BY <1>2, <1>3

\* A write at the end of the buffer appends.
LEMMA PutCells ==
  ASSUME NEW part \in Buffer, NEW buf \in Buffer
  PROVE  \A i \in 1 .. Len(buf) + Len(part) :
           Put(part, buf, Len(buf))[i] =
             IF i <= Len(buf) THEN buf[i] ELSE part[i - Len(buf)]
<1> DEFINE k == Len(buf)
           n == Len(part)
           h == Grown(buf, k + n)
<1>1. k \in Nat /\ n \in Nat
  BY CellsOf
<1>2. Len(h) = k + n
  BY <1>1, GrownLength
<1>3. \A i \in 1 .. k : h[i] = buf[i]
  BY <1>1 DEF Grown
<1>4. Put(part, buf, k) =
        [i \in 1 .. Len(h) |->
           IF i \in k + 1 .. k + n THEN part[i - k] ELSE h[i]]
  BY DEF Put
<1> HIDE DEF h, k, n
<1>5. ASSUME NEW i \in 1 .. k + n
      PROVE  Put(part, buf, k)[i] = IF i <= k THEN buf[i] ELSE part[i - k]
  <2>1. Put(part, buf, k)[i] = IF i \in k + 1 .. k + n THEN part[i - k] ELSE h[i]
    BY <1>2, <1>4
  <2>2. CASE i <= k
    <3>1. i \notin k + 1 .. k + n /\ i \in 1 .. k
      BY <1>1, <2>2
    <3> QED  BY <1>3, <2>1, <2>2, <3>1
  <2>3. CASE ~(i <= k)
    <3>1. i \in k + 1 .. k + n
      BY <1>1, <2>3
    <3> QED  BY <2>1, <2>3, <3>1
  <2> QED  BY <2>2, <2>3
<1> QED  BY <1>5 DEF k, n

\* After f iterations both cursors have moved f times, and the output is the
\* overlap-add of the input up to its cursor.
FramesDone(f) ==
  /\ input_cursor = f * (flat_duration + frame_skip)
  /\ output_cursor = f * (flat_duration + overlap_size)
  /\ Len(output_samples) = output_cursor
  /\ \A p \in 0 .. output_cursor - 1 : output_samples[p + 1] = OverlapAdd(p)

\* What OutputIsOverlapAdd needs to be inductive: how many iterations there
\* were, and that the input is what was received until the loop ends.
OverlapInv ==
  (pc \in {"loop", "send"} /\ LongEnough) =>
    /\ \E f \in Nat : FramesDone(f)
    /\ pc = "loop" =>
         \A i \in 1 .. num_input_samples : input_samples[i] = <<i>>

\* The reference definition, at offset r of frame f.
LEMMA OverlapAddAt ==
  ASSUME NumberSkip, NEW f \in Nat,
         NEW r \in 0 .. flat_duration + overlap_size - 1
  PROVE  LET src == f * (flat_duration + frame_skip) + r + 1 IN
         OverlapAdd(f * (flat_duration + overlap_size) + r) =
           IF r < flat_duration THEN <<src>>
           ELSE <<src, src + frame_skip - overlap_size, r - flat_duration>>
<1> DEFINE hop == flat_duration + overlap_size
<1>1. hop \in Nat \ {0}
  BY StretchAssumption DEF flat_duration
<1>2. (f * hop + r) \div hop = f /\ (f * hop + r) % hop = r
  <2>1. r \in 0 .. hop - 1
    BY StretchAssumption DEF flat_duration
  <2> HIDE DEF hop
  <2> QED  BY <1>1, <2>1, QuotientOf
<1> QED  BY <1>2, Zenon DEF OverlapAdd

\* One iteration over audio that is long enough appends the next frame of the
\* overlap-add to the output, and leaves the input as it is.
LEMMA FrameAppends ==
  ASSUME StretchInv, OverlapInv, LongEnough, Frame,
         NEW f \in Nat, FramesDone(f)
  PROVE  /\ input_samples' = input_samples
         /\ Len(output_samples') = output_cursor + flat_duration + overlap_size
         /\ \A p \in 0 .. output_cursor - 1 :
              output_samples'[p + 1] = output_samples[p + 1]
         /\ \A r \in 0 .. flat_duration + overlap_size - 1 :
              output_samples'[output_cursor + r + 1] =
                OverlapAdd(output_cursor + r)
<1> DEFINE flat == Part(input_samples, input_cursor, flat_duration)
           tail == Part(input_samples, FlatEnd, overlap_size)
           head == Part(input_samples, HeadEnd - overlap_size, overlap_size)
           blend == Blend(tail, head)
           part == flat \o blend
<1>1. /\ input_samples \in Buffer /\ output_samples \in Buffer
      /\ NumberSkip /\ num_input_samples \in 0 .. Memory
      /\ input_cursor \in Nat /\ output_cursor \in Nat
  BY LongIsNumber, StretchAssumption DEF StretchInv, TypeOK, Frame
<1>2. /\ pc = "loop" /\ input_cursor <= LoopBound
      /\ output_samples' = Put(part, output_samples, output_cursor)
      /\ input_samples' = Grown(Grown(input_samples, TailEnd), HeadEnd)
  BY DEF Frame
<1>3. /\ Len(input_samples) = num_input_samples
      /\ output_cursor <= input_cursor
      /\ \A i \in 1 .. num_input_samples : input_samples[i] = <<i>>
  BY <1>2 DEF StretchInv, InsideInv, OverlapInv
<1>4. TailEnd <= num_input_samples /\ HeadEnd <= num_input_samples
  BY <1>1, <1>2, <1>3, FrameFits
<1>5. /\ flat_duration \in Nat /\ overlap_size \in Nat /\ frame_skip \in Nat
      /\ overlap_size <= frame_skip
      /\ FlatEnd \in Nat /\ TailEnd \in Nat
      /\ HeadEnd \in Nat /\ HeadEnd - overlap_size \in Nat
      /\ FlatEnd = input_cursor + flat_duration
      /\ TailEnd = FlatEnd + overlap_size
      /\ HeadEnd = FlatEnd + frame_skip
  BY <1>1, SkipBounds, StretchAssumption
     DEF flat_duration, FlatEnd, TailEnd, HeadEnd
<1>6. input_samples' = input_samples
  <2>1. Grown(input_samples, TailEnd) = input_samples
    BY <1>1, <1>3, <1>4, <1>5, GrownSame
  <2>2. Grown(input_samples, HeadEnd) = input_samples
    BY <1>1, <1>3, <1>4, <1>5, GrownSame
  <2> QED  BY <1>2, <2>1, <2>2
\* The three reads return samples of the input.
<1>7. ASSUME NEW k \in Nat, NEW n \in Nat, k + n <= num_input_samples
      PROVE  \A i \in 1 .. n : Part(input_samples, k, n)[i] = <<k + i>>
  <2> SUFFICES ASSUME NEW i \in 1 .. n
               PROVE  Part(input_samples, k, n)[i] = <<k + i>>
    OBVIOUS
  <2>1. Part(input_samples, k, n)[i] = input_samples[k + i]
    BY <1>1, <1>3, <1>7, PartCells
  <2>2. k + i \in 1 .. num_input_samples
    BY <1>1, <1>7
  <2> QED  BY <1>3, <2>1, <2>2, Zenon
<1>8. /\ flat \in Buffer /\ Len(flat) = flat_duration
      /\ tail \in Buffer /\ Len(tail) = overlap_size
      /\ head \in Buffer /\ Len(head) = overlap_size
  BY <1>1, <1>5, PartLength
<1>9. \A i \in 1 .. flat_duration : flat[i] = <<input_cursor + i>>
  <2>1. input_cursor + flat_duration <= num_input_samples
    BY <1>1, <1>4, <1>5
  <2> QED  BY <1>1, <1>5, <1>7, <2>1
<1>10. \A i \in 1 .. overlap_size : tail[i] = <<FlatEnd + i>>
  <2>1. FlatEnd + overlap_size <= num_input_samples
    BY <1>4, <1>5
  <2> QED  BY <1>5, <1>7, <2>1
<1>11. \A i \in 1 .. overlap_size : head[i] = <<(HeadEnd - overlap_size) + i>>
  <2> DEFINE start == HeadEnd - overlap_size
  <2>1. start \in Nat /\ start + overlap_size <= num_input_samples
    BY <1>4, <1>5
  <2> HIDE DEF start
  <2>2. \A i \in 1 .. overlap_size :
          Part(input_samples, start, overlap_size)[i] = <<start + i>>
    BY <1>5, <1>7, <2>1
  <2> QED  BY <2>2, Zenon DEF start
<1> HIDE DEF flat, tail, head
<1>12. /\ blend \in Buffer /\ Len(blend) = overlap_size
       /\ \A i \in 1 .. overlap_size :
            blend[i] = <<FlatEnd + i, (HeadEnd - overlap_size) + i, i - 1>>
  <2>1. blend \in Buffer /\ Len(blend) = overlap_size
    BY <1>8, BlendLength
  <2>2. ASSUME NEW i \in 1 .. overlap_size
        PROVE  blend[i] = <<FlatEnd + i, (HeadEnd - overlap_size) + i, i - 1>>
    <3>1. blend[i] = tail[i] \o head[i] \o <<i - 1>>
      BY <1>8, Zenon DEF Blend
    <3>2. tail[i] = <<FlatEnd + i>> /\ head[i] = <<(HeadEnd - overlap_size) + i>>
      BY <1>10, <1>11, Zenon
    <3>3. /\ FlatEnd + i \in Nat /\ (HeadEnd - overlap_size) + i \in Nat
          /\ i - 1 \in Nat
      BY <1>5
    <3>4. <<FlatEnd + i>> \o <<(HeadEnd - overlap_size) + i>> \o <<i - 1>>
            = <<FlatEnd + i, (HeadEnd - overlap_size) + i, i - 1>>
      BY <3>3, BlendedCell
    <3> QED  BY <3>1, <3>2, <3>4, Zenon
  <2> QED  BY <2>1, <2>2
<1> HIDE DEF blend
<1>13. /\ part \in Buffer /\ Len(part) = flat_duration + overlap_size
       /\ \A i \in 1 .. flat_duration + overlap_size :
            part[i] = IF i <= flat_duration THEN flat[i]
                      ELSE blend[i - flat_duration]
  <2>1. flat \in Seq(Cell) /\ blend \in Seq(Cell)
    BY <1>8, <1>12 DEF Buffer
  <2>2. /\ part \in Seq(Cell) /\ Len(part) = Len(flat) + Len(blend)
        /\ \A i \in 1 .. Len(flat) + Len(blend) :
             part[i] = IF i <= Len(flat) THEN flat[i] ELSE blend[i - Len(flat)]
    BY <2>1, ConcatProperties
  <2> QED  BY <1>8, <1>12, <2>2, Zenon DEF Buffer
<1> HIDE DEF part
<1>14. ASSUME NEW r \in 0 .. flat_duration + overlap_size - 1
       PROVE  part[r + 1] = OverlapAdd(output_cursor + r)
  <2> DEFINE src == input_cursor + r + 1
  <2>1. OverlapAdd(output_cursor + r) =
          IF r < flat_duration THEN <<src>>
          ELSE <<src, src + frame_skip - overlap_size, r - flat_duration>>
    <3>1. /\ input_cursor = f * (flat_duration + frame_skip)
          /\ output_cursor = f * (flat_duration + overlap_size)
      BY Zenon DEF FramesDone
    <3> QED  BY <1>1, <3>1, OverlapAddAt, Zenon
  <2>2. r + 1 \in 1 .. flat_duration + overlap_size /\ r \in Nat
    BY <1>5
  <2>3. CASE r < flat_duration
    <3>1. part[r + 1] = flat[r + 1]
      <4>1. r + 1 <= flat_duration
        BY <1>5, <2>2, <2>3
      <4> QED  BY <1>13, <2>2, <4>1, Zenon
    <3>2. flat[r + 1] = <<input_cursor + (r + 1)>>
      <4>1. r + 1 \in 1 .. flat_duration
        BY <1>5, <2>2, <2>3
      <4> QED  BY <1>9, <4>1, Zenon
    <3>3. input_cursor + (r + 1) = src
      BY <1>1, <2>2
    <3> QED  BY <2>1, <2>3, <3>1, <3>2, <3>3, Zenon
  <2>4. CASE ~(r < flat_duration)
    <3> DEFINE i == (r + 1) - flat_duration
    <3>1. part[r + 1] = blend[i]
      <4>1. ~(r + 1 <= flat_duration)
        BY <1>5, <2>2, <2>4
      <4> QED  BY <1>13, <2>2, <4>1, Zenon
    <3>2. blend[i] = <<FlatEnd + i, (HeadEnd - overlap_size) + i, i - 1>>
      <4>1. i \in 1 .. overlap_size
        BY <1>5, <2>2, <2>4
      <4> HIDE DEF i
      <4> QED  BY <1>12, <4>1, Zenon
    <3>3. /\ FlatEnd + i = src
          /\ (HeadEnd - overlap_size) + i = src + frame_skip - overlap_size
          /\ i - 1 = r - flat_duration
      BY <1>1, <1>5, <2>2
    <3> HIDE DEF i, src
    <3> QED  BY <2>1, <2>4, <3>1, <3>2, <3>3, Zenon
  <2> QED  BY <2>3, <2>4
\* The write at the output cursor appends.
<1>15. Len(output_samples) = output_cursor
  BY Zenon DEF FramesDone
<1>16. output_samples' = Put(part, output_samples, Len(output_samples))
  BY <1>2, <1>15
<1> DEFINE n == output_cursor
           m == flat_duration + overlap_size
<1>17. \A i \in 1 .. n + m :
         output_samples'[i] = IF i <= n THEN output_samples[i] ELSE part[i - n]
  <2>1. \A i \in 1 .. Len(output_samples) + Len(part) :
          Put(part, output_samples, Len(output_samples))[i] =
            IF i <= Len(output_samples) THEN output_samples[i]
            ELSE part[i - Len(output_samples)]
    BY <1>1, <1>13, PutCells
  <2> QED  BY <1>13, <1>15, <1>16, <2>1, Zenon
<1>18. Len(output_samples') = output_cursor + flat_duration + overlap_size
  BY <1>1, <1>5, <1>13, <1>15, <1>16, StretchAssumption, PutLength
<1>19. n \in Nat /\ m \in Nat
  BY <1>1, <1>5
<1> HIDE DEF n, m
<1>20. ASSUME NEW p \in 0 .. n - 1
       PROVE  output_samples'[p + 1] = output_samples[p + 1]
  <2>1. p + 1 \in 1 .. n + m /\ p + 1 <= n
    BY <1>19
  <2> QED  BY <1>17, <2>1, Zenon
<1>21. ASSUME NEW r \in 0 .. m - 1
       PROVE  output_samples'[n + r + 1] = part[r + 1]
  <2> DEFINE i == n + r + 1
  <2>1. i \in 1 .. n + m /\ ~(i <= n) /\ i - n = r + 1
    BY <1>19
  <2> HIDE DEF i
  <2>2. output_samples'[i] = part[i - n]
    BY <1>17, <2>1, Zenon
  <2> QED  BY <2>1, <2>2, Zenon DEF i
<1>22. \A r \in 0 .. flat_duration + overlap_size - 1 : r \in 0 .. m - 1
  BY <1>5 DEF m
<1>23. \A r \in 0 .. flat_duration + overlap_size - 1 :
         output_samples'[output_cursor + r + 1] = OverlapAdd(output_cursor + r)
  BY <1>14, <1>21, <1>22, Zenon DEF n
<1> QED  BY <1>6, <1>18, <1>20, <1>23, Zenon DEF n

\* Every step of the service keeps the invariant.
LEMMA OverlapNext == StretchInv /\ OverlapInv /\ [Next]_vars => OverlapInv'
<1> SUFFICES ASSUME StretchInv, OverlapInv, [Next]_vars PROVE OverlapInv'
  OBVIOUS
<1>1. CASE pc' \notin {"loop", "send"}
  BY <1>1 DEF OverlapInv
<1>2. CASE RecvAudio
  <2>1. /\ input_cursor' = 0 /\ output_cursor' = 0 /\ output_samples' = <<>>
        /\ input_samples' = [i \in 1 .. num_input_samples' |-> <<i>>]
    BY <1>2 DEF RecvAudio
  <2>2. FramesDone(0)'
    <3>1. TypeOK'
      BY StretchNext DEF StretchInv
    <3>2. frame_skip' \in Nat
      BY <3>1, StretchAssumption DEF TypeOK
    <3>3. flat_duration \in Nat /\ overlap_size \in Nat
      BY StretchAssumption DEF flat_duration
    <3>4. /\ 0 = 0 * (flat_duration + frame_skip')
          /\ 0 = 0 * (flat_duration + overlap_size)
      <4>1. \A x \in Int : 0 = 0 * x
        OBVIOUS
      <4>2. /\ flat_duration + frame_skip' \in Int
            /\ flat_duration + overlap_size \in Int
        BY <3>2, <3>3
      <4> QED  BY <4>1, <4>2, Zenon
    <3> QED  BY <2>1, <3>4 DEF FramesDone
  <2>3. \A i \in 1 .. num_input_samples' : input_samples'[i] = <<i>>
    BY <2>1, Zenon
  <2>4. \E f \in Nat : FramesDone(f)'
    BY <2>2
  <2> QED  BY <2>3, <2>4 DEF OverlapInv
<1>3. CASE Frame
  <2>1. /\ pc = "loop" /\ UNCHANGED <<pc, ratio, frame_skip, num_input_samples>>
        /\ input_cursor' = HeadEnd
        /\ output_cursor' = output_cursor + flat_duration + overlap_size
    BY <1>3 DEF Frame
  <2>2. /\ frame_skip' = frame_skip /\ LongEnough' = LongEnough
        /\ \A p : OverlapAdd(p)' = OverlapAdd(p)
    BY <2>1 DEF LongEnough, OverlapAdd
  <2> SUFFICES ASSUME LongEnough PROVE OverlapInv'
    BY <2>2 DEF OverlapInv
  <2>3. PICK f \in Nat : FramesDone(f)
    BY <2>1 DEF OverlapInv
  <2>4. /\ output_cursor \in Nat
        /\ flat_duration \in Nat /\ overlap_size \in Nat
        /\ overlap_size # 0 /\ frame_skip \in Nat
    BY StretchAssumption DEF StretchInv, TypeOK, flat_duration
  <2>5. /\ input_samples' = input_samples
        /\ Len(output_samples') = output_cursor + flat_duration + overlap_size
        /\ \A p \in 0 .. output_cursor - 1 :
             output_samples'[p + 1] = output_samples[p + 1]
        /\ \A r \in 0 .. flat_duration + overlap_size - 1 :
             output_samples'[output_cursor + r + 1] =
               OverlapAdd(output_cursor + r)
    BY <1>3, <2>3, FrameAppends
  <2>6. /\ input_cursor = f * (flat_duration + frame_skip)
        /\ output_cursor = f * (flat_duration + overlap_size)
        /\ \A p \in 0 .. output_cursor - 1 :
             output_samples[p + 1] = OverlapAdd(p)
    BY <2>3, Zenon DEF FramesDone
  <2>7. input_cursor' = (f + 1) * (flat_duration + frame_skip')
    <3>1. HeadEnd = input_cursor + flat_duration + frame_skip
      BY DEF HeadEnd, FlatEnd
    <3> QED  BY <2>1, <2>2, <2>4, <2>6, <3>1
  <2>8. output_cursor' = (f + 1) * (flat_duration + overlap_size)
    BY <2>1, <2>4, <2>6
  <2>9. ASSUME NEW p \in 0 .. output_cursor' - 1
        PROVE  output_samples'[p + 1] = OverlapAdd(p)
    <3>1. CASE p < output_cursor
      <4>1. p \in 0 .. output_cursor - 1
        BY <2>4, <3>1
      <4> QED  BY <2>5, <2>6, <4>1, Zenon
    <3>2. CASE ~(p < output_cursor)
      <4> DEFINE r == p - output_cursor
      <4>1. /\ r \in 0 .. flat_duration + overlap_size - 1
            /\ output_cursor + r = p
        BY <2>1, <2>4, <3>2
      <4> HIDE DEF r
      <4> QED  BY <2>5, <4>1, Zenon
    <3> QED  BY <3>1, <3>2
  <2>10. FramesDone(f + 1)'
    BY <2>1, <2>2, <2>5, <2>7, <2>8, <2>9, Zenon DEF FramesDone
  <2>11. \E g \in Nat : FramesDone(g)'
    BY <2>10
  <2>12. \A i \in 1 .. num_input_samples' : input_samples'[i] = <<i>>
    BY <2>1, <2>5, Zenon DEF OverlapInv
  <2> QED  BY <2>11, <2>12 DEF OverlapInv
<1>4. CASE FinishSola \/ UNCHANGED vars
  <2>1. /\ pc \in {"loop", "send"} \/ pc' \notin {"loop", "send"}
        /\ pc' = "send" \/ (pc' = pc /\ input_samples' = input_samples)
        /\ UNCHANGED <<ratio, frame_skip, num_input_samples, output_samples,
                       input_cursor, output_cursor>>
    BY <1>4 DEF FinishSola, vars
  <2>2. /\ frame_skip' = frame_skip /\ LongEnough' = LongEnough
        /\ \A p : OverlapAdd(p)' = OverlapAdd(p)
    BY <2>1 DEF LongEnough, OverlapAdd
  <2>3. \A f : FramesDone(f)' = FramesDone(f)
    BY <2>1, <2>2, Zenon DEF FramesDone
  <2> QED  BY <2>1, <2>2, <2>3 DEF OverlapInv
<1> QED  BY <1>1, <1>2, <1>3, <1>4
         DEF Next, Sola, RecvRatio, FrameThrows, SendAudio

\* The stretch service keeps its types.  Whatever number a client asks for,
\* the ratio stays between 50 and 200 percent, 2*(frame_skip + overlap_size)
\* fits in an unsigned int and frame_skip is at least an overlap, for every
\* frame size in the proportion of the code's; only a NaN gets past the clamp.
THEOREM StretchTypeCorrect == Spec => []TypeOK
<1>1. StretchInv => TypeOK
  BY DEF StretchInv
<1> QED  BY <1>1, StretchInit, StretchNext, PTL DEF Spec

\* For every length at which the loop bound of sola does not wrap, and every
\* ratio, buffer_copy_part never has to enlarge the input and no allocation
\* fails.
THEOREM ReadsStayInside == Spec => []ReadsInside
<1>1. StretchInv => ReadsInside
  BY DEF StretchInv, InsideInv, ReadsInside
<1> QED  BY <1>1, StretchInit, StretchNext, PTL DEF Spec

\* The output of sola is the overlap-add of its input, with no gap, repeated
\* section or zero, for every frame and overlap size in the proportion of the
\* code's, every ratio and every audio that is long enough.
THEOREM SolaOverlapsAndAdds == Spec => []OutputIsOverlapAdd
<1>1. Init => OverlapInv
  BY DEF Init, OverlapInv
<1>2. OverlapInv => OutputIsOverlapAdd
  BY Zenon DEF OverlapInv, FramesDone, OutputIsOverlapAdd
<1> QED  BY <1>1, <1>2, StretchInit, StretchNext, OverlapNext, PTL DEF Spec
==============================================================================
