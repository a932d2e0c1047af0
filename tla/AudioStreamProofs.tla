-------------------------- MODULE AudioStreamProofs --------------------------
(***************************************************************************)
(* Lemmas about the bytes of messages and samples, for every CHUNK_SIZE,   *)
(* FLOAT_BYTES and MSG_BYTES: what the proofs about Pipe and WaveTech rest *)
(* on.                                                                     *)
(***************************************************************************)
EXTENDS AudioStream, SequenceTheorems, TLAPS

(***************************************************************************)
(* Arithmetic                                                              *)
(***************************************************************************)

\* Quotient and remainder of a byte count by the size of a float, or of a
\* channel length by CHUNK_SIZE.
LEMMA DivMod ==
  ASSUME NEW a \in Nat, NEW b \in Nat \ {0}
  PROVE  /\ a \div b \in Nat
         /\ (a % b) \in 0 .. b - 1
         /\ a = (a \div b) * b + (a % b)
OBVIOUS

\* Quotient and remainder are the only such numbers.
LEMMA DivUnique ==
  ASSUME NEW q \in Nat, NEW b \in Nat \ {0}, NEW r \in 0 .. b - 1
  PROVE  ((q * b + r) \div b) = q /\ ((q * b + r) % b) = r
OBVIOUS

\* Multiplication by a size keeps the order.
LEMMA MulMono ==
  ASSUME NEW a \in Nat, NEW b \in Nat, NEW c \in Nat, a <= b
  PROVE  a * c <= b * c
OBVIOUS

\* Multiplication by a size distributes over a difference of positions.
LEMMA MulDist ==
  ASSUME NEW a \in Int, NEW b \in Int, NEW c \in Int
  PROVE  (a + b) * c = a * c + b * c /\ (a - b) * c = a * c - b * c
OBVIOUS

\* Byte i of m values of b bytes each belongs to one of the m values.
LEMMA ByteRange ==
  ASSUME NEW b \in Nat \ {0}, NEW m \in Nat, NEW i \in 1 .. m * b
  PROVE  ((i - 1) \div b) \in 0 .. m - 1 /\ ((i - 1) % b) \in 0 .. b - 1
OBVIOUS

\* Byte k of value q + 1.
LEMMA ByteAt ==
  ASSUME NEW b \in Nat \ {0}, NEW q \in Nat, NEW k \in 1 .. b
  PROVE  (((q * b + k) - 1) \div b) = q /\ (((q * b + k) - 1) % b) = k - 1
<1>1. (q * b + k) - 1 = q * b + (k - 1) /\ k - 1 \in 0 .. b - 1
  OBVIOUS
<1> QED
  BY <1>1, DivUnique

-----------------------------------------------------------------------------
(***************************************************************************)
(* Bytes of floats                                                         *)
(***************************************************************************)

\* AudioBytes writes FLOAT_BYTES bytes for each float, in order: byte k of
\* float j + 1 is at j * FLOAT_BYTES + k.
LEMMA AudioBytesIndex ==
  ASSUME NEW s \in Seq(Float)
  PROVE  /\ AudioBytes(s) \in Seq(Byte)
         /\ Len(AudioBytes(s)) = Len(s) * FLOAT_BYTES
         /\ \A j \in 0 .. Len(s) - 1 : \A k \in 1 .. FLOAT_BYTES :
              /\ j * FLOAT_BYTES + k \in 1 .. Len(s) * FLOAT_BYTES
              /\ AudioBytes(s)[j * FLOAT_BYTES + k] = <<s[j + 1], k>>
<1> DEFINE F == FLOAT_BYTES
           L == Len(s)
<1>1. F \in Nat \ {0} /\ L \in Nat
  BY StreamAssumption
<1>2. \A j \in 1 .. L : s[j] \in Float
  OBVIOUS
<1>3. AudioBytes(s) = [k \in 1 .. L * F |->
                         <<s[((k - 1) \div F) + 1], ((k - 1) % F) + 1>>]
  BY DEF AudioBytes
<1>4. Byte = (Float \X (1 .. F)) \cup (Message \X (1 .. MSG_BYTES))
  BY DEF Byte
<1> HIDE DEF F, L
<1>5. L * F \in Nat
  BY <1>1
<1>6. ASSUME NEW k \in 1 .. L * F
      PROVE  <<s[((k - 1) \div F) + 1], ((k - 1) % F) + 1>> \in Byte
  <2>1. ((k - 1) \div F) \in 0 .. L - 1 /\ ((k - 1) % F) \in 0 .. F - 1
    BY <1>1, ByteRange
  <2>2. ((k - 1) \div F) + 1 \in 1 .. L /\ ((k - 1) % F) + 1 \in 1 .. F
    BY <1>1, <2>1
  <2> QED
    BY <1>2, <1>4, <2>2
<1>7. ASSUME NEW j \in 0 .. L - 1, NEW k \in 1 .. F
      PROVE  /\ j * F + k \in 1 .. L * F
             /\ AudioBytes(s)[j * F + k] = <<s[j + 1], k>>
  <2>1. j \in Nat /\ j + 1 <= L
    BY <1>1
  <2>2. (j + 1) * F <= L * F
    BY <1>1, <2>1, MulMono
  <2>3. j * F + k \in 1 .. L * F
    BY <1>1, <2>1, <2>2
  <2>4. (((j * F + k) - 1) \div F) = j /\ (((j * F + k) - 1) % F) = k - 1
    BY <1>1, <2>1, ByteAt
  <2>5. (k - 1) + 1 = k
    BY <1>1
  <2> QED
    BY <1>3, <2>3, <2>4, <2>5
<1>8. AudioBytes(s) \in Seq(Byte) /\ Len(AudioBytes(s)) = L * F
  BY <1>3, <1>5, <1>6
<1> QED
  BY <1>7, <1>8 DEF F, L

-----------------------------------------------------------------------------
(***************************************************************************)
(* A stream in the middle of a channel                                     *)
(*                                                                         *)
(* b holds the bytes of the samples lo + 1 .. hi of s, and nothing else.   *)
(***************************************************************************)
Carries(b, s, lo, hi) ==
  /\ Len(b) = (hi - lo) * FLOAT_BYTES
  /\ \A j \in 0 .. hi - lo - 1 : \A k \in 1 .. FLOAT_BYTES :
       b[j * FLOAT_BYTES + k] = <<s[lo + j + 1], k>>

\* Writing the next samples keeps a stream in this form.
LEMMA CarriesAppend ==
  ASSUME NEW s \in Seq(Float), NEW b \in Seq(Byte),
         NEW lo \in Nat, NEW mid \in Nat, NEW hi \in Nat,
         lo <= mid, mid <= hi, hi <= Len(s), Carries(b, s, lo, mid)
  PROVE  Carries(b \o AudioBytes(SubSeq(s, mid + 1, hi)), s, lo, hi)
<1> DEFINE F == FLOAT_BYTES
           t == SubSeq(s, mid + 1, hi)
           c == AudioBytes(t)
<1>1. F \in Nat \ {0}
  BY StreamAssumption
<1>2. /\ t \in Seq(Float) /\ Len(t) = hi - mid
      /\ \A j \in 0 .. hi - mid - 1 : t[j + 1] = s[mid + j + 1]
  OBVIOUS
<1>3. /\ c \in Seq(Byte) /\ Len(c) = (hi - mid) * F
      /\ \A j \in 0 .. hi - mid - 1 : \A k \in 1 .. F :
           /\ j * F + k \in 1 .. (hi - mid) * F
           /\ c[j * F + k] = <<s[mid + j + 1], k>>
  <2> HIDE DEF t
  <2>1. /\ c \in Seq(Byte) /\ Len(c) = Len(t) * F
        /\ \A j \in 0 .. Len(t) - 1 : \A k \in 1 .. F :
             j * F + k \in 1 .. Len(t) * F /\ c[j * F + k] = <<t[j + 1], k>>
    BY <1>2, AudioBytesIndex
  <2>2. Len(t) = hi - mid
    BY <1>2
  <2> HIDE DEF F, c
  <2> QED
    BY <1>2, <2>1, <2>2
<1>4. /\ Len(b) = (mid - lo) * F
      /\ \A j \in 0 .. mid - lo - 1 : \A k \in 1 .. F :
           b[j * F + k] = <<s[lo + j + 1], k>>
  BY DEF Carries
<1> HIDE DEF F, t, c
<1>5. Len(b \o c) = (hi - lo) * F
  <2>1. (mid - lo) * F + (hi - mid) * F = (hi - lo) * F
    BY <1>1
  <2>2. Len(b \o c) = Len(b) + Len(c)
    BY <1>3
  <2> QED
    BY <1>3, <1>4, <2>1, <2>2
<1>6. ASSUME NEW j \in 0 .. hi - lo - 1, NEW k \in 1 .. F
      PROVE  (b \o c)[j * F + k] = <<s[lo + j + 1], k>>
  <2>1. CASE j < mid - lo
    <3>1. j \in 0 .. mid - lo - 1
      BY <2>1
    <3>2. j * F + k \in 1 .. (mid - lo) * F
      <4>1. j \in Nat /\ mid - lo \in Nat /\ j + 1 <= mid - lo
        BY <3>1
      <4>2. (j + 1) * F <= (mid - lo) * F
        BY <1>1, <4>1, MulMono
      <4> QED
        BY <1>1, <4>1, <4>2
    <3>3. (b \o c)[j * F + k] = b[j * F + k]
      BY <1>3, <1>4, <3>2
    <3> QED
      BY <1>4, <3>1, <3>3
  <2>2. CASE j >= mid - lo
    <3> DEFINE i == j - (mid - lo)
    <3>1. i \in 0 .. hi - mid - 1 /\ mid + i + 1 = lo + j + 1
      BY <2>2
    <3>2. j * F + k = (mid - lo) * F + (i * F + k)
      BY <1>1, <3>1
    <3> HIDE DEF i
    <3>3. i * F + k \in 1 .. (hi - mid) * F /\ c[i * F + k] = <<s[mid + i + 1], k>>
      BY <1>3, <3>1
    <3>4. (b \o c)[j * F + k] = c[i * F + k]
      <4> DEFINE x == i * F + k
                 m == (mid - lo) * F
                 n == (hi - mid) * F
      <4>1. m \in Nat /\ n \in Nat /\ x \in 1 .. n
        BY <1>1, <1>3, <1>4, <3>3
      <4>2. Len(b) = m /\ Len(c) = n /\ j * F + k = m + x
        BY <1>3, <1>4, <3>2
      <4> HIDE DEF x, m, n
      <4>3. (b \o c)[m + x] = c[x]
        BY <1>3, <4>1, <4>2
      <4> QED
        BY <4>2, <4>3 DEF x
    <3> QED
      BY <3>1, <3>3, <3>4
  <2>3. j < mid - lo \/ j >= mid - lo
    OBVIOUS
  <2> QED
    BY <2>1, <2>2, <2>3
<1> QED
  BY <1>5, <1>6 DEF Carries, F, c, t

\* Reading whole samples off the front keeps a stream in this form.
LEMMA CarriesDrop ==
  ASSUME NEW s, NEW b \in Seq(Byte),
         NEW lo \in Nat, NEW hi \in Nat, NEW m \in Nat,
         lo + m <= hi, Carries(b, s, lo, hi)
  PROVE  Carries(Rest(b, m * FLOAT_BYTES), s, lo + m, hi)
<1> DEFINE F == FLOAT_BYTES
           L == Len(b)
           r == Rest(b, m * F)
<1>1. F \in Nat \ {0} /\ L = (hi - lo) * F
  BY StreamAssumption DEF Carries
<1>2. \A j \in 0 .. hi - lo - 1 : \A k \in 1 .. F :
        b[j * F + k] = <<s[lo + j + 1], k>>
  BY DEF Carries
<1> HIDE DEF F
<1>3. m * F \in Nat /\ m * F <= L /\ L - m * F = (hi - (lo + m)) * F
  <2>1. m \in Nat /\ hi - lo \in Nat /\ m <= hi - lo
    OBVIOUS
  <2>2. m * F <= (hi - lo) * F
    BY <1>1, <2>1, MulMono
  <2>3. (hi - lo) * F - m * F = (hi - (lo + m)) * F
    BY <1>1
  <2> QED
    BY <1>1, <2>2, <2>3
<1>4. Len(r) = L - m * F /\ \A i \in 1 .. L - m * F : r[i] = b[m * F + i]
  <2> DEFINE d == m * F
  <2>1. d \in Nat /\ d <= Len(b)
    BY <1>3
  <2> HIDE DEF d
  <2>2. /\ Len(SubSeq(b, d + 1, Len(b))) = Len(b) - d
        /\ \A i \in 1 .. Len(b) - d : SubSeq(b, d + 1, Len(b))[i] = b[d + i]
    BY <2>1
  <2> QED
    BY <2>2 DEF d, Rest
<1>5. ASSUME NEW j \in 0 .. hi - (lo + m) - 1, NEW k \in 1 .. F
      PROVE  r[j * F + k] = <<s[(lo + m) + j + 1], k>>
  <2>1. m + j \in 0 .. hi - lo - 1 /\ lo + (m + j) + 1 = (lo + m) + j + 1
    OBVIOUS
  <2>2. (m + j) * F + k = m * F + (j * F + k)
    BY <1>1
  <2>3. j * F + k \in 1 .. L - m * F
    <3>1. j \in Nat /\ hi - (lo + m) \in Nat /\ j + 1 <= hi - (lo + m)
      OBVIOUS
    <3>2. (j + 1) * F <= (hi - (lo + m)) * F
      BY <1>1, <3>1, MulMono
    <3> QED
      BY <1>1, <1>3, <3>1, <3>2
  <2>4. r[j * F + k] = b[(m + j) * F + k]
    BY <1>4, <2>2, <2>3
  <2> QED
    BY <1>2, <2>1, <2>4
<1> QED
  BY <1>3, <1>4, <1>5 DEF Carries, F, r

\* What recv_audio decodes from the first n bytes of such a stream: the next
\* samples, as many as fit.
LEMMA CarriesDecode ==
  ASSUME NEW s \in Seq(Float), NEW b \in Seq(Byte),
         NEW lo \in Nat, NEW hi \in Nat, lo <= hi, hi <= Len(s),
         NEW n \in Nat, n <= Len(b), Carries(b, s, lo, hi)
  PROVE  LET f == Floats(SubSeq(b, 1, n))
         IN  /\ f \in Seq(Float)
             /\ Len(f) = n \div FLOAT_BYTES
             /\ Len(f) <= hi - lo
             /\ \A i \in 1 .. Len(f) : f[i] = s[lo + i]
<1> DEFINE F == FLOAT_BYTES
           q == n \div F
           p == SubSeq(b, 1, n)
<1>1. F \in Nat \ {0} /\ Len(b) = (hi - lo) * F
  BY StreamAssumption DEF Carries
<1>2. \A j \in 0 .. hi - lo - 1 : \A k \in 1 .. F :
        b[j * F + k] = <<s[lo + j + 1], k>>
  BY DEF Carries
<1>3. p \in Seq(Byte) /\ Len(p) = n /\ \A i \in 1 .. n : p[i] = b[i]
  OBVIOUS
<1>4. Floats(p) = [i \in 1 .. q |-> FloatAt(p, i)]
  BY <1>3 DEF Floats
<1> HIDE DEF F, p
<1>5. q \in Nat /\ q * F <= n
  <2>1. /\ (n \div F) \in Nat /\ (n % F) \in 0 .. F - 1
        /\ n = (n \div F) * F + (n % F)
    BY <1>1, DivMod
  <2> QED
    BY <1>1, <2>1
<1> HIDE DEF q
<1>6. q <= hi - lo
  <2>1. q * F <= (hi - lo) * F /\ q * F \in Nat
    BY <1>1, <1>5
  <2>2. ASSUME q >= (hi - lo) + 1 PROVE FALSE
    <3>1. ((hi - lo) + 1) * F <= q * F
      BY <1>1, <1>5, <2>2, MulMono
    <3>2. ((hi - lo) + 1) * F = (hi - lo) * F + F
      BY <1>1
    <3>3. (hi - lo) * F \in Int
      BY <1>1
    <3> QED
      BY <1>1, <2>1, <3>1, <3>2, <3>3
  <2> QED
    BY <1>5, <2>2
<1>7. ASSUME NEW i \in 1 .. q PROVE FloatAt(p, i) = s[lo + i]
  <2>1. i - 1 \in 0 .. hi - lo - 1 /\ lo + (i - 1) + 1 = lo + i
    BY <1>5, <1>6
  <2>2. ASSUME NEW k \in 1 .. F PROVE p[(i - 1) * F + k] = <<s[lo + i], k>>
    <3>1. i * F <= q * F
      BY <1>1, <1>5, MulMono
    <3>2. i * F = (i - 1) * F + F /\ (i - 1) * F \in Nat
      BY <1>1, <2>1
    <3>3. (i - 1) * F + k \in 1 .. n
      BY <1>1, <1>5, <3>1, <3>2
    <3>4. b[(i - 1) * F + k] = <<s[lo + i], k>>
      BY <1>2, <2>1
    <3> QED
      BY <1>3, <3>3, <3>4
  <2>3. s[lo + i] \in Sample \/ (s[lo + i] = Garbage /\ Garbage \notin Sample)
    BY <2>1, StreamAssumption DEF Float
  <2>4. p[(i - 1) * F + 1] = <<s[lo + i], 1>>
    BY <1>1, <2>2
  <2> QED
    BY <2>2, <2>3, <2>4 DEF FloatAt, F
<1>8. \A i \in 1 .. q : s[lo + i] \in Float
  BY <1>5, <1>6
<1>9. Floats(p) = [i \in 1 .. q |-> s[lo + i]]
  BY <1>4, <1>7
<1>10. /\ Floats(p) \in Seq(Float) /\ Len(Floats(p)) = q
       /\ \A i \in 1 .. q : Floats(p)[i] = s[lo + i]
  BY <1>5, <1>8, <1>9
<1> QED
  BY <1>6, <1>10 DEF p, q, F

-----------------------------------------------------------------------------
(***************************************************************************)
(* The two loops                                                           *)
(***************************************************************************)
Multiple(m) == \E q \in Nat : m = q * CHUNK_SIZE

\* A chunk of send_audio lies inside the channel.  The last one ends at the
\* end of the channel, or is empty when the channel is a multiple of
\* CHUNK_SIZE long.
LEMMA ChunkOfFloats ==
  ASSUME NEW ch \in Seq(Float), NEW idx \in Nat, Multiple(idx),
         idx < Len(Cells(ch))
  PROVE  /\ ChunkLen(ch, idx) \in Nat
         /\ idx + ChunkLen(ch, idx) <= Len(Cells(ch))
         /\ Chunk(ch, idx) \in Seq(Float)
         /\ ~LastChunk(ch, idx) => /\ ChunkLen(ch, idx) = CHUNK_SIZE
                                   /\ idx + CHUNK_SIZE < Len(Cells(ch))
                                   /\ Multiple(idx + CHUNK_SIZE)
         /\ LastChunk(ch, idx) => \/ idx + ChunkLen(ch, idx) = Len(Cells(ch))
                                  \/ Multiple(idx + ChunkLen(ch, idx))
<1> DEFINE C == CHUNK_SIZE
           L == Len(Cells(ch))
           n == ChunkLen(ch, idx)
<1>1. C \in Nat \ {0}
  BY StreamAssumption
<1>2. Cells(ch) \in Seq(Float) /\ L \in Nat
  <2>1. <<Garbage>> \in Seq(Float)
    BY DEF Float
  <2>2. Cells(ch) \in Seq(Float)
    BY <2>1 DEF Cells
  <2> QED
    BY <2>2
<1>3. PICK q \in Nat : idx = q * C
  BY DEF Multiple
<1>4. n = IF idx + C >= L THEN (L % C) ELSE C
  BY DEF ChunkLen, LastChunk
<1>5. LastChunk(ch, idx) <=> idx + C >= L
  BY DEF LastChunk
<1>6. idx < L
  OBVIOUS
<1> HIDE DEF C, L, n
<1>7. idx + C = (q + 1) * C
  BY <1>1, <1>3
<1>8. CASE idx + C > L
  <2>1. L = q * C + (L - idx) /\ (L - idx) \in 0 .. C - 1
    BY <1>1, <1>2, <1>3, <1>6, <1>8
  <2>2. (L % C) = L - idx
    BY <1>1, <2>1, DivUnique
  <2>3. n = L - idx /\ n \in Nat /\ idx + n = L
    BY <1>1, <1>2, <1>4, <1>6, <1>8, <2>2
  <2>4. SubSeq(Cells(ch), idx + 1, idx + n) \in Seq(Float)
    BY <1>2, <2>3 DEF L
  <2>5. LastChunk(ch, idx)
    BY <1>1, <1>2, <1>5, <1>8
  <2> QED
    BY <1>2, <2>3, <2>4, <2>5 DEF Chunk, n, L, C
<1>9. CASE idx + C = L
  <2>1. L = (q + 1) * C + 0 /\ 0 \in 0 .. C - 1
    BY <1>1, <1>7, <1>9
  <2>2. (L % C) = 0
    BY <1>1, <2>1, DivUnique
  <2>3. n = 0
    BY <1>1, <1>2, <1>4, <1>9, <2>2
  <2> QED
    BY <1>1, <1>2, <1>5, <1>6, <1>9, <2>3 DEF Chunk, n, L, C
<1>10. CASE idx + C < L
  <2>1. n = C
    BY <1>1, <1>2, <1>4, <1>10
  <2>2. Multiple(idx + C)
    BY <1>7 DEF Multiple, C
  <2> QED
    BY <1>1, <1>2, <1>5, <1>10, <2>1, <2>2 DEF Chunk, n, L, C
<1> QED
  BY <1>1, <1>2, <1>8, <1>9, <1>10

\* The same for the channels of a sound file.
LEMMA ChunkShape ==
  ASSUME NEW ch \in Seq(Sample), NEW idx \in Nat, Multiple(idx),
         idx < Len(Cells(ch))
  PROVE  /\ ChunkLen(ch, idx) \in Nat
         /\ idx + ChunkLen(ch, idx) <= Len(Cells(ch))
         /\ Chunk(ch, idx) \in Seq(Float)
         /\ ~LastChunk(ch, idx) => /\ ChunkLen(ch, idx) = CHUNK_SIZE
                                   /\ idx + CHUNK_SIZE < Len(Cells(ch))
                                   /\ Multiple(idx + CHUNK_SIZE)
         /\ LastChunk(ch, idx) => \/ idx + ChunkLen(ch, idx) = Len(Cells(ch))
                                  \/ Multiple(idx + ChunkLen(ch, idx))
<1>1. ch \in Seq(Float)
  BY DEF Float
<1> QED
  BY <1>1, ChunkOfFloats

\* What one read of recv_audio does to a stream that carries samples
\* lo + 1 .. w of s.  A full chunk leaves the stream in that form.  A short
\* chunk ends the channel; when reads are never cut short, and the writer has
\* either written a whole number of chunks or the whole channel, it does so at
\* the end.
ReadOutcome(s, b, lo, w, n) ==
  LET f == Floats(SubSeq(b, 1, n))
  IN  /\ f \in Seq(Float)
      /\ lo + Len(f) <= w
      /\ \A i \in 1 .. Len(f) : f[i] = s[lo + i]
      /\ ~(Len(f) < CHUNK_SIZE) =>
           /\ Multiple(lo + Len(f))
           /\ Carries(Rest(b, n), s, lo + Len(f), w)
      /\ (Len(f) < CHUNK_SIZE /\ ~ShortReads /\ (w = Len(s) \/ Multiple(w))) =>
           lo + Len(f) = Len(s) /\ Rest(b, n) = <<>>

\* Every read of recv_audio does that.
LEMMA ReadStep ==
  ASSUME NEW s \in Seq(Float), NEW b \in Seq(Byte),
         NEW lo \in Nat, NEW w \in Nat, lo <= w, w <= Len(s),
         Multiple(lo), Carries(b, s, lo, w),
         NEW n \in ReadSizes(Len(b), CHUNK_SIZE * FLOAT_BYTES)
  PROVE  ReadOutcome(s, b, lo, w, n)
<1> DEFINE C == CHUNK_SIZE
           F == FLOAT_BYTES
           f == Floats(SubSeq(b, 1, n))
           m == Len(f)
           A == Len(b)
<1>1. C \in Nat \ {0} /\ F \in Nat \ {0} /\ ShortReads \in BOOLEAN
  BY StreamAssumption
<1>2. A \in Nat /\ A = (w - lo) * F
  BY DEF Carries
<1>3. /\ n \in Nat /\ n >= 1 /\ n <= A /\ n <= C * F
      /\ ~ShortReads => n = A \/ n = C * F
  <2>1. C * F \in Nat
    BY <1>1
  <2> HIDE DEF C, F
  <2>2. n \in ReadSizes(A, C * F)
    BY DEF C, F
  <2> QED
    BY <1>1, <1>2, <2>1, <2>2 DEF ReadSizes
<1>4. f \in Seq(Float) /\ m = n \div F /\ m <= w - lo
      /\ \A i \in 1 .. m : f[i] = s[lo + i]
  BY <1>3, CarriesDecode
<1>5. PICK q \in Nat : lo = q * C
  BY DEF Multiple
<1> HIDE DEF C, F, f, m, A
<1>6. m \in Nat /\ m * F <= n /\ n < m * F + F
  <2>1. /\ (n \div F) \in Nat /\ (n % F) \in 0 .. F - 1
        /\ n = (n \div F) * F + (n % F)
    BY <1>1, <1>3, DivMod
  <2> QED
    BY <1>1, <1>3, <1>4, <2>1
<1>7. ASSUME ~(m < C)
      PROVE  n = m * F /\ m = C
  <2>1. C * F <= m * F
    BY <1>1, <1>6, <1>7, MulMono
  <2>2. C * F \in Nat /\ m * F \in Nat
    BY <1>1, <1>6
  <2>3. n = C * F /\ m * F = C * F
    BY <1>3, <1>6, <2>1, <2>2
  <2>4. m = (C * F + 0) \div F /\ 0 \in 0 .. F - 1
    BY <1>1, <1>4, <2>2, <2>3
  <2>5. m = C
    BY <1>1, <2>4, DivUnique
  <2> QED
    BY <2>3, <2>5
<1>8. ~(m < C) => Multiple(lo + m) /\ Carries(Rest(b, n), s, lo + m, w)
  <2> HAVE ~(m < C)
  <2>1. n = m * F /\ m = C
    BY <1>7
  <2>2. lo + m = (q + 1) * C
    BY <1>1, <1>5, <2>1
  <2>3. Multiple(lo + m)
    BY <2>2 DEF Multiple, C
  <2>4. m \in Nat /\ lo + m <= w
    BY <1>4, <1>6
  <2>5. Carries(Rest(b, m * FLOAT_BYTES), s, lo + m, w)
    BY <2>4, CarriesDrop
  <2> QED
    BY <2>1, <2>3, <2>5 DEF F
<1>9. ASSUME m < C, ~ShortReads, w = Len(s) \/ Multiple(w)
      PROVE  lo + m = Len(s) /\ Rest(b, n) = <<>>
  <2>1. n # C * F
    <3> SUFFICES ASSUME n = C * F PROVE FALSE
      OBVIOUS
    <3>1. m = (C * F + 0) \div F /\ 0 \in 0 .. F - 1 /\ C * F \in Nat
      BY <1>1, <1>4
    <3>2. m = C
      BY <1>1, <3>1, DivUnique
    <3> QED
      BY <1>1, <1>9, <3>2
  <2>2. n = A
    BY <1>3, <1>9, <2>1
  <2>3. m = w - lo
    <3>1. m = ((w - lo) * F + 0) \div F /\ 0 \in 0 .. F - 1 /\ w - lo \in Nat
      BY <1>1, <1>2, <1>4, <2>2
    <3> QED
      BY <1>1, <3>1, DivUnique
  <2>4. m # 0
    <3> SUFFICES ASSUME m = 0 PROVE FALSE
      OBVIOUS
    <3>1. (w - lo) * F = 0
      BY <1>1, <2>3
    <3> QED
      BY <1>2, <1>3, <2>2, <3>1
  <2>5. ~Multiple(w)
    <3> SUFFICES ASSUME NEW p \in Nat, w = p * C PROVE FALSE
      BY DEF Multiple, C
    <3>1. m = (p - q) * C
      BY <1>1, <1>5, <2>3
    <3>2. p - q >= 1
      <4> SUFFICES ASSUME p <= q PROVE FALSE
        OBVIOUS
      <4>1. p * C <= q * C
        BY <1>1, MulMono
      <4> QED
        BY <1>5, <1>6, <2>3, <2>4, <4>1
    <3>3. 1 * C <= (p - q) * C
      BY <1>1, <3>2, MulMono
    <3> QED
      BY <1>1, <1>9, <3>1, <3>3
  <2>6. Rest(b, n) = <<>>
    BY <2>2 DEF Rest, A
  <2> QED
    BY <1>9, <2>3, <2>5, <2>6
<1> QED
  BY <1>4, <1>6, <1>8, <1>9 DEF ReadOutcome, C, f, m

-----------------------------------------------------------------------------
(***************************************************************************)
(* Types of what is written and read                                       *)
(***************************************************************************)

\* The cursor starts at the beginning of a channel, which has a cell.
LEMMA CursorStarts ==
  ASSUME NEW S, NEW ch \in Seq(S)
  PROVE  Multiple(0) /\ 0 < Len(Cells(ch))
<1>1. 0 = 0 * CHUNK_SIZE
  BY StreamAssumption
<1>2. Multiple(0)
  BY <1>1 DEF Multiple
<1>3. CASE ch = <<>>
  <2>1. Cells(ch) = <<Garbage>>
    BY <1>3 DEF Cells
  <2> QED
    BY <1>2, <2>1
<1>4. CASE ch # <<>>
  <2>1. Cells(ch) = ch
    BY <1>4 DEF Cells
  <2>2. Len(ch) # 0
    BY <1>4
  <2> QED
    BY <1>2, <2>1, <2>2
<1> QED
  BY <1>3, <1>4

\* Whatever bytes are read, recv_audio makes floats of them.
LEMMA FloatsType ==
  ASSUME NEW b \in Seq(Byte)
  PROVE  Floats(b) \in Seq(Float)
<1> DEFINE n == Len(b) \div FLOAT_BYTES
<1>1. n \in Nat
  <2>1. Len(b) \in Nat /\ FLOAT_BYTES \in Nat \ {0}
    BY StreamAssumption
  <2> QED
    BY <2>1, DivMod
<1>2. \A i \in 1 .. n : FloatAt(b, i) \in Float
  BY DEF FloatAt, Float
<1>3. Floats(b) = [i \in 1 .. n |-> FloatAt(b, i)]
  BY DEF Floats
<1> HIDE DEF n
<1> QED
  BY <1>1, <1>2, <1>3

\* A read takes a non-empty prefix of what is there, and what is left are
\* bytes again.
LEMMA ReadType ==
  ASSUME NEW b \in Seq(Byte), NEW cap \in Nat \ {0},
         NEW n \in ReadSizes(Len(b), cap)
  PROVE  /\ n \in 1 .. Len(b)
         /\ b # <<>>
         /\ SubSeq(b, 1, n) \in Seq(Byte)
         /\ Rest(b, n) \in Seq(Byte)
<1>1. n \in 1 .. Len(b)
  BY StreamAssumption DEF ReadSizes
<1> QED
  BY <1>1 DEF Rest

\* A text message is a sequence of bytes.
LEMMA TextType ==
  ASSUME NEW m \in Message
  PROVE  TextBytes(m) \in Seq(Byte) /\ Len(TextBytes(m)) = MSG_BYTES
BY StreamAssumption DEF TextBytes, Byte

-----------------------------------------------------------------------------
(***************************************************************************)
(* A channel and what has been received of it                              *)
(***************************************************************************)
Agrees(t, s) == Len(t) <= Len(s) /\ \A i \in 1 .. Len(t) : t[i] = s[i]

\* At the start of a channel nothing has been written or read.
LEMMA FeedingStarts ==
  ASSUME NEW s \in Seq(Float)
  PROVE  Carries(<<>>, s, 0, 0) /\ Multiple(0)
<1>1. (0 - 0) * FLOAT_BYTES = 0 /\ 0 .. 0 - 0 - 1 = {}
  BY StreamAssumption
<1> QED
  BY <1>1, CursorStarts DEF Carries

\* A channel that agrees with another one of the same length is equal to it.
LEMMA AgreesAll ==
  ASSUME NEW t \in Seq(Float), NEW s \in Seq(Float),
         Agrees(t, s), Len(t) = Len(s)
  PROVE  t = s
BY DEF Agrees

\* The floats of a read are appended behind those that are there.
LEMMA ConcatShape ==
  ASSUME NEW t \in Seq(Float), NEW f \in Seq(Float)
  PROVE  /\ t \o f \in Seq(Float)
         /\ Len(t \o f) = Len(t) + Len(f)
         /\ \A i \in 1 .. Len(t) : (t \o f)[i] = t[i]
         /\ \A i \in 1 .. Len(f) : (t \o f)[Len(t) + i] = f[i]
OBVIOUS

\* A channel that agrees and gets the samples that follow agrees.
LEMMA AgreesMore ==
  ASSUME NEW t \in Seq(Float), NEW s \in Seq(Float), NEW f \in Seq(Float),
         Agrees(t, s), Len(t) + Len(f) <= Len(s),
         \A i \in 1 .. Len(f) : f[i] = s[Len(t) + i]
  PROVE  Agrees(t \o f, s)
<1> DEFINE u == t \o f
           lo == Len(t)
<1>1. /\ u \in Seq(Float) /\ Len(u) = lo + Len(f)
      /\ \A i \in 1 .. lo : u[i] = t[i]
      /\ \A i \in 1 .. Len(f) : u[lo + i] = f[i]
  BY ConcatShape
<1>2. lo \in Nat /\ Len(f) \in Nat /\ \A i \in 1 .. lo : t[i] = s[i]
  BY DEF Agrees
<1> HIDE DEF u, lo
<1>3. ASSUME NEW i \in 1 .. Len(u) PROVE u[i] = s[i]
  <2>1. CASE i <= lo
    BY <1>1, <1>2, <2>1
  <2>2. CASE i > lo
    <3>1. i - lo \in 1 .. Len(f) /\ lo + (i - lo) = i
      BY <1>1, <1>2, <2>2
    <3>2. u[lo + (i - lo)] = s[lo + (i - lo)]
      BY <1>1, <3>1 DEF lo
    <3> QED
      BY <3>1, <3>2
  <2> QED
    BY <1>1, <1>2, <2>1, <2>2
<1> QED
  BY <1>1, <1>3 DEF Agrees, u, lo
==============================================================================
