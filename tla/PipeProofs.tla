----------------------------- MODULE PipeProofs -----------------------------
(***************************************************************************)
(* Proofs about Pipe, for every CHUNK_SIZE, FLOAT_BYTES and set of         *)
(* buffers.                                                                *)
(***************************************************************************)
EXTENDS Pipe, AudioStreamProofs

(***************************************************************************)
(* Types, cursor and order                                                 *)
(*                                                                         *)
(* The type invariant needs the cursor of send_audio to stay inside the    *)
(* channel.  The order of the labels needs that the stream back to the     *)
(* sender is empty until the receiver has confirmed.                       *)
(***************************************************************************)
Cursor ==
  /\ snd \in {"left", "right"} =>
       Multiple(buffer_idx) /\ buffer_idx < Len(Cells(samples[Channel(snd)]))
  /\ snd = "await" => buffer_idx = 0

Order ==
  /\ rcv \in {"left", "confirm"} =>
       ack = <<>> /\ container[2] = <<>> /\ snd \in {"left", "await", "aborted"}
  /\ ChannelsApart

BaseInv == TypeOK /\ Cursor /\ Order

\* The initial states satisfy the invariant.
LEMMA InitBase == Init => BaseInv
<1> SUFFICES ASSUME Init PROVE BaseInv
  OBVIOUS
<1>1. samples \in [1 .. 2 -> Seq(Sample)]
  BY BuffersAssumption DEF Init
<1>2. TypeOK
  <2>1. <<>> \in Seq(Float) /\ <<>> \in Seq(Byte)
    OBVIOUS
  <2>2. \A x : x \in Seq(Float) => <<x, x>> \in [1 .. 2 -> Seq(Float)]
    OBVIOUS
  <2>3. container \in [1 .. 2 -> Seq(Float)]
    BY <2>1, <2>2 DEF Init
  <2> QED
    BY <1>1, <2>1, <2>3 DEF Init, TypeOK, SenderLabel, ReceiverLabel
<1>3. Cursor
  <2>1. samples[1] \in Seq(Sample) /\ Channel("left") = 1
    BY <1>1 DEF Channel
  <2> QED
    BY <2>1, CursorStarts DEF Init, Cursor
<1>4. Order
  BY DEF Init, Order, ChannelsApart
<1> QED
  BY <1>2, <1>3, <1>4 DEF BaseInv

\* Every step preserves the invariant.
LEMMA NextBase == BaseInv /\ [Next]_vars => BaseInv'
<1> SUFFICES ASSUME BaseInv, [Next]_vars PROVE BaseInv'
  OBVIOUS
<1> USE DEF BaseInv
<1>1. CASE SendChunk
  <2> DEFINE c == Channel(snd)
             ch == samples[c]
  <2>1. /\ snd \in {"left", "right"} /\ c \in 1 .. 2 /\ ch \in Seq(Sample)
        /\ buffer_idx \in Nat /\ CHUNK_SIZE \in Nat
    BY <1>1, StreamAssumption DEF SendChunk, TypeOK, Channel
  <2>2. Multiple(buffer_idx) /\ buffer_idx < Len(Cells(ch))
    BY <2>1 DEF Cursor
  <2> HIDE DEF ch, c
  <2>3. AudioBytes(Chunk(ch, buffer_idx)) \in Seq(Byte)
    BY <2>1, <2>2, ChunkShape, AudioBytesIndex
  <2>4. /\ wire' = wire \o AudioBytes(Chunk(ch, buffer_idx))
        /\ UNCHANGED <<samples, ack, rcv, container>>
        /\ LastChunk(ch, buffer_idx) =>
             buffer_idx' = 0 /\ snd' = IF snd = "left" THEN "await" ELSE "true"
        /\ ~LastChunk(ch, buffer_idx) =>
             buffer_idx' = buffer_idx + CHUNK_SIZE /\ snd' = snd
    BY <1>1 DEF SendChunk, ch, c
  <2>5. TypeOK'
    BY <2>1, <2>3, <2>4 DEF TypeOK, SenderLabel
  <2>6. Cursor'
    <3>1. CASE LastChunk(ch, buffer_idx)
      BY <2>1, <2>4, <3>1 DEF Cursor
    <3>2. CASE ~LastChunk(ch, buffer_idx)
      BY <2>1, <2>2, <2>4, <3>2, ChunkShape DEF Cursor, ch, c
    <3> QED
      BY <3>1, <3>2
  <2>7. Order'
    BY <2>1, <2>4 DEF Order, ChannelsApart
  <2> QED
    BY <2>5, <2>6, <2>7
<1>2. CASE SendAborts
  BY <1>2 DEF SendAborts, TypeOK, Cursor, Order, ChannelsApart, SenderLabel
<1>3. CASE RecvConfirmation
  <2>1. PICK n \in ReadSizes(Len(ack), RECV_CAP) :
          /\ snd' \in {"right", "false"}
          /\ ack' = Rest(ack, n)
    BY <1>3 DEF RecvConfirmation
  <2>2. snd = "await" /\ UNCHANGED <<samples, buffer_idx, wire, rcv, container>>
    BY <1>3 DEF RecvConfirmation
  <2>3. ack \in Seq(Byte) /\ RECV_CAP \in Nat \ {0}
    BY StreamAssumption DEF TypeOK
  <2>4. ack # <<>> /\ Rest(ack, n) \in Seq(Byte)
    BY <2>3, ReadType
  <2>5. TypeOK'
    BY <2>1, <2>2, <2>4 DEF TypeOK, SenderLabel
  <2>6. Cursor'
    <3>1. samples[2] \in Seq(Sample) /\ buffer_idx = 0
      BY <2>2 DEF TypeOK, Cursor
    <3> QED
      BY <2>1, <2>2, <3>1, CursorStarts DEF Cursor, Channel
  <2>7. Order'
    <3>1. rcv \notin {"left", "confirm"}
      BY <2>4 DEF Order
    <3> QED
      BY <2>1, <2>2, <3>1 DEF Order, ChannelsApart, TypeOK, ReceiverLabel
  <2> QED
    BY <2>5, <2>6, <2>7
<1>4. CASE RecvChunk
  <2>1. PICK n \in ReadSizes(Len(wire), CHUNK_SIZE * FLOAT_BYTES) :
          LET floats == Floats(SubSeq(wire, 1, n)) IN
          /\ container' = [container EXCEPT ![Channel(rcv)] = @ \o floats]
          /\ wire' = Rest(wire, n)
          /\ rcv' = IF Len(floats) < CHUNK_SIZE
                    THEN IF rcv = "left" THEN "confirm" ELSE "returned"
                    ELSE rcv
    BY <1>4 DEF RecvChunk
  <2>2. rcv \in {"left", "right"} /\ UNCHANGED <<samples, snd, buffer_idx, ack>>
    BY <1>4 DEF RecvChunk
  <2>3. wire \in Seq(Byte) /\ CHUNK_SIZE * FLOAT_BYTES \in Nat \ {0}
    BY StreamAssumption DEF TypeOK
  <2>4. SubSeq(wire, 1, n) \in Seq(Byte) /\ Rest(wire, n) \in Seq(Byte)
    BY <2>3, ReadType
  <2>5. Floats(SubSeq(wire, 1, n)) \in Seq(Float)
    BY <2>4, FloatsType
  <2>6. /\ rcv' \in {rcv, "confirm", "returned"}
        /\ rcv = "right" => rcv' # "confirm"
    BY <2>1, <2>2
  <2> DEFINE floats == Floats(SubSeq(wire, 1, n))
  <2>7. container' = [container EXCEPT ![Channel(rcv)] = @ \o floats]
    BY <2>1
  <2> HIDE DEF floats
  <2>8. /\ container' \in [1 .. 2 -> Seq(Float)]
        /\ rcv = "left" => container'[2] = container[2]
    <3>1. floats \in Seq(Float) /\ container \in [1 .. 2 -> Seq(Float)]
      BY <2>5 DEF TypeOK, floats
    <3>2. Channel(rcv) \in 1 .. 2 /\ (rcv = "left" => Channel(rcv) = 1)
      BY <2>2 DEF Channel
    <3>3. container[Channel(rcv)] \o floats \in Seq(Float)
      BY <3>1, <3>2
    <3> QED
      BY <2>7, <3>1, <3>2, <3>3
  <2>9. TypeOK'
    BY <2>1, <2>2, <2>4, <2>6, <2>8 DEF TypeOK, ReceiverLabel
  <2>10. Cursor'
    BY <2>2 DEF Cursor
  <2>11. Order'
    BY <2>2, <2>6, <2>8, <2>1 DEF Order, ChannelsApart
  <2> QED
    BY <2>9, <2>10, <2>11
<1>5. CASE RecvThrows
  BY <1>5 DEF RecvThrows, TypeOK, Cursor, Order, ChannelsApart, ReceiverLabel
<1>6. CASE SendConfirmation
  <2>1. TextBytes("CONFIRMED") \in Seq(Byte)
    BY TextType DEF Message
  <2>2. TypeOK'
    BY <1>6, <2>1 DEF SendConfirmation, TypeOK, ReceiverLabel
  <2> QED
    BY <1>6, <2>2 DEF SendConfirmation, Cursor, Order, ChannelsApart
<1>7. CASE UNCHANGED vars
  BY <1>7 DEF vars, TypeOK, Cursor, Order, ChannelsApart
<1> QED
  BY <1>1, <1>2, <1>3, <1>4, <1>5, <1>6, <1>7 DEF Next, Sender, Receiver

\* The base invariant holds in every reachable state.
LEMMA SpecBase == Spec => []BaseInv
BY InitBase, NextBase, PTL DEF Spec

\* Type correctness of a transfer, whatever the buffers and however TCP cuts
\* the streams: no chunk of send_audio leaves its channel.
THEOREM TypeCorrect == Spec => []TypeOK
<1>1. BaseInv => TypeOK
  BY DEF BaseInv
<1> QED
  BY <1>1, SpecBase, PTL

\* The confirmation keeps the two channels apart, even when reads are cut
\* short: send_audio starts the right channel only when recv_audio has left
\* its left channel loop.
THEOREM ChannelsStayApart == Spec => []ChannelsApart
<1>1. BaseInv => ChannelsApart
  BY DEF BaseInv, Order
<1> QED
  BY <1>1, SpecBase, PTL

-----------------------------------------------------------------------------
(***************************************************************************)
(* Counting bytes                                                          *)
(***************************************************************************)

\* The floats send_audio has taken from its buffer, or may have before it
\* aborts.
Taken ==
  CASE snd = "left"               -> buffer_idx
    [] snd \in {"await", "false"} -> Len(Cells(samples[1]))
    [] snd = "right"              -> Len(Cells(samples[1])) + buffer_idx
    [] OTHER -> Len(Cells(samples[1])) + Len(Cells(samples[2]))

\* What NothingInvented needs to be inductive: the bytes of the floats that
\* recv_audio has and those on the wire are no more than send_audio has
\* written.  An odd byte that is lost by a division only makes them fewer.
CountInv ==
  (Len(container[1]) + Len(container[2])) * FLOAT_BYTES + Len(wire)
    <= Taken * FLOAT_BYTES

\* A chunk of n floats is written.
LEMMA CountSend ==
  ASSUME NEW F \in Nat, NEW g \in Nat, NEW w \in Nat, NEW t \in Nat,
         NEW n \in Nat, NEW u \in Nat, g * F + w <= t * F, t + n <= u
  PROVE  g * F + (w + n * F) <= u * F
<1>1. (t + n) * F <= u * F
  BY MulMono
<1>2. (t + n) * F = t * F + n * F
  BY MulDist
<1>3. g * F \in Nat /\ t * F \in Nat /\ n * F \in Nat /\ u * F \in Nat
  OBVIOUS
<1> QED
  BY <1>1, <1>2, <1>3

\* n bytes are read, and make m floats.
LEMMA CountRead ==
  ASSUME NEW F \in Nat, NEW g \in Nat, NEW w \in Nat, NEW t \in Nat,
         NEW n \in 1 .. w, NEW m \in Nat, g * F + w <= t * F, m * F <= n
  PROVE  (g + m) * F + (w - n) <= t * F
<1>1. (g + m) * F = g * F + m * F
  BY MulDist
<1>2. g * F \in Nat /\ t * F \in Nat /\ m * F \in Nat
  OBVIOUS
<1> QED
  BY <1>1, <1>2

\* The lengths of both channels, sent and received.
LEMMA Lengths ==
  ASSUME TypeOK
  PROVE  /\ Len(Cells(samples[1])) \in Nat /\ Len(Cells(samples[2])) \in Nat
         /\ Len(container[1]) \in Nat /\ Len(container[2]) \in Nat
         /\ Len(container[1]) + Len(container[2]) \in Nat
         /\ Len(Cells(samples[1])) + Len(Cells(samples[2])) \in Nat
         /\ Len(wire) \in Nat /\ buffer_idx \in Nat
<1>1. /\ samples[1] \in Seq(Sample) /\ samples[2] \in Seq(Sample)
      /\ container[1] \in Seq(Float) /\ container[2] \in Seq(Float)
  BY DEF TypeOK
<1>2. ASSUME NEW ch \in Seq(Sample) PROVE Len(Cells(ch)) \in Nat
  <2>1. ch \in Seq(Float) /\ <<Garbage>> \in Seq(Float)
    BY DEF Float
  <2>2. Cells(ch) \in Seq(Float)
    BY <2>1 DEF Cells
  <2> QED
    BY <2>2
<1>3. /\ Len(Cells(samples[1])) \in Nat /\ Len(Cells(samples[2])) \in Nat
      /\ Len(container[1]) \in Nat /\ Len(container[2]) \in Nat
      /\ Len(wire) \in Nat /\ buffer_idx \in Nat
  BY <1>1, <1>2 DEF TypeOK
<1>4. \A a, b \in Nat : a + b \in Nat
  OBVIOUS
<1> QED
  BY <1>3, <1>4, Zenon

\* A cursor inside its channel has taken no more than the buffer holds.
LEMMA TakenBound ==
  ASSUME BaseInv
  PROVE  Taken \in Nat /\ Taken <= Len(Cells(samples[1])) + Len(Cells(samples[2]))
<1> DEFINE one == Len(Cells(samples[1]))
           two == Len(Cells(samples[2]))
<1>1. one \in Nat /\ two \in Nat /\ buffer_idx \in Nat
  BY Lengths DEF BaseInv
<1>2. /\ snd = "left" => buffer_idx < one
      /\ snd = "right" => buffer_idx < two
  BY DEF BaseInv, Cursor, Channel
<1>3. \/ snd = "left" /\ Taken = buffer_idx
      \/ snd = "right" /\ Taken = one + buffer_idx
      \/ Taken = one
      \/ Taken = one + two
  BY Zenon DEF Taken
<1> HIDE DEF one, two
<1>4. Taken \in Nat /\ Taken <= one + two
  BY <1>1, <1>2, <1>3
<1> QED
  BY <1>4 DEF one, two

\* Every step keeps the count.
LEMMA NextCount == BaseInv /\ CountInv /\ [Next]_vars => CountInv'
<1> SUFFICES ASSUME BaseInv, CountInv, [Next]_vars PROVE CountInv'
  OBVIOUS
<1> DEFINE F == FLOAT_BYTES
           got == Len(container[1]) + Len(container[2])
           one == Len(Cells(samples[1]))
           two == Len(Cells(samples[2]))
           w == Len(wire)
<1>1. TypeOK /\ F \in Nat \ {0}
  BY StreamAssumption DEF BaseInv
<1>2. /\ one \in Nat /\ two \in Nat /\ got \in Nat /\ w \in Nat
      /\ buffer_idx \in Nat
  BY <1>1, Lengths, Zenon
<1>3. got * F + w <= Taken * F
  BY DEF CountInv
<1>4. Taken \in Nat /\ Taken <= one + two
  BY TakenBound
<1>5. CASE SendChunk
  <2> DEFINE c == Channel(snd)
             ch == samples[c]
             n == ChunkLen(ch, buffer_idx)
             bytes == AudioBytes(Chunk(ch, buffer_idx))
  <2>1. /\ snd \in {"left", "right"} /\ c \in 1 .. 2 /\ ch \in Seq(Sample)
        /\ Multiple(buffer_idx) /\ buffer_idx < Len(Cells(ch))
    BY <1>1, <1>5 DEF SendChunk, TypeOK, Channel, BaseInv, Cursor
  <2>2. /\ wire' = wire \o bytes
        /\ UNCHANGED <<samples, ack, rcv, container>>
        /\ LastChunk(ch, buffer_idx) =>
             buffer_idx' = 0 /\ snd' = IF snd = "left" THEN "await" ELSE "true"
        /\ ~LastChunk(ch, buffer_idx) =>
             buffer_idx' = buffer_idx + CHUNK_SIZE /\ snd' = snd
    BY <1>5 DEF SendChunk
  <2> HIDE DEF ch, c
  <2>3. /\ n \in Nat /\ buffer_idx + n <= Len(Cells(ch))
        /\ Chunk(ch, buffer_idx) \in Seq(Float)
        /\ ~LastChunk(ch, buffer_idx) => n = CHUNK_SIZE
    BY <1>2, <2>1, ChunkShape
  <2>4. Len(Chunk(ch, buffer_idx)) = n
    <3>1. Cells(ch) \in Seq(Float)
      <4>1. ch \in Seq(Float) /\ <<Garbage>> \in Seq(Float)
        BY <2>1 DEF Float
      <4> QED
        BY <4>1 DEF Cells
    <3>2. Len(SubSeq(Cells(ch), buffer_idx + 1, buffer_idx + n)) = n
      <4> HIDE DEF n
      <4> QED
        BY <1>2, <2>3, <3>1
    <3> QED
      BY <3>2 DEF Chunk
  <2>5. bytes \in Seq(Byte) /\ Len(bytes) = n * F
    BY <2>3, <2>4, AudioBytesIndex
  <2>6. Len(wire') = w + n * F
    <3> HIDE DEF bytes, n, F
    <3>1. wire \in Seq(Byte)
      BY <1>1 DEF TypeOK
    <3>2. Len(wire \o bytes) = Len(wire) + Len(bytes)
      BY <2>5, <3>1
    <3> QED
      BY <2>2, <2>5, <3>2
  <2>7. Taken + n <= Taken' /\ Taken' \in Nat
    <3> HIDE DEF n
    <3>1. CASE snd = "left"
      <4>1. Len(Cells(ch)) = one /\ Taken = buffer_idx
        BY <3>1 DEF Taken, Channel, ch, c
      <4>2. CASE LastChunk(ch, buffer_idx)
        <5>1. Taken' = one
          BY <2>2, <3>1, <4>2 DEF Taken
        <5> QED
          BY <1>2, <2>3, <4>1, <5>1
      <4>3. CASE ~LastChunk(ch, buffer_idx)
        <5>1. Taken' = buffer_idx + n
          BY <2>2, <2>3, <3>1, <4>3 DEF Taken
        <5> QED
          BY <1>2, <2>3, <4>1, <5>1
      <4> QED
        BY <4>2, <4>3
    <3>2. CASE snd = "right"
      <4>1. Len(Cells(ch)) = two /\ Taken = one + buffer_idx
        BY <3>2 DEF Taken, Channel, ch, c
      <4>2. CASE LastChunk(ch, buffer_idx)
        <5>1. Taken' = one + two
          BY <2>2, <3>2, <4>2 DEF Taken
        <5> QED
          BY <1>2, <2>3, <4>1, <5>1
      <4>3. CASE ~LastChunk(ch, buffer_idx)
        <5>1. Taken' = one + (buffer_idx + n)
          BY <2>2, <2>3, <3>2, <4>3 DEF Taken
        <5> QED
          BY <1>2, <2>3, <4>1, <5>1
      <4> QED
        BY <4>2, <4>3
    <3> QED
      BY <2>1, <3>1, <3>2
  <2>8. got' = got
    BY <2>2
  <2> HIDE DEF n, got, w, F
  <2>9. got * F + (w + n * F) <= Taken' * F
    BY <1>1, <1>2, <1>3, <1>4, <2>3, <2>7, CountSend
  <2>10. got' * F + Len(wire') <= Taken' * F
    BY <2>6, <2>8, <2>9
  <2> QED
    BY <2>10 DEF CountInv, got, F
<1>6. CASE RecvChunk
  <2>1. PICK n \in ReadSizes(Len(wire), CHUNK_SIZE * FLOAT_BYTES) :
          /\ container' = [container EXCEPT
               ![Channel(rcv)] = @ \o Floats(SubSeq(wire, 1, n))]
          /\ wire' = Rest(wire, n)
    BY <1>6 DEF RecvChunk
  <2>2. rcv \in {"left", "right"} /\ UNCHANGED <<samples, snd, buffer_idx, ack>>
    BY <1>6 DEF RecvChunk
  <2>3. wire \in Seq(Byte) /\ CHUNK_SIZE * FLOAT_BYTES \in Nat \ {0}
    BY <1>1, StreamAssumption DEF TypeOK
  <2>4. n \in 1 .. w /\ SubSeq(wire, 1, n) \in Seq(Byte)
    BY <2>3, ReadType
  <2> DEFINE read == SubSeq(wire, 1, n)
             floats == Floats(read)
             m == n \div F
  <2>5. Len(read) = n /\ Len(Rest(wire, n)) = w - n
    BY <2>3, <2>4 DEF Rest
  <2>6. floats \in Seq(Float) /\ Len(floats) = m
    <3>1. floats \in Seq(Float)
      BY <2>4, FloatsType
    <3>2. floats = [i \in 1 .. m |-> FloatAt(read, i)]
      BY <2>5 DEF Floats
    <3>3. m \in Nat
      BY <1>1, <2>4, DivMod
    <3> HIDE DEF m, read
    <3> QED
      BY <3>1, <3>2, <3>3
  <2>7. m \in Nat /\ m * F <= n
    <3>1. m \in Nat /\ (n % F) \in 0 .. F - 1 /\ n = m * F + (n % F)
      BY <1>1, <2>4, DivMod
    <3>2. n \in Nat /\ m * F \in Nat
      BY <1>1, <2>4, <3>1
    <3> DEFINE rest == n % F
               x == m * F
    <3>3. rest \in 0 .. F - 1 /\ n = x + rest /\ x \in Nat
      BY <3>1, <3>2, Zenon
    <3> HIDE DEF rest, x
    <3>4. x <= n
      BY <3>2, <3>3
    <3> QED
      BY <3>1, <3>4, Zenon DEF x
  <2>8. container' = [container EXCEPT ![Channel(rcv)] = @ \o floats]
    BY <2>1
  <2> HIDE DEF floats, m, read
  <2>9. got' = got + m
    <3>1. /\ container \in [1 .. 2 -> Seq(Float)]
          /\ container[1] \in Seq(Float) /\ container[2] \in Seq(Float)
      BY <1>1 DEF TypeOK
    <3>2. Channel(rcv) = 1 \/ Channel(rcv) = 2
      BY DEF Channel
    <3>3. \A t \in Seq(Float) : Len(t \o floats) = Len(t) + Len(floats)
      BY <2>6, ConcatProperties
    <3>4. /\ Len(container[1] \o floats) = Len(container[1]) + m
          /\ Len(container[2] \o floats) = Len(container[2]) + m
      BY <2>6, <3>1, <3>3, Zenon
    <3>5. /\ Len(container[1]) \in Nat /\ Len(container[2]) \in Nat
      BY <1>1, Lengths
    <3> DEFINE a == Len(container[1])
               b == Len(container[2])
    <3>6. CASE Channel(rcv) = 1
      <4>1. /\ container'[1] = container[1] \o floats
            /\ container'[2] = container[2]
        BY <2>8, <3>1, <3>6
      <4>2. a' = a + m /\ b' = b /\ a \in Nat /\ b \in Nat
        BY <3>4, <3>5, <4>1, Zenon
      <4> HIDE DEF a, b
      <4>3. a' + b' = (a + b) + m
        BY <2>7, <4>2
      <4> QED
        BY <4>3, Zenon DEF a, b
    <3>7. CASE Channel(rcv) = 2
      <4>1. /\ container'[1] = container[1]
            /\ container'[2] = container[2] \o floats
        BY <2>8, <3>1, <3>7
      <4>2. a' = a /\ b' = b + m /\ a \in Nat /\ b \in Nat
        BY <3>4, <3>5, <4>1, Zenon
      <4> HIDE DEF a, b
      <4>3. a' + b' = (a + b) + m
        BY <2>7, <4>2
      <4> QED
        BY <4>3, Zenon DEF a, b
    <3> QED
      BY <3>2, <3>6, <3>7
  <2>10. Taken' = Taken
    BY <2>2 DEF Taken
  <2>11. Len(wire') = w - n
    BY <2>1, <2>5
  <2> HIDE DEF got, w, F
  <2>12. (got + m) * F + (w - n) <= Taken * F
    BY <1>1, <1>2, <1>3, <1>4, <2>4, <2>7, CountRead
  <2>13. got' * F + Len(wire') <= Taken' * F
    BY <2>9, <2>10, <2>11, <2>12
  <2> QED
    BY <2>13 DEF CountInv, got, F
\* The other steps leave the containers and the wire alone, and what was
\* taken does not become less.
<1>7. ASSUME UNCHANGED <<samples, buffer_idx, wire, container>>,
             Taken' \in Nat, Taken <= Taken'
      PROVE  CountInv'
  <2>1. got' = got /\ Len(wire') = w
    BY <1>7
  <2> HIDE DEF got, w, F
  <2>2. Taken + 0 <= Taken'
    BY <1>4, <1>7
  <2>3. got * F + (w + 0 * F) <= Taken' * F
    BY <1>1, <1>2, <1>3, <1>4, <1>7, <2>2, CountSend
  <2>4. w + 0 * F = w
    BY <1>1, <1>2
  <2>5. got' * F + Len(wire') <= Taken' * F
    BY <2>1, <2>3, <2>4
  <2> QED
    BY <2>5 DEF CountInv, got, F
<1>8. CASE SendAborts
  <2>1. snd' = "aborted" /\ UNCHANGED <<samples, buffer_idx, wire, container>>
    BY <1>8 DEF SendAborts
  <2>2. Taken' = one + two
    BY <2>1 DEF Taken
  <2> QED
    BY <1>2, <1>4, <1>7, <2>1, <2>2
<1>9. CASE RecvConfirmation
  <2>1. /\ snd = "await" /\ snd' \in {"right", "false"}
        /\ UNCHANGED <<samples, buffer_idx, wire, container>>
    BY <1>9 DEF RecvConfirmation
  <2>2. Taken = one /\ Taken' \in {one, one + buffer_idx}
    BY <2>1 DEF Taken
  <2> QED
    BY <1>2, <1>7, <2>1, <2>2
<1>10. CASE RecvThrows \/ SendConfirmation \/ UNCHANGED vars
  <2>1. UNCHANGED <<samples, snd, buffer_idx, wire, container>>
    BY <1>10 DEF RecvThrows, SendConfirmation, vars
  <2>2. Taken' = Taken
    BY <2>1 DEF Taken
  <2> QED
    BY <1>4, <1>7, <2>1, <2>2
<1> QED
  BY <1>5, <1>6, <1>8, <1>9, <1>10 DEF Next, Sender, Receiver

\* recv_audio never has more floats than send_audio took from its buffer, for
\* every size of chunks and floats and however TCP cuts the stream.
THEOREM NoFloatInvented == Spec => []NothingInvented
<1>1. Init => CountInv
  <2> SUFFICES ASSUME Init PROVE CountInv
    OBVIOUS
  <2>1. /\ Len(container[1]) + Len(container[2]) = 0 /\ Len(wire) = 0
        /\ Taken = 0
    BY DEF Init, Taken
  <2>2. FLOAT_BYTES \in Nat
    BY StreamAssumption
  <2>3. 0 * FLOAT_BYTES + 0 <= 0 * FLOAT_BYTES
    BY <2>2
  <2> QED
    BY <2>1, <2>3, Zenon DEF CountInv
<1>2. BaseInv /\ CountInv => NothingInvented
  <2> SUFFICES ASSUME BaseInv, CountInv PROVE NothingInvented
    OBVIOUS
  <2> DEFINE F == FLOAT_BYTES
             got == Len(container[1]) + Len(container[2])
             all == Len(Cells(samples[1])) + Len(Cells(samples[2]))
  <2>1. /\ F \in Nat \ {0} /\ got \in Nat /\ all \in Nat /\ Len(wire) \in Nat
        /\ Taken \in Nat /\ Taken <= all
    <3>1. F \in Nat \ {0}
      BY StreamAssumption
    <3> QED
      BY <3>1, Lengths, TakenBound, Zenon DEF BaseInv
  <2>2. got * F + Len(wire) <= Taken * F
    BY DEF CountInv
  <2> HIDE DEF F, got, all
  <2>3. got <= Taken
    <3> SUFFICES ASSUME Taken + 1 <= got PROVE FALSE
      BY <2>1
    <3>1. (Taken + 1) * F <= got * F
      BY <2>1, MulMono
    <3>2. (Taken + 1) * F = Taken * F + F
      BY <2>1
    <3>3. Taken * F \in Nat /\ got * F \in Nat
      BY <2>1
    <3> QED
      BY <2>1, <2>2, <3>1, <3>2, <3>3
  <2>4. got <= all
    BY <2>1, <2>3
  <2> QED
    BY <2>4 DEF NothingInvented, got, all
<1> QED
  BY <1>1, <1>2, SpecBase, NextCount, PTL DEF Spec

-----------------------------------------------------------------------------
(***************************************************************************)
(* A channel under way                                                     *)
(*                                                                         *)
(* While recv_audio reads channel c, all its reads have been full chunks,  *)
(* and the wire carries the samples of c from there to w.  While           *)
(* send_audio writes c (snd = busy), w is its cursor; once it has finished *)
(* with c (snd = after), w is the end of the channel or, the last chunk    *)
(* being lost, a whole number of chunks.                                   *)
(***************************************************************************)
FeedingTo(c, busy, after, w) ==
  /\ Multiple(Len(container[c]))
  /\ Len(container[c]) <= w /\ w <= Len(samples[c])
  /\ Carries(wire, samples[c], Len(container[c]), w)
  /\ snd \in {busy, after}
  /\ snd = busy => w = buffer_idx
  /\ snd = after => w = Len(samples[c]) \/ Multiple(w)

Feeding(c, busy, after) == \E w \in Nat : FeedingTo(c, busy, after, w)

\* Agreeing sample by sample is being a prefix.
LEMMA AgreesPrefix ==
  ASSUME NEW t \in Seq(Float), NEW s \in Seq(Sample), Agrees(t, s)
  PROVE  IsPrefix(t, s)
BY DEF Agrees, IsPrefix

\* Writing a chunk feeds the channel that is being written.
LEMMA SendFeeds ==
  ASSUME BaseInv, NonEmpty, SendChunk,
         NEW busy \in {"left", "right"}, NEW after, snd = busy,
         after = IF busy = "left" THEN "await" ELSE "true",
         Feeding(Channel(busy), busy, after)
  PROVE  Feeding(Channel(busy), busy, after)'
<1> DEFINE c == Channel(busy)
           s == samples[c]
           n == ChunkLen(s, buffer_idx)
           lo == Len(container[c])
<1>1. /\ c \in 1 .. 2 /\ s \in Seq(Sample) /\ wire \in Seq(Byte)
      /\ lo \in Nat /\ buffer_idx \in Nat /\ CHUNK_SIZE \in Nat \ {0}
  BY StreamAssumption DEF BaseInv, TypeOK, Channel
<1>2. Cells(s) = s
  BY <1>1 DEF NonEmpty, Cells
<1>3. Multiple(buffer_idx) /\ buffer_idx < Len(s)
  BY <1>2 DEF BaseInv, Cursor
<1>4. FeedingTo(c, busy, after, buffer_idx)
  BY DEF Feeding, FeedingTo
<1>5. /\ n \in Nat /\ buffer_idx + n <= Len(s)
      /\ ~LastChunk(s, buffer_idx) =>
           n = CHUNK_SIZE /\ buffer_idx + CHUNK_SIZE < Len(s)
      /\ LastChunk(s, buffer_idx) =>
           buffer_idx + n = Len(s) \/ Multiple(buffer_idx + n)
  BY <1>1, <1>2, <1>3, ChunkShape
<1>6. Chunk(s, buffer_idx) = SubSeq(s, buffer_idx + 1, buffer_idx + n)
  BY <1>2 DEF Chunk
<1>7. /\ wire' = wire \o AudioBytes(Chunk(s, buffer_idx))
      /\ UNCHANGED <<samples, container>>
      /\ LastChunk(s, buffer_idx) => snd' = after
      /\ ~LastChunk(s, buffer_idx) =>
           snd' = snd /\ buffer_idx' = buffer_idx + CHUNK_SIZE
  BY DEF SendChunk
<1>8. PICK w \in Nat : w = buffer_idx + n
  BY <1>1, <1>5
<1>9. PICK l \in Nat : l = lo
  BY <1>1
<1>10. Multiple(l) /\ l <= buffer_idx /\ Carries(wire, s, l, buffer_idx)
  BY <1>4, <1>9 DEF FeedingTo
<1> HIDE DEF n, lo, s, c
<1>11. Carries(wire', s, l, w)
  <2>1. buffer_idx <= w /\ w <= Len(s) /\ s \in Seq(Float)
    BY <1>1, <1>5, <1>8 DEF Float
  <2> QED
    BY <1>1, <1>6, <1>7, <1>8, <1>9, <1>10, <2>1, CarriesAppend
<1>12. Len(container[c])' = l /\ samples[c]' = s
  BY <1>7, <1>9 DEF lo, s
<1>13. l <= w /\ w <= Len(s)
  BY <1>1, <1>5, <1>8, <1>9, <1>10
<1>14. /\ snd' \in {busy, after}
       /\ snd' = busy => w = buffer_idx'
       /\ snd' = after => w = Len(s) \/ Multiple(w)
  BY <1>5, <1>7, <1>8
<1>15. FeedingTo(c, busy, after, w)'
  BY <1>10, <1>11, <1>12, <1>13, <1>14 DEF FeedingTo
<1> QED
  BY <1>15 DEF Feeding, c

\* What one read of recv_audio does to channel c: the container still agrees
\* with the channel; a full chunk leaves the channel under way; and when reads
\* are never cut short, a short chunk is the end of the channel.
LEMMA ReadFeeds ==
  ASSUME BaseInv, NonEmpty,
         NEW busy \in {"left", "right"}, NEW after,
         NEW c \in 1 .. 2, c = Channel(busy),
         Feeding(c, busy, after), Agrees(container[c], samples[c]),
         NEW n \in ReadSizes(Len(wire), CHUNK_SIZE * FLOAT_BYTES),
         NEW floats, floats = Floats(SubSeq(wire, 1, n)),
         container' = [container EXCEPT ![c] = @ \o floats],
         wire' = Rest(wire, n), UNCHANGED <<samples, snd, buffer_idx>>
  PROVE  /\ Agrees(container[c], samples[c])'
         /\ ~(Len(floats) < CHUNK_SIZE) => Feeding(c, busy, after)'
         /\ (Len(floats) < CHUNK_SIZE /\ ~ShortReads) =>
              /\ container'[c] = samples[c] /\ wire' = <<>>
              /\ snd = after
<1>1. PICK w \in Nat : FeedingTo(c, busy, after, w)
  BY DEF Feeding
<1> DEFINE s == samples[c]
           lo == Len(container[c])
<1>2. /\ s \in Seq(Sample) /\ wire \in Seq(Byte) /\ lo \in Nat
      /\ container[c] \in Seq(Float) /\ container \in [1 .. 2 -> Seq(Float)]
  BY DEF BaseInv, TypeOK
<1>2a. s \in Seq(Float)
  BY <1>2 DEF Float
<1>3. Multiple(lo) /\ lo <= w /\ w <= Len(s) /\ Carries(wire, s, lo, w)
  BY <1>1 DEF FeedingTo
<1>4. snd = busy => Multiple(w) /\ w < Len(s)
  <2>1. Cells(s) = s
    BY <1>2 DEF NonEmpty, Cells
  <2> QED
    BY <1>1, <2>1 DEF FeedingTo, BaseInv, Cursor
<1>5. w = Len(s) \/ Multiple(w)
  BY <1>1, <1>4 DEF FeedingTo
<1> HIDE DEF s, lo
<1>6. /\ floats \in Seq(Float)
      /\ lo + Len(floats) <= w
      /\ \A i \in 1 .. Len(floats) : floats[i] = s[lo + i]
      /\ ~(Len(floats) < CHUNK_SIZE) =>
           /\ Multiple(lo + Len(floats))
           /\ Carries(Rest(wire, n), s, lo + Len(floats), w)
      /\ (Len(floats) < CHUNK_SIZE /\ ~ShortReads) =>
           lo + Len(floats) = Len(s) /\ Rest(wire, n) = <<>>
  <2>1. ReadOutcome(s, wire, lo, w, n)
    BY <1>2, <1>2a, <1>3, ReadStep
  <2> QED
    BY <1>5, <2>1 DEF ReadOutcome
<1>7. container'[c] = container[c] \o floats /\ samples'[c] = s
  BY <1>2 DEF s
<1>8. /\ container'[c] \in Seq(Float)
      /\ Len(container'[c]) = lo + Len(floats)
      /\ \A i \in 1 .. lo : container'[c][i] = container[c][i]
      /\ \A i \in 1 .. Len(floats) : container'[c][lo + i] = floats[i]
  BY <1>2, <1>6, <1>7, ConcatShape DEF lo
<1>9. Agrees(container'[c], s)
  <2>1. Agrees(container[c], s) /\ lo + Len(floats) <= Len(s)
    BY <1>2, <1>3, <1>6 DEF s
  <2> QED
    BY <1>2, <1>2a, <1>6, <1>7, <2>1, AgreesMore DEF lo
<1>10. ASSUME ~(Len(floats) < CHUNK_SIZE)
       PROVE  Feeding(c, busy, after)'
  <2>1. /\ Multiple(Len(container'[c])) /\ Len(container'[c]) <= w
        /\ Carries(wire', s, Len(container'[c]), w)
    BY <1>6, <1>8, <1>10
  <2>2. FeedingTo(c, busy, after, w)'
    BY <1>1, <1>3, <1>7, <2>1 DEF FeedingTo, s
  <2> QED
    BY <2>2 DEF Feeding
<1>11. ASSUME Len(floats) < CHUNK_SIZE, ~ShortReads
       PROVE  container'[c] = s /\ wire' = <<>> /\ snd = after
  <2>1. Len(container'[c]) = Len(s) /\ wire' = <<>>
    BY <1>6, <1>8, <1>11
  <2>2. container'[c] = s
    BY <1>2a, <1>8, <1>9, <2>1, AgreesAll
  <2>3. snd # busy
    BY <1>2, <1>4, <1>6, <1>11
  <2> QED
    BY <1>1, <2>1, <2>2, <2>3 DEF FeedingTo
<1> QED
  BY <1>7, <1>9, <1>10, <1>11 DEF s

-----------------------------------------------------------------------------
(***************************************************************************)
(* The left channel, for every way of reading                              *)
(***************************************************************************)
LeftInv ==
  NonEmpty =>
    /\ snd # "aborted" /\ rcv # "aborted"
    /\ Agrees(container[1], samples[1])
    /\ rcv = "left" => Feeding(1, "left", "await")

\* The initial states satisfy the invariant.
LEMMA InitLeft == Init => LeftInv
<1> SUFFICES ASSUME Init PROVE LeftInv
  OBVIOUS
<1>1. samples[1] \in Seq(Sample)
  BY BuffersAssumption DEF Init
<1>2. Carries(<<>>, samples[1], 0, 0) /\ Multiple(0)
  <2>1. samples[1] \in Seq(Float)
    BY <1>1 DEF Float
  <2> QED
    BY <2>1, FeedingStarts
<1>3. container[1] = <<>> /\ Len(<<>>) = 0
  BY DEF Init
<1>4. FeedingTo(1, "left", "await", 0)
  BY <1>1, <1>2, <1>3 DEF Init, FeedingTo
<1>5. Agrees(container[1], samples[1])
  BY <1>1, <1>3 DEF Agrees
<1> QED
  BY <1>4, <1>5 DEF Init, LeftInv, Feeding

\* Every step preserves it.
LEMMA NextLeft == BaseInv /\ LeftInv /\ [Next]_vars => LeftInv'
<1> SUFFICES ASSUME BaseInv, LeftInv, [Next]_vars, NonEmpty'
             PROVE  /\ snd' # "aborted" /\ rcv' # "aborted"
                    /\ Agrees(container[1], samples[1])'
                    /\ rcv' = "left" => Feeding(1, "left", "await")'
  BY DEF LeftInv
<1>1. samples' = samples
  BY DEF Next, Sender, Receiver, SendChunk, SendAborts, RecvConfirmation,
         RecvChunk, RecvThrows, SendConfirmation, vars
<1>2. NonEmpty
  BY <1>1 DEF NonEmpty
<1>3. /\ snd # "aborted" /\ rcv # "aborted"
      /\ Agrees(container[1], samples[1])
      /\ rcv = "left" => Feeding(1, "left", "await")
  BY <1>2 DEF LeftInv
<1>4. CASE SendChunk
  <2>1. snd' # "aborted" /\ UNCHANGED <<rcv, container>>
    BY <1>4 DEF SendChunk
  <2>2. ASSUME rcv = "left" PROVE Feeding(1, "left", "await")'
    <3>1. snd = "left" /\ Channel("left") = 1
      BY <1>4, <2>2 DEF SendChunk, BaseInv, Order, Channel
    <3>2. Feeding(Channel("left"), "left", "await")
      BY <1>3, <2>2, <3>1
    <3>3. Feeding(Channel("left"), "left", "await")'
      BY <1>2, <1>4, <3>1, <3>2, SendFeeds
    <3> QED
      BY <3>1, <3>3 DEF Channel
  <2> QED
    BY <1>1, <1>3, <2>1, <2>2
<1>5. CASE SendAborts
  <2>1. Channel(snd) \in 1 .. 2
    BY DEF Channel
  <2> QED
    BY <1>2, <1>5, <2>1 DEF SendAborts, NonEmpty
<1>6. CASE RecvConfirmation
  <2>1. PICK n \in ReadSizes(Len(ack), RECV_CAP) : TRUE
    BY <1>6 DEF RecvConfirmation
  <2>2. ack # <<>>
    BY <2>1, ReadType, StreamAssumption DEF BaseInv, TypeOK
  <2>3. rcv # "left"
    BY <2>2 DEF BaseInv, Order
  <2> QED
    BY <1>1, <1>3, <1>6, <2>3 DEF RecvConfirmation
<1>7. CASE RecvChunk
  <2>1. PICK n \in ReadSizes(Len(wire), CHUNK_SIZE * FLOAT_BYTES) :
          LET floats == Floats(SubSeq(wire, 1, n)) IN
          /\ container' = [container EXCEPT ![Channel(rcv)] = @ \o floats]
          /\ wire' = Rest(wire, n)
          /\ rcv' = IF Len(floats) < CHUNK_SIZE
                    THEN IF rcv = "left" THEN "confirm" ELSE "returned"
                    ELSE rcv
    BY <1>7 DEF RecvChunk
  <2>2. rcv \in {"left", "right"} /\ UNCHANGED <<samples, snd, buffer_idx, ack>>
    BY <1>7 DEF RecvChunk
  <2>3. CASE rcv = "left"
    <3>1. Channel("left") = 1 /\ Feeding(1, "left", "await")
      BY <1>3, <2>3 DEF Channel
    <3>2. /\ Agrees(container[1], samples[1])'
          /\ ~(Len(Floats(SubSeq(wire, 1, n))) < CHUNK_SIZE) =>
               Feeding(1, "left", "await")'
      <4> DEFINE floats == Floats(SubSeq(wire, 1, n))
      <4>1. container' = [container EXCEPT ![1] = @ \o floats]
        BY <2>1, <2>3, <3>1
      <4>2. wire' = Rest(wire, n)
        BY <2>1
      <4>3. UNCHANGED <<samples, snd, buffer_idx>>
        BY <2>2
      <4>4. Agrees(container[1], samples[1]) /\ 1 \in 1 .. 2
        BY <1>3
      <4> QED
        BY <1>2, <3>1, <4>1, <4>2, <4>3, <4>4, ReadFeeds
    <3> QED
      BY <1>3, <2>1, <2>2, <2>3, <3>2
  <2>4. CASE rcv = "right"
    <3>1. container'[1] = container[1]
      BY <2>1, <2>4 DEF Channel, BaseInv, TypeOK
    <3> QED
      BY <1>1, <1>3, <2>1, <2>2, <2>4, <3>1
  <2> QED
    BY <2>2, <2>3, <2>4
<1>8. CASE RecvThrows
  BY <1>3, <1>8 DEF RecvThrows
<1>9. CASE SendConfirmation
  BY <1>1, <1>3, <1>9 DEF SendConfirmation
<1>10. CASE UNCHANGED vars
  BY <1>3, <1>10 DEF vars, Feeding, FeedingTo
<1> QED
  BY <1>4, <1>5, <1>6, <1>7, <1>8, <1>9, <1>10 DEF Next, Sender, Receiver

\* The left invariant holds in every reachable state.
LEMMA SpecLeft == Spec => [](BaseInv /\ LeftInv)
BY InitBase, NextBase, InitLeft, NextLeft, PTL DEF Spec

\* Whatever way TCP cuts the streams into reads, recv_audio's left channel is
\* at every moment a prefix of the left channel given to send_audio.
THEOREM LeftStaysPrefix == Spec => []LeftIsPrefix
<1>1. BaseInv /\ LeftInv => LeftIsPrefix
  <2> SUFFICES ASSUME BaseInv, LeftInv, NonEmpty
               PROVE  IsPrefix(container[1], samples[1])
    BY DEF LeftIsPrefix
  <2>1. container[1] \in Seq(Float) /\ samples[1] \in Seq(Sample)
    BY DEF BaseInv, TypeOK
  <2>2. Agrees(container[1], samples[1])
    BY DEF LeftInv
  <2> QED
    BY <2>1, <2>2, AgreesPrefix
<1> QED
  BY <1>1, SpecLeft, PTL

-----------------------------------------------------------------------------
(***************************************************************************)
(* Whole reads: both channels arrive                                       *)
(***************************************************************************)
RightUnderWay ==
  \/ /\ snd \in {"await", "false"} /\ wire = <<>> /\ container[2] = <<>>
     /\ snd = "await" => ack = TextBytes("CONFIRMED")
  \/ /\ ack = <<>> /\ Agrees(container[2], samples[2])
     /\ Feeding(2, "right", "true")

WholeInv ==
  (NonEmpty /\ ~ShortReads) =>
    /\ rcv # "left" => container[1] = samples[1]
    /\ rcv = "confirm" => snd = "await" /\ wire = <<>>
    /\ rcv = "right" => RightUnderWay
    /\ rcv = "returned" => /\ container[2] = samples[2]
                           /\ wire = <<>> /\ ack = <<>> /\ snd = "true"

\* Every step preserves the invariant; the initial states satisfy it because
\* the receiver is still in its first loop.
LEMMA NextWhole == BaseInv /\ LeftInv /\ WholeInv /\ [Next]_vars => WholeInv'
<1> SUFFICES ASSUME BaseInv, LeftInv, WholeInv, [Next]_vars,
                    NonEmpty', ~ShortReads
             PROVE  /\ rcv' # "left" => container'[1] = samples'[1]
                    /\ rcv' = "confirm" => snd' = "await" /\ wire' = <<>>
                    /\ rcv' = "right" => RightUnderWay'
                    /\ rcv' = "returned" =>
                         /\ container'[2] = samples'[2]
                         /\ wire' = <<>> /\ ack' = <<>> /\ snd' = "true"
  BY DEF WholeInv
<1>1. samples' = samples
  BY DEF Next, Sender, Receiver, SendChunk, SendAborts, RecvConfirmation,
         RecvChunk, RecvThrows, SendConfirmation, vars
<1>2. NonEmpty
  BY <1>1 DEF NonEmpty
<1>3. /\ rcv # "left" => container[1] = samples[1]
      /\ rcv = "confirm" => snd = "await" /\ wire = <<>>
      /\ rcv = "right" => RightUnderWay
      /\ rcv = "returned" => /\ container[2] = samples[2]
                             /\ wire = <<>> /\ ack = <<>> /\ snd = "true"
  BY <1>2 DEF WholeInv
<1>4. /\ snd # "aborted" /\ rcv # "aborted"
      /\ Agrees(container[1], samples[1])
      /\ rcv = "left" => Feeding(1, "left", "await")
  BY <1>2 DEF LeftInv
<1>5. CASE SendChunk
  <2>1. snd \in {"left", "right"} /\ UNCHANGED <<rcv, container, ack>>
    BY <1>5 DEF SendChunk
  <2>2. ASSUME rcv = "right" PROVE RightUnderWay'
    <3>1. /\ ack = <<>> /\ Agrees(container[2], samples[2])
          /\ Feeding(2, "right", "true")
      BY <1>3, <2>1, <2>2 DEF RightUnderWay
    <3>2. snd = "right" /\ Channel("right") = 2
      BY <2>1, <3>1 DEF Feeding, FeedingTo, Channel
    <3>3. Feeding(Channel("right"), "right", "true")
      BY <3>1, <3>2
    <3>4. Feeding(Channel("right"), "right", "true")'
      BY <1>2, <1>5, <3>2, <3>3, SendFeeds
    <3>5. Feeding(2, "right", "true")'
      BY <3>2, <3>4
    <3> QED
      BY <1>1, <2>1, <3>1, <3>5 DEF RightUnderWay
  <2> QED
    BY <1>1, <1>3, <2>1, <2>2
<1>6. CASE SendAborts
  <2>1. Channel(snd) \in 1 .. 2
    BY DEF Channel
  <2> QED
    BY <1>2, <1>6, <2>1 DEF SendAborts, NonEmpty
<1>7. CASE RecvConfirmation
  <2>1. PICK n \in ReadSizes(Len(ack), RECV_CAP) :
          /\ snd' = IF SubSeq(ack, 1, n) = TextBytes("CONFIRMED")
                    THEN "right" ELSE "false"
          /\ ack' = Rest(ack, n)
    BY <1>7 DEF RecvConfirmation
  <2>2. snd = "await" /\ UNCHANGED <<samples, buffer_idx, wire, rcv, container>>
    BY <1>7 DEF RecvConfirmation
  <2>3. n \in 1 .. Len(ack) /\ ack # <<>>
    BY ReadType, StreamAssumption DEF BaseInv, TypeOK
  <2>4. rcv = "right"
    BY <1>3, <1>4, <2>2, <2>3 DEF BaseInv, Order, TypeOK, ReceiverLabel
  <2>5. /\ wire = <<>> /\ container[2] = <<>>
        /\ ack = TextBytes("CONFIRMED")
    BY <1>3, <2>2, <2>4 DEF RightUnderWay, Feeding, FeedingTo
  <2>6. CASE snd' = "false"
    BY <1>1, <1>3, <2>2, <2>4, <2>5, <2>6 DEF RightUnderWay
  <2>7. CASE snd' = "right"
    <3>1. SubSeq(ack, 1, n) = ack
      BY <2>1, <2>5, <2>7
    <3>2. ack \in Seq(Byte) /\ n = Len(ack)
      <4>1. ack \in Seq(Byte)
        BY DEF BaseInv, TypeOK
      <4>2. Len(SubSeq(ack, 1, n)) = n
        BY <2>3, <4>1
      <4> QED
        BY <3>1, <4>1, <4>2
    <3>3. ack' = <<>>
      BY <2>1, <3>2 DEF Rest
    <3>4. samples[2] \in Seq(Sample) /\ Len(<<>>) = 0 /\ buffer_idx = 0
      BY <2>2 DEF BaseInv, TypeOK, Cursor
    <3>5. Carries(<<>>, samples[2], 0, 0) /\ Multiple(0)
      <4>1. samples[2] \in Seq(Float)
        BY <3>4 DEF Float
      <4> QED
        BY <4>1, FeedingStarts
    <3>6. Feeding(2, "right", "true")'
      <4>1. FeedingTo(2, "right", "true", 0)'
        BY <2>2, <2>5, <2>7, <3>4, <3>5 DEF FeedingTo
      <4> QED
        BY <4>1 DEF Feeding
    <3>7. Agrees(container[2], samples[2])'
      BY <2>2, <2>5, <3>4 DEF Agrees
    <3> QED
      BY <1>1, <1>3, <2>2, <2>4, <3>3, <3>6, <3>7 DEF RightUnderWay
  <2> QED
    BY <2>1, <2>6, <2>7
<1>8. CASE RecvChunk
  <2>1. PICK n \in ReadSizes(Len(wire), CHUNK_SIZE * FLOAT_BYTES) :
          LET floats == Floats(SubSeq(wire, 1, n)) IN
          /\ container' = [container EXCEPT ![Channel(rcv)] = @ \o floats]
          /\ wire' = Rest(wire, n)
          /\ rcv' = IF Len(floats) < CHUNK_SIZE
                    THEN IF rcv = "left" THEN "confirm" ELSE "returned"
                    ELSE rcv
    BY <1>8 DEF RecvChunk
  <2> DEFINE floats == Floats(SubSeq(wire, 1, n))
  <2>2. rcv \in {"left", "right"} /\ UNCHANGED <<samples, snd, buffer_idx, ack>>
    BY <1>8 DEF RecvChunk
  <2>3. CASE rcv = "left"
    <3>1. Channel("left") = 1 /\ Feeding(1, "left", "await") /\ 1 \in 1 .. 2
      BY <1>4, <2>3 DEF Channel
    <3>2. /\ container' = [container EXCEPT ![1] = @ \o floats]
          /\ wire' = Rest(wire, n)
      BY <2>1, <2>3, <3>1
    <3>3. UNCHANGED <<samples, snd, buffer_idx>>
      BY <2>2
    <3>4. (Len(floats) < CHUNK_SIZE /\ ~ShortReads) =>
            container'[1] = samples[1] /\ wire' = <<>> /\ snd = "await"
      BY <1>2, <1>4, <3>1, <3>2, <3>3, ReadFeeds
    <3> QED
      BY <1>1, <2>1, <2>2, <2>3, <3>4
  <2>4. CASE rcv = "right"
    <3>1. wire # <<>>
      <4>1. wire \in Seq(Byte) /\ CHUNK_SIZE * FLOAT_BYTES \in Nat \ {0}
        BY StreamAssumption DEF BaseInv, TypeOK
      <4> QED
        BY <4>1, ReadType
    <3>2. /\ ack = <<>> /\ Agrees(container[2], samples[2])
          /\ Feeding(2, "right", "true")
      BY <1>3, <2>4, <3>1 DEF RightUnderWay
    <3>3. Channel("right") = 2 /\ 2 \in 1 .. 2
      BY DEF Channel
    <3>4. /\ container' = [container EXCEPT ![2] = @ \o floats]
          /\ wire' = Rest(wire, n)
      BY <2>1, <2>4, <3>3
    <3>5. UNCHANGED <<samples, snd, buffer_idx>>
      BY <2>2
    <3>6. /\ Agrees(container[2], samples[2])'
          /\ ~(Len(floats) < CHUNK_SIZE) => Feeding(2, "right", "true")'
          /\ (Len(floats) < CHUNK_SIZE /\ ~ShortReads) =>
               container'[2] = samples[2] /\ wire' = <<>> /\ snd = "true"
      BY <1>2, <3>2, <3>3, <3>4, <3>5, ReadFeeds
    <3>7. container'[1] = container[1]
      BY <3>4 DEF BaseInv, TypeOK
    <3>8. CASE Len(floats) < CHUNK_SIZE
      BY <1>1, <1>3, <2>1, <2>2, <2>4, <3>2, <3>6, <3>7, <3>8
    <3>9. CASE ~(Len(floats) < CHUNK_SIZE)
      BY <1>1, <1>3, <2>1, <2>2, <2>4, <3>2, <3>6, <3>7, <3>9
         DEF RightUnderWay
    <3> QED
      BY <3>8, <3>9
  <2> QED
    BY <2>2, <2>3, <2>4
<1>9. CASE RecvThrows
  BY <1>4, <1>9 DEF RecvThrows
<1>10. CASE SendConfirmation
  <2>1. /\ rcv = "confirm" /\ rcv' = "right"
        /\ ack' = ack \o TextBytes("CONFIRMED")
        /\ UNCHANGED <<samples, snd, buffer_idx, wire, container>>
    BY <1>10 DEF SendConfirmation
  <2>2. ack = <<>> /\ container[2] = <<>>
    BY <2>1 DEF BaseInv, Order
  <2>3. TextBytes("CONFIRMED") \in Seq(Byte)
    BY TextType DEF Message
  <2>4. ack' = TextBytes("CONFIRMED")
    BY <2>1, <2>2, <2>3
  <2> QED
    BY <1>1, <1>3, <2>1, <2>2, <2>4 DEF RightUnderWay
<1>11. CASE UNCHANGED vars
  BY <1>3, <1>11 DEF vars, RightUnderWay, Feeding, FeedingTo
<1> QED
  BY <1>5, <1>6, <1>7, <1>8, <1>9, <1>10, <1>11 DEF Next, Sender, Receiver

\* All three invariants hold in every reachable state.
LEMMA SpecWhole == Spec => [](BaseInv /\ LeftInv /\ WholeInv)
<1>1. Init => WholeInv
  BY DEF Init, WholeInv
<1> QED
  BY <1>1, InitBase, NextBase, InitLeft, NextLeft, NextWhole, PTL DEF Spec

\* A stereo buffer as a function of its two channels.
LEMMA BothChannels ==
  ASSUME BaseInv, container[1] = samples[1], container[2] = samples[2]
  PROVE  container = samples
BY DEF BaseInv, TypeOK

\* When no read is cut short, a recv_audio that returns has the buffer given
\* to send_audio, whatever its length.
THEOREM WholeTransfer ==
  ASSUME ~ShortReads
  PROVE  Spec => []ReturnedIsSent
<1>1. BaseInv /\ LeftInv /\ WholeInv => ReturnedIsSent
  BY BothChannels DEF WholeInv, ReturnedIsSent
<1> QED
  BY <1>1, SpecWhole, PTL

\* When no read is cut short, a recv_audio that returns leaves both streams
\* empty for the next call on the connection.
THEOREM DrainedTransfer ==
  ASSUME ~ShortReads
  PROVE  Spec => []DrainedAtReturn
<1>1. BaseInv /\ LeftInv /\ WholeInv => DrainedAtReturn
  BY DEF WholeInv, DrainedAtReturn
<1> QED
  BY <1>1, SpecWhole, PTL

-----------------------------------------------------------------------------
(***************************************************************************)
(* The transfer implements AudioHandoff                                    *)
(***************************************************************************)
BuffersNonEmpty == \A b \in Buffers : \A c \in 1 .. 2 : b[c] # <<>>

\* Every step of a transfer is a Deliver or changes nothing that AudioHandoff
\* sees: the end of the left loop delivers the left channel, the end of the
\* right loop the right channel.
LEMMA StepDelivers ==
  ASSUME ~ShortReads, BaseInv, LeftInv, WholeInv, NonEmpty,
         (BaseInv /\ LeftInv /\ WholeInv)', [Next]_vars
  PROVE  [Handoff!Deliver]_(Handoff!handoffVars)
<1>1. samples' = samples
  BY DEF Next, Sender, Receiver, SendChunk, SendAborts, RecvConfirmation,
         RecvChunk, RecvThrows, SendConfirmation, vars
<1>2. NonEmpty'
  BY <1>1 DEF NonEmpty
<1>3. /\ rcv # "aborted"
      /\ rcv' \notin {"left", "aborted"} => container'[1] = samples[1]
      /\ rcv' = "returned" => container'[2] = samples[2]
      /\ rcv # "left" => container[1] = samples[1]
      /\ rcv = "returned" => container[2] = samples[2]
  BY <1>1, <1>2 DEF LeftInv, WholeInv
<1>4. rcv \in ReceiverLabel
  BY DEF BaseInv, TypeOK
<1>5. SUFFICES \/ Delivered' = Delivered
               \/ /\ Len(Delivered) < 2
                  /\ Delivered' = Append(Delivered, samples[Len(Delivered) + 1])
  BY <1>1 DEF Handoff!Deliver, Handoff!handoffVars
<1>6. CASE rcv' = rcv
  BY <1>3, <1>4, <1>6 DEF Delivered, ReceiverLabel
<1>7. CASE rcv = "left" /\ rcv' = "confirm"
  <2>1. Delivered = <<>> /\ Delivered' = <<samples[1]>>
    BY <1>3, <1>7 DEF Delivered
  <2> QED
    BY <2>1
<1>8. CASE rcv = "confirm" /\ rcv' = "right"
  BY <1>3, <1>8 DEF Delivered
<1>9. CASE rcv = "right" /\ rcv' = "returned"
  <2>1. Delivered = <<samples[1]>> /\ Delivered' = <<samples[1], samples[2]>>
    BY <1>3, <1>9 DEF Delivered
  <2> QED
    BY <2>1
<1>10. \/ rcv' = rcv
       \/ rcv = "left" /\ rcv' = "confirm"
       \/ rcv = "confirm" /\ rcv' = "right"
       \/ rcv = "right" /\ rcv' = "returned"
  <2>1. ~RecvThrows
    BY DEF RecvThrows, LeftInv
  <2> QED
    BY <2>1 DEF Next, Sender, Receiver, SendChunk, SendAborts,
         RecvConfirmation, RecvChunk, SendConfirmation, vars
<1> QED
  BY <1>6, <1>7, <1>8, <1>9, <1>10

\* When no read is cut short and no channel is empty, a call of send_audio
\* with a call of recv_audio implements the hand-over of whole channels.
THEOREM TransferImplementsHandoff ==
  ASSUME ~ShortReads, BuffersNonEmpty
  PROVE  Spec => ImplementsHandoff
<1>1. Init => Handoff!HandoffInit
  BY DEF Init, Handoff!HandoffInit, Delivered
<1>2. Init => samples \in Buffers
  BY DEF Init
<1>3. samples \in Buffers /\ [Next]_vars => (samples \in Buffers)'
  BY DEF Next, Sender, Receiver, SendChunk, SendAborts, RecvConfirmation,
         RecvChunk, RecvThrows, SendConfirmation, vars
<1>4. samples \in Buffers => NonEmpty
  BY DEF BuffersNonEmpty, NonEmpty
<1>5. BaseInv /\ LeftInv /\ WholeInv /\ NonEmpty /\
      (BaseInv /\ LeftInv /\ WholeInv)' /\ [Next]_vars
        => [Handoff!Deliver]_(Handoff!handoffVars)
  BY StepDelivers
<1> QED
  BY <1>1, <1>2, <1>3, <1>4, <1>5, SpecWhole, PTL
     DEF Spec, ImplementsHandoff, Handoff!HandoffSpec
==============================================================================
