------------------------------- MODULE Stretch -------------------------------
(***************************************************************************)
(* The stretch service: main of stretch.cpp, and sola, which copies flat   *)
(* sections of the input to the output and blends the tail of each frame   *)
(* with the head of the next one.                                          *)
(*                                                                         *)
(* One channel is modelled; sola treats both alike and takes the sizes     *)
(* from the first.  A cell says where its sample comes from: <<i>> is      *)
(* sample i of the audio that was received, <<i, j, k>> the blend of i and *)
(* j with weight k of overlap_size for j, and <<>> a zero from a resize.   *)
(* Ratios are in percent, NaN is the float that atof makes of "nan".       *)
(* Sizes are size_t (Word values); frame_skip and what sola computes from  *)
(* it alone are unsigned int (UInt values).                                *)
(***************************************************************************)
EXTENDS Integers, Sequences

CONSTANTS
  frame_size, overlap_size,   \* 4000 and 800 samples in the code
  Word,                       \* values of size_t: 2^64 in the x64 build
  UInt,                       \* values of unsigned int: 2^32
  Memory,                     \* the largest vector that can be allocated
  Length,                     \* lengths of the audio that is sent
  NaN,                        \* not a number
  NaNSkip,                    \* what converting a NaN to int may give
  Ratio                       \* ratios that are asked for, in percent, or NaN

ASSUME StretchAssumption ==
  /\ frame_size \in Nat /\ overlap_size \in Nat \ {0}
  /\ 3 * overlap_size <= frame_size
  /\ frame_size <= 7 * overlap_size
  /\ Word \in Nat /\ UInt \in Nat /\ Memory \in Nat
  /\ 4 * frame_size <= UInt
  /\ Memory + UInt + frame_size <= Word
  /\ Length \subseteq 0 .. Memory
  /\ NaN \notin Int /\ NaNSkip \subseteq 0 .. UInt - 1
  /\ Ratio \subseteq Int \cup {NaN}

VARIABLES
  pc,             \* "ratio", "audio", "loop", "send" or "bad_alloc"
  ratio,          \* stretch_ratio
  frame_skip,
  num_input_samples,
  input_samples, output_samples,
  input_cursor, output_cursor

vars == <<pc, ratio, frame_skip, num_input_samples, input_samples, output_samples,
          input_cursor, output_cursor>>

-----------------------------------------------------------------------------
(***************************************************************************)
(* The values sola derives from its arguments                              *)
(***************************************************************************)
flat_duration == frame_size - 2 * overlap_size

\* The values of frame_skip: the conversion of a NaN to int is undefined.
FrameSkip(r) ==
  IF r = NaN THEN NaNSkip ELSE {((frame_size - overlap_size) * r) \div 100}

LoopBoundOnce == \* mutant: the factor 2 is missing
  (num_input_samples - ((frame_skip + overlap_size) % UInt)) % Word

LoopBoundTwice == \* mutant: one frame more is kept back
  (num_input_samples - ((4 * (frame_skip + overlap_size)) % UInt)) % Word

\* num_input_samples - 2*(frame_skip + overlap_size): the factor is unsigned
\* int, the difference is size_t, and both wrap.
LoopBound ==
  (num_input_samples - ((2 * (frame_skip + overlap_size)) % UInt)) % Word

\* main: 0.5 <= stretch_ratio <= 2.0, for a number; a NaN fails both
\* comparisons and stays.
ClampedOpen(r) == r \* mutant

Clamped(r) ==
  IF r = NaN THEN NaN
  ELSE IF r <= 50 THEN 50 ELSE IF r >= 200 THEN 200 ELSE r

-----------------------------------------------------------------------------
(***************************************************************************)
(* Buffers                                                                 *)
(***************************************************************************)

\* The resize of buffer_copy_part: buf is made at least n long.
Grown(buf, n) ==
  [i \in 1 .. (IF Len(buf) < n THEN n ELSE Len(buf)) |->
     IF i <= Len(buf) THEN buf[i] ELSE <<>>]

\* buffer_copy_part: n cells of buf1 from buf1_idx on.
Part(buf1, buf1_idx, n) == SubSeq(Grown(buf1, buf1_idx + n), buf1_idx + 1, buf1_idx + n)

\* ... put into buf2 from buf2_idx on.
Put(part, buf2, buf2_idx) ==
  LET grown == Grown(buf2, buf2_idx + Len(part))
  IN  [i \in 1 .. Len(grown) |->
         IF i \in buf2_idx + 1 .. buf2_idx + Len(part)
         THEN part[i - buf2_idx]
         ELSE grown[i]]

\* window_buffers: the first sample is all tail, the weight of head grows.
Blend(tail, head) ==
  [k \in 1 .. Len(tail) |-> tail[k] \o head[k] \o <<k - 1>>]

-----------------------------------------------------------------------------
(***************************************************************************)
(* main                                                                    *)
(***************************************************************************)

\* recv_message and atof.
RecvRatio ==
  /\ pc = "ratio"
  /\ \E r \in Ratio : ratio' = Clamped(r)
  /\ pc' = "audio"
  /\ UNCHANGED <<frame_skip, num_input_samples, input_samples, output_samples,
                 input_cursor, output_cursor>>

\* recv_audio, and the entry of sola.
RecvAudio ==
  /\ pc = "audio"
  /\ frame_skip' \in FrameSkip(ratio)
  /\ num_input_samples' \in Length
  /\ input_samples' = [i \in 1 .. num_input_samples' |-> <<i>>]
  /\ output_samples' = <<>>
  /\ input_cursor' = 0 /\ output_cursor' = 0
  /\ pc' = "loop"
  /\ UNCHANGED ratio

\* The ends of the three reads of an iteration.
FlatEnd == input_cursor + flat_duration
TailEnd == FlatEnd + overlap_size
HeadEnd == FlatEnd + frame_skip

InMemory ==
  /\ TailEnd <= Memory /\ HeadEnd <= Memory
  /\ output_cursor + flat_duration + overlap_size <= Memory

FrameNoTail == \* mutant: the overlap is not skipped in the output
  /\ pc = "loop"
  /\ input_cursor <= LoopBound
  /\ InMemory
  /\ LET flat == Part(input_samples, input_cursor, flat_duration)
         tail == Part(input_samples, FlatEnd, overlap_size)
         head == Part(input_samples, HeadEnd - overlap_size, overlap_size)
     IN  output_samples' = Put(flat \o Blend(tail, head), output_samples,
                               output_cursor)
  /\ input_samples' = Grown(Grown(input_samples, TailEnd), HeadEnd)
  /\ input_cursor' = HeadEnd
  /\ output_cursor' = output_cursor + flat_duration
  /\ UNCHANGED <<pc, ratio, frame_skip, num_input_samples>>

\* One iteration of the loop of sola.  Reads past the end of the input grow
\* the input.
Frame ==
  /\ pc = "loop"
  /\ input_cursor <= LoopBound
  /\ InMemory
  /\ LET flat == Part(input_samples, input_cursor, flat_duration)
         tail == Part(input_samples, FlatEnd, overlap_size)
         head == Part(input_samples, HeadEnd - overlap_size, overlap_size)
     IN  output_samples' = Put(flat \o Blend(tail, head), output_samples,
                               output_cursor)
  /\ input_samples' = Grown(Grown(input_samples, TailEnd), HeadEnd)
  /\ input_cursor' = HeadEnd
  /\ output_cursor' = output_cursor + flat_duration + overlap_size
  /\ UNCHANGED <<pc, ratio, frame_skip, num_input_samples>>

\* A resize throws, and nothing catches.
FrameThrows ==
  /\ pc = "loop"
  /\ input_cursor <= LoopBound
  /\ ~InMemory
  /\ pc' = "bad_alloc"
  /\ UNCHANGED <<ratio, frame_skip, num_input_samples, input_samples,
                 output_samples, input_cursor, output_cursor>>

\* The loop ends, and buffer_copy_full replaces the input by the output.
FinishSola ==
  /\ pc = "loop"
  /\ input_cursor > LoopBound
  /\ input_samples' = output_samples
  /\ pc' = "send"
  /\ UNCHANGED <<ratio, frame_skip, num_input_samples, output_samples,
                 input_cursor, output_cursor>>

\* send_audio, and the next request.
SendAudio ==
  /\ pc = "send"
  /\ pc' = "ratio"
  /\ UNCHANGED <<ratio, frame_skip, num_input_samples, input_samples,
                 output_samples, input_cursor, output_cursor>>

Init ==
  /\ pc = "ratio" /\ ratio = 100 /\ frame_skip = 0
  /\ num_input_samples = 0
  /\ input_samples = <<>> /\ output_samples = <<>>
  /\ input_cursor = 0 /\ output_cursor = 0

Sola == Frame \/ FrameThrows \/ FinishSola

Next == RecvRatio \/ RecvAudio \/ Sola \/ SendAudio

Spec == Init /\ [][Next]_vars

(***************************************************************************)
(* The service runs; nothing obliges a client to ask.                      *)
(***************************************************************************)
FairSpec == Spec /\ WF_vars(Sola) /\ WF_vars(SendAudio)

-----------------------------------------------------------------------------
(***************************************************************************)
(* Properties                                                              *)
(***************************************************************************)
\* Types.  The clamp of main keeps every number a client asks for in range,
\* and then the 32-bit factor of the loop bound does not overflow and the head
\* of the next frame does not begin before the tail of this one; only a NaN
\* gets past.
TypeOK ==
  /\ pc \in {"ratio", "audio", "loop", "send", "bad_alloc"}
  /\ ratio \in 50 .. 200 \cup {NaN}
  /\ frame_skip \in 0 .. UInt - 1
  /\ (pc \in {"loop", "send", "bad_alloc"} /\ ratio # NaN) =>
       overlap_size <= frame_skip /\ 2 * (frame_skip + overlap_size) < UInt
  /\ num_input_samples \in 0 .. Memory
  /\ input_cursor \in 0 .. Memory /\ output_cursor \in 0 .. Memory
  /\ Len(input_samples) \in 0 .. Memory
  /\ Len(output_samples) \in 0 .. Memory

\* The ratio is a number, and the subtraction in the loop bound does not wrap.
LongEnough ==
  ratio # NaN /\ 2 * (frame_skip + overlap_size) <= num_input_samples

\* When the loop bound does not wrap, sola reads only samples it was given:
\* the resizes of buffer_copy_part never touch the input, and the program
\* does not run out of memory, for any number the clamp of main lets through.
ReadsInside ==
  (pc \in {"loop", "bad_alloc"} /\ LongEnough) =>
    /\ pc = "loop"
    /\ Len(input_samples) = num_input_samples

\* What synchronous overlap-add is: output position p lies in frame f at
\* offset r; the flat part is copied, and the rest blends two samples that
\* are frame_skip - overlap_size apart.
OverlapAdd(p) ==
  LET hop == flat_duration + overlap_size
      f   == p \div hop
      r   == p % hop
      src == f * (flat_duration + frame_skip) + r + 1
  IN  IF r < flat_duration THEN <<src>>
      ELSE <<src, src + frame_skip - overlap_size, r - flat_duration>>

\* The output of sola is the overlap-add of its input: no gap, no repeated
\* section and no zero from a resize, however cursors and copies interact.
OutputIsOverlapAdd ==
  (pc \in {"loop", "send"} /\ LongEnough) =>
    /\ Len(output_samples) = output_cursor
    /\ \A p \in 0 .. output_cursor - 1 :
         output_samples[p + 1] = OverlapAdd(p)

\* Audio that is long enough comes back stretched.
LongStretchReturns == (pc = "loop" /\ LongEnough) ~> pc = "send"
==============================================================================
