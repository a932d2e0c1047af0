----------------------------- MODULE AudioStream -----------------------------
(***************************************************************************)
(* What the byte streams between two WaveTech services carry.              *)
(*                                                                         *)
(* Pipe.hpp puts text messages and audio samples on the same TCP stream,   *)
(* with no length and no delimiter.  A message is written as the bytes of  *)
(* its text; a channel of audio is written chunk by chunk as the bytes of  *)
(* its floats; the end of a channel is a chunk shorter than CHUNK_SIZE.    *)
(* This module has no variables: it defines what is written for a message, *)
(* what is written for the chunk of a channel that starts at buffer_idx,   *)
(* and what a reader makes of the bytes that one read_some returns.        *)
(*                                                                         *)
(* A byte is a pair <<v, k>>: the k-th byte of the message or float v.     *)
(***************************************************************************)
EXTENDS Integers, Sequences, SequencesExt

CONSTANTS
  CHUNK_SIZE,   \* floats per write of send_audio and per read of recv_audio
  FLOAT_BYTES,  \* sizeof(float)
  MSG_BYTES,    \* bytes of a text message; 2 is enough for a read to split it
  RECV_CAP,     \* Pipe::chunk_size, the most bytes one recv_message reads
  Sample,       \* the values a sample of a sound file may have
  Garbage,      \* a float that is no sample of any file
  ShortReads    \* may read_some return less than what has been written?

ASSUME StreamAssumption ==
  /\ CHUNK_SIZE \in Nat \ {0}
  /\ FLOAT_BYTES \in Nat \ {0}
  /\ MSG_BYTES \in Nat \ {0}
  /\ RECV_CAP \in Nat \ {0}
  /\ Garbage \notin Sample
  /\ ShortReads \in BOOLEAN

Float == Sample \cup {Garbage}

(***************************************************************************)
(* The texts the services send each other.                                 *)
(***************************************************************************)
Message == {"reverse", "stretch", "shift", "exit", "run", "ready", "done",
            "CONFIRMED"}

Byte == (Float \X (1 .. FLOAT_BYTES)) \cup (Message \X (1 .. MSG_BYTES))

(***************************************************************************)
(* asio::buffer(message): the bytes send_message writes.                   *)
(***************************************************************************)
TextBytes(m) == [k \in 1 .. MSG_BYTES |-> <<m, k>>]

(***************************************************************************)
(* asio::buffer(chunked_samples, write_size): the bytes of a vector of     *)
(* floats.                                                                 *)
(***************************************************************************)
AudioBytesUnscaled(s) == s \* mutant: floats are written where bytes belong

AudioBytes(s) ==
  [k \in 1 .. Len(s) * FLOAT_BYTES |->
     <<s[((k - 1) \div FLOAT_BYTES) + 1], ((k - 1) % FLOAT_BYTES) + 1>>]

(***************************************************************************)
(* The i-th float recv_audio finds in the bytes b it has just read.  Bytes *)
(* that are not those of one sample, in order, make some other float.      *)
(***************************************************************************)
FloatAt(b, i) ==
  LET off == (i - 1) * FLOAT_BYTES
      v   == b[off + 1][1]
  IN  IF v \in Sample /\ \A k \in 1 .. FLOAT_BYTES : b[off + k] = <<v, k>>
      THEN v
      ELSE Garbage

(***************************************************************************)
(* num_floats_read floats: the bytes left over by the division are lost.   *)
(***************************************************************************)
Floats(b) == [i \in 1 .. Len(b) \div FLOAT_BYTES |-> FloatAt(b, i)]

-----------------------------------------------------------------------------
(***************************************************************************)
(* The chunk loop of send_audio.                                           *)
(*                                                                         *)
(* The loop body reads samples[c][buffer_idx++] before it compares         *)
(* buffer_idx with the size, so an empty channel is read once, out of      *)
(* bounds.                                                                 *)
(***************************************************************************)
Cells(ch) == IF ch = <<>> THEN <<Garbage>> ELSE ch

(***************************************************************************)
(* write_done: the chunk that starts at idx reaches the end of the         *)
(* channel.                                                                *)
(***************************************************************************)
LastChunk(ch, idx) == idx + CHUNK_SIZE >= Len(Cells(ch))

(***************************************************************************)
(* The floats of the chunk that starts at idx.  The last one is resized to *)
(* buffer_idx % CHUNK_SIZE, buffer_idx being the size of the channel.      *)
(***************************************************************************)
ChunkLen(ch, idx) ==
  IF LastChunk(ch, idx) THEN Len(Cells(ch)) % CHUNK_SIZE ELSE CHUNK_SIZE

Chunk(ch, idx) == SubSeq(Cells(ch), idx + 1, idx + ChunkLen(ch, idx))

-----------------------------------------------------------------------------
(***************************************************************************)
(* The numbers of bytes read_some may return when avail bytes have been    *)
(* written and the caller offers room for cap.  A TCP receiver is promised *)
(* at least one byte.  Without ShortReads every write reaches the reader   *)
(* whole and a read takes all there is room for, as on the loopback        *)
(* interface when nothing interferes.                                      *)
(***************************************************************************)
ReadSizes(avail, cap) ==
  LET most == IF avail <= cap THEN avail ELSE cap
  IN  IF avail = 0 THEN {} ELSE IF ShortReads THEN 1 .. most ELSE {most}

Rest(b, n) == SubSeq(b, n + 1, Len(b))
==============================================================================
