-------------------------------- MODULE Pipe --------------------------------
(***************************************************************************)
(* One call of Pipe::send_audio at one end of a connection and the         *)
(* matching call of Pipe::recv_audio at the other end.                     *)
(*                                                                         *)
(* The sender writes the left channel chunk by chunk, waits for the text   *)
(* CONFIRMED, and writes the right channel.  The receiver takes a read of  *)
(* less than CHUNK_SIZE floats for the end of a channel.  Each iteration   *)
(* of a loop is one step, and so is the exchange of the confirmation.      *)
(***************************************************************************)
EXTENDS AudioStream

CONSTANT Buffers   \* the stereo buffers send_audio may be given

ASSUME BuffersAssumption == Buffers \subseteq [1 .. 2 -> Seq(Sample)]

VARIABLES
  samples,      \* the buffer given to send_audio
  snd,          \* where send_audio is
  buffer_idx,   \* its cursor in the channel being sent
  wire,         \* bytes written by the sender and not yet read
  ack,          \* bytes written by the receiver and not yet read
  rcv,          \* where recv_audio is
  container     \* the buffer recv_audio is filling

vars == <<samples, snd, buffer_idx, wire, ack, rcv, container>>

SenderLabel == {"left", "await", "right", "true", "false", "aborted"}
ReceiverLabel == {"left", "confirm", "right", "returned", "aborted"}

ChannelLeft(label) == 1 \* mutant: [0] copied from the other loop

Channel(label) == IF label = "left" THEN 1 ELSE 2

Init ==
  /\ samples \in Buffers
  /\ snd = "left" /\ buffer_idx = 0 /\ wire = <<>>
  /\ rcv = "left" /\ container = <<<<>>, <<>>>> /\ ack = <<>>

-----------------------------------------------------------------------------
(***************************************************************************)
(* send_audio                                                              *)
(***************************************************************************)

\* Mutant: the right channel follows without waiting for the confirmation.
SendChunkNoWait ==
  /\ snd \in {"left", "right"}
  /\ LET ch == samples[Channel(snd)] IN
     /\ wire' = wire \o AudioBytes(Chunk(ch, buffer_idx))
     /\ IF LastChunk(ch, buffer_idx)
        THEN /\ buffer_idx' = 0
             /\ snd' = IF snd = "left" THEN "right" ELSE "true"
        ELSE /\ buffer_idx' = buffer_idx + CHUNK_SIZE
             /\ UNCHANGED snd
  /\ UNCHANGED <<samples, ack, rcv, container>>

\* One iteration of the chunk loop.  Errors of asio::write are ignored.
SendChunk ==
  /\ snd \in {"left", "right"}
  /\ LET ch == samples[Channel(snd)] IN
     /\ wire' = wire \o AudioBytes(Chunk(ch, buffer_idx))
     /\ IF LastChunk(ch, buffer_idx)
        THEN /\ buffer_idx' = 0
             /\ snd' = IF snd = "left" THEN "await" ELSE "true"
        ELSE /\ buffer_idx' = buffer_idx + CHUNK_SIZE
             /\ UNCHANGED snd
  /\ UNCHANGED <<samples, ack, rcv, container>>

\* The out-of-bounds read of an empty channel ends the process in a build
\* with checked iterators; SendChunk is the other outcome.
SendAborts ==
  /\ snd \in {"left", "right"}
  /\ samples[Channel(snd)] = <<>>
  /\ snd' = "aborted"
  /\ UNCHANGED <<samples, buffer_idx, wire, ack, rcv, container>>

\* recv_message().compare("CONFIRMED")
RecvConfirmation ==
  /\ snd = "await"
  /\ \E n \in ReadSizes(Len(ack), RECV_CAP) :
       /\ snd' = IF SubSeq(ack, 1, n) = TextBytes("CONFIRMED")
                 THEN "right" ELSE "false"
       /\ ack' = Rest(ack, n)
  /\ UNCHANGED <<samples, buffer_idx, wire, rcv, container>>

-----------------------------------------------------------------------------
(***************************************************************************)
(* recv_audio                                                              *)
(***************************************************************************)

\* Mutant: recv_audio stops after one read.
RecvChunkOnce ==
  /\ rcv \in {"left", "right"}
  /\ \E n \in ReadSizes(Len(wire), CHUNK_SIZE * FLOAT_BYTES) :
       /\ container' = [container EXCEPT
                          ![Channel(rcv)] = @ \o Floats(SubSeq(wire, 1, n))]
       /\ wire' = Rest(wire, n)
       /\ rcv' = IF rcv = "left" THEN "confirm" ELSE "returned"
  /\ UNCHANGED <<samples, snd, buffer_idx, ack>>

\* Mutant: the right channel is confirmed as well.
RecvChunkConfirmsBoth ==
  /\ rcv \in {"left", "right"}
  /\ \E n \in ReadSizes(Len(wire), CHUNK_SIZE * FLOAT_BYTES) :
       LET floats == Floats(SubSeq(wire, 1, n))
           last   == Len(floats) < CHUNK_SIZE
       IN
       /\ container' = [container EXCEPT ![Channel(rcv)] = @ \o floats]
       /\ wire' = Rest(wire, n)
       /\ rcv' = IF ~last THEN rcv
                 ELSE IF rcv = "left" THEN "confirm" ELSE "returned"
       /\ ack' = IF last /\ rcv = "right" THEN ack \o TextBytes("CONFIRMED")
                 ELSE ack
  /\ UNCHANGED <<samples, snd, buffer_idx>>

\* Mutant: the whole buffer is appended, not num_floats_read floats of it.
RecvChunkPadded ==
  /\ rcv \in {"left", "right"}
  /\ \E n \in ReadSizes(Len(wire), CHUNK_SIZE * FLOAT_BYTES) :
       LET floats == Floats(SubSeq(wire, 1, n)) IN
       /\ container' = [container EXCEPT ![Channel(rcv)] =
            @ \o floats \o [i \in 1 .. CHUNK_SIZE - Len(floats) |-> Garbage]]
       /\ wire' = Rest(wire, n)
       /\ rcv' = IF Len(floats) < CHUNK_SIZE
                 THEN IF rcv = "left" THEN "confirm" ELSE "returned"
                 ELSE rcv
  /\ UNCHANGED <<samples, snd, buffer_idx, ack>>

\* One iteration of the read loop: append what was read, and take a short
\* chunk for the last one.
RecvChunk ==
  /\ rcv \in {"left", "right"}
  /\ \E n \in ReadSizes(Len(wire), CHUNK_SIZE * FLOAT_BYTES) :
       LET floats == Floats(SubSeq(wire, 1, n)) IN
       /\ container' = [container EXCEPT ![Channel(rcv)] = @ \o floats]
       /\ wire' = Rest(wire, n)
       /\ rcv' = IF Len(floats) < CHUNK_SIZE
                 THEN IF rcv = "left" THEN "confirm" ELSE "returned"
                 ELSE rcv
  /\ UNCHANGED <<samples, snd, buffer_idx, ack>>

\* read_some throws when the peer is gone and its bytes have been read.
RecvThrows ==
  /\ rcv \in {"left", "right"}
  /\ snd = "aborted" /\ wire = <<>>
  /\ rcv' = "aborted"
  /\ UNCHANGED <<samples, snd, buffer_idx, wire, ack, container>>

SendConfirmationForgotten == \* mutant
  /\ rcv = "confirm"
  /\ rcv' = "right"
  /\ UNCHANGED <<samples, snd, buffer_idx, wire, ack, container>>

SendConfirmation ==
  /\ rcv = "confirm"
  /\ ack' = ack \o TextBytes("CONFIRMED")
  /\ rcv' = "right"
  /\ UNCHANGED <<samples, snd, buffer_idx, wire, container>>

-----------------------------------------------------------------------------
Sender == SendChunk \/ SendAborts \/ RecvConfirmation
Receiver == RecvChunk \/ RecvThrows \/ SendConfirmation

Next == Sender \/ Receiver

Spec == Init /\ [][Next]_vars

(***************************************************************************)
(* Each end is a thread that runs whenever it can.                         *)
(***************************************************************************)
FairSpec == Spec /\ WF_vars(Sender) /\ WF_vars(Receiver)

-----------------------------------------------------------------------------
\* Types: what send_audio puts on the wire are bytes of floats, however it
\* cuts its channels, and what recv_audio makes of them are floats.
TypeOK ==
  /\ samples \in [1 .. 2 -> Seq(Sample)]
  /\ snd \in SenderLabel
  /\ buffer_idx \in Nat
  /\ wire \in Seq(Byte)
  /\ ack \in Seq(Byte)
  /\ rcv \in ReceiverLabel
  /\ container \in [1 .. 2 -> Seq(Float)]
(***************************************************************************)
(* Properties                                                              *)
(***************************************************************************)

NonEmpty == \A c \in 1 .. 2 : samples[c] # <<>>

\* Whatever way TCP cuts the stream into reads, the left channel that
\* recv_audio builds is at every moment a prefix of the left channel given to
\* send_audio: no sample is changed, repeated, skipped over or taken from the
\* right channel.
LeftIsPrefix == NonEmpty => IsPrefix(container[1], samples[1])

\* The confirmation keeps the two channels apart: bytes of the right channel
\* are on the wire only when the receiver has finished its left channel.
ChannelsApart ==
  snd \in {"right", "true"} => rcv \in {"right", "returned", "aborted"}

\* Even when reads are cut inside a float and floats are put together from
\* the wrong bytes, recv_audio never has more floats than send_audio took from
\* its buffer; an empty channel, which is read out of bounds, adds one.
NothingInvented ==
  Len(container[1]) + Len(container[2])
    <= Len(Cells(samples[1])) + Len(Cells(samples[2]))

\* What recv_audio returns is what send_audio was given (README.md, "Sending/
\* Receiving Audio Data").
ReturnedIsSent == (NonEmpty /\ rcv = "returned") => container = samples

\* Once recv_audio has returned nothing is left on either stream for the next
\* call on this connection to stumble over.
DrainedAtReturn ==
  (NonEmpty /\ rcv = "returned") => wire = <<>> /\ ack = <<>>

\* The abstract promise: the channels are handed over whole, one after the
\* other.  A channel counts as delivered once the receiver stops reading it.
Delivered ==
  CASE rcv = "left"                 -> <<>>
    [] rcv \in {"confirm", "right"} -> <<container[1]>>
    [] OTHER                        -> <<container[1], container[2]>>

Handoff == INSTANCE AudioHandoff WITH delivered <- Delivered

ImplementsHandoff == Handoff!HandoffSpec

\* A transfer of channels whose length is not a multiple of CHUNK_SIZE
\* completes at both ends.
Uneven == \A c \in 1 .. 2 : Len(samples[c]) % CHUNK_SIZE # 0

UnevenTransferCompletes == Uneven ~> (snd = "true" /\ rcv = "returned")

\* Every transfer completes at both ends (README.md, "Sending/Receiving Audio
\* Data": what is given to send_audio is what recv_audio returns).
TransferCompletes == <>(snd = "true" /\ rcv = "returned")
==============================================================================
