# WaveTech Audio Editor: a TLA+ model

WaveTech is an editor for `.wav` files made of three console programs that talk
over local TCP connections. This directory holds TLA+ modules that model them,
the TLC configurations that check the models on small instances, and TLAPS
proofs of the safety properties of each part.
Everything is translated from `source/` of the repository, and from the calls of
the vendored asio that it makes; `PROJECT.json` says which lines each
definition stands for.

## 1. The system

| Part | Source | State it keeps | Operations |
|---|---|---|---|
| Pipe | `source/Pipe.hpp` | socket, acceptor, cursor in the channel, container being filled | `connect`, `disconnect`, `send_message`, `recv_message`, `send_audio`, `recv_audio` |
| gui | `source/gui.cpp`, `source/Gui.hpp` | open file, loaded flag, display alias, current menu, exit flag | menu functions (load, save, reverse, stretch, repitch, exit), `get_int_from_user`, `get_str_from_user` |
| dsp | `source/dsp.cpp` | the audio of the request in hand, where it is in the dialogue | dispatch of `shift`, `stretch`, `reverse`, `exit` |
| reverse | `source/reverse.cpp` | a pipe made anew for each request, the audio of the request | `run` (receive, reverse, send back), `exit` |
| stretch | `source/stretch.cpp` | ratio, two buffers, two cursors of the overlap-add loop | `main`, `sola`, `buffer_copy_part`, `window_buffers`; in no build target |
| shift | `source/shift.cpp` | none: the file is empty | none |
| asio | `dependencies/asio` | a socket, an acceptor, the buffer of a write | `connect`, `write`, `accept`, `read_some`, `close` (the synchronous ones; nothing else is called) |
| AudioFile | absent | samples of a file | external: `load`, `save`, `setAudioBuffer` |

The gui is a client of the dsp on port 5500, the dsp a client of the reverse
service on port 8800. A reversal goes

    gui      dsp            reverse
     reverse ->
        <- ready
     audio ->
              connect, run ->
                       <- ready
              audio ->
                       <- done
              ready ->
                       <- audio, disconnect
        <- audio

with each *audio* being a left channel, the text `CONFIRMED` back, and a right
channel. Text and samples share a stream that has no lengths, tags or
delimiters. Each program is one thread of blocking calls, nothing catches an
exception, and `reverse.exe` destroys and re-creates its acceptor for every
request.

What is hard here, and hence what the properties are about (the full list, line
by line, is under `hazards` in `PROJECT.json`):

* the end of a channel is a chunk shorter than `CHUNK_SIZE`: lengths that are a
  multiple of it, empty channels, and reads that TCP cuts short;
* two channels, and text and samples, kept apart only by the order of calls;
* messages that arrive together in one read;
* the window in which the reverse service does not listen;
* three programs blocked on each other in turn;
* a program that dies in the middle of a transfer, with `send_audio` ignoring
  its errors and its callers ignoring its result; a program that is killed and
  started again while the others hold the dead connection;
* the console: lines that are discarded, lines that are no number, an input that
  ends and leaves `choice` uninitialised;
* the gap between the look at a path and the save to it, and the ignored results
  of `load` and `save`;
* the unsigned cursors of `sola`, over buffers that grow silently when they are
  read past the end;
* inside asio: sends that take part of a buffer, endpoints that refuse,
  connections that are gone before they are accepted.

What makes the parts correct: a transfer hands over exactly what was sent, or
at least never invents samples; it leaves the streams clean; the dialogue never
gets text and audio out of step; a request returns; exit stops everyone, and
nothing else does; the user's file changes only by a load or into its exact
reversal; the header tells the truth about it; a file on disk is replaced only
with consent; a stretch is the overlap-add of its input and nothing else; a
write arrives whole or reports an error, and a write on a connection that was
accepted, or whose service is gone, returns.

## 2. Modules

| Module | What it is |
|---|---|
| `AudioStream` | No variables. Bytes of messages and floats, the chunk loop of `send_audio` (`Chunk`, `LastChunk`), what `recv_audio` decodes from a read (`Floats`), and how many bytes a read may return (`ReadSizes`). |
| `Pipe` | One `send_audio` call with the matching `recv_audio` call. One action per loop iteration. |
| `AudioHandoff` | What `Pipe` promises: the two channels, whole, in order. |
| `MCPipe` | Instance of `Pipe` for TLC: files with distinct samples of chosen lengths. |
| `AudioStreamProofs` | Lemmas about bytes, chunks and reads, shared by the two modules below. |
| `PipeProofs` | TLAPS proofs about `Pipe`. |
| `Tcp` | Connections, listening ports, the backlog, end of stream and reset, as functions on a record: each asio call in one step. |
| `WaveTech` | The three programs on top of `AudioStream` and `Tcp`, the user, and programs that are killed and started again. |
| `AudioEditor` | What the system promises its user. |
| `MCWaveTech` | Instance of `WaveTech` for TLC. |
| `WaveTechProofs` | TLAPS proofs about `WaveTech`: types, and what Exit Program stops. |
| `SessionProofs` | The dialogues on the two connections of `WaveTech`, as relations between the calls of two programs and what is on their streams; the proof that `WaveTech` keeps to them, and the theorems that follow. |
| `FileProofs` | The samples on those streams, and the proof that `WaveTech` implements `AudioEditor`; the session of a patient user, in which nobody crashes. |
| `Asio`, `MCAsio`, `AsioProofs` | The inside of the asio calls, one system call per step; their proofs. |
| `Gui`, `MCGui`, `GuiProofs` | The gui as its user sees it: menus, console, open file, files on disk; the proofs. |
| `Stretch`, `MCStretch` | The stretch service: `main` and `sola`. |
| `StretchProofs` | TLAPS proofs about `Stretch`. |

`WaveTech` extends `AudioStream` and `Tcp`. `Gui` takes a reversal from the
promise of `AudioEditor` (the exact reversal, or the program ends), which
`WaveTech` is shown to keep; `Tcp` takes each call for one step, which is what
`Asio` justifies: bytes arrive in order and whole, `connect` reaches the
listener, a socket that connects again lets go of its old connection.

### Pipe

`samples`, `buffer_idx` and `container` are the variables of the same name in
the code; `snd` and `rcv` say where each call is, `wire` and `ack` are the two
directions of the connection. `SendChunk` is one iteration of the `while(1)` of
`send_audio` with its inner loop and its `asio::write`; `RecvConfirmation` is
the `recv_message` between the loops; `RecvChunk` is one iteration of
`recv_audio`'s loop with its `read_some`, `SendConfirmation` the
`send_message` in between. Reading an empty channel out of bounds is undefined,
so both outcomes exist: `SendAborts` (a checked build stops) and `SendChunk`
with one `Garbage` float. `RecvThrows` is the exception of `read_some` when the
peer is gone.

A byte is a pair of a value and a position in it. A float put together from
bytes that do not belong to one sample, in order, is `Garbage`: a reader that
is out of step does not get the right value by luck. The constant `ShortReads`
chooses between reads that return all there is room for, as they do on a
loopback interface when nothing interferes, and reads that may stop at any byte.

### WaveTech

`pc[p]` is the call program `p` is in. The tables `GuiCalls`, `DspCalls` and
`ReverseCalls` list the calls that the gui's menu functions and the two
services' `main` functions make of their pipes, in the order of the code, with
socket, text and continuation; `AfterText` has the string comparisons. One parametric action
per `Pipe` operation (`SendMessage`, `RecvMessage`, `SendChunk`,
`RecvConfirmation`, `RecvChunk`, `SendConfirmation`) serves all call sites.
`Bind`, `AcceptClient`, `ConnectReverse`, `Disconnect` and `DropPipe` are the
connection operations, `ReverseAudio` is `reverse()`, `SetAudioBuffer` is the
end of `Gui::recv_audio`. A call that throws ends its program (`EndWith`), and
its sockets and acceptor are closed, as the operating system does.
`UpstreamPipe::disconnect` only clears a flag nobody reads and has no action.

The user is `StartGui` and `User`. `Patience` says how the user behaves:
`"none"` (the gui may be started first, choices come at any moment),
`"startup"` (the gui is started when both services listen), `"always"` (and
each choice is made when both services are at rest). `Die` kills a program of
`MayDie`, at any moment or, with a patient user, when nothing is under way.
`Restart` starts a program of `MayRestart` that was killed or has crashed from
the first line of its `main`, while the other programs keep whatever socket
they had: the dsp connects to a new reverse service with the socket whose old
connection is dead. `commands` counts choices and restarts and remembers
whether Exit Program was ever chosen.

`Tcp` keeps one waiting connection per acceptor; `BacklogFree` bounds `StartGui`
and `ConnectReverse` accordingly. A second one would need a gui that is started
again while its first connection is still in the queue.

The length of a message (`MSG_BYTES`) is the same for all messages. Samples
whose bytes spell a command are not modelled: audio bytes and text bytes are
different values, which `TagAssumption` states (`Float \cap Message = {}`).
That matters only where a `recv_message` finds samples: with whole reads it
never does (`StreamsInStep`); with reads cut short in the composed system it
can, and `ServicesStopOnlyOnExit` then holds up to samples that spell `exit`.

### Gui

`at` is the prompt or call the program is in. `Menus` is the table that
`create_wavetech_gui` builds; `Chosen(f)` is `Gui::execute` with an answer in
bounds, and there is one action per menu function. Both input functions throw
away the rest of the line before, or wait for a line when there is none
(`fresh`, `Discard`); `ReadInt` makes a line that is no number a 0, as `>>`
does. At the end of the input `choice` is read uninitialised: the program stops
(`ReadUnset`) or goes on with any number. `LoadPath` is one iteration of
`load_audio_file`, `SavePath`, `WriteNew` and `Overwrite` are the three stages
of `save_audio_file`, and `OtherCreates` is another program that makes a file
during the prompts in `Others`. `opened` is history: the last file that was
really read. `Careful` is a user who, once a stereo file is open, types the name
of no file that AudioFile cannot read; the input may still end inside a load,
which gives it an empty path and leaves the header without a name.

### Stretch

`RecvRatio` and `RecvAudio` are the receives of `main`, `Frame` is one
iteration of the loop of `sola` with its three `buffer_copy_part` reads and
`window_buffers`, `FinishSola` its end. A cell of a buffer says which input
samples it was made of and with which weight, so that the result can be compared
with the definition of overlap-add (`OverlapAdd`). `frame_skip` and the factor
`2*(frame_skip + overlap_size)` are computed modulo `UInt`, as `unsigned int`,
the loop bound modulo `Word`, as `size_t`; a resize beyond `Memory` is
`FrameThrows`. Ratios are in whole percent, negative ones and ones beyond the
clamp included, or `NaN`, which `atof` makes of "nan" and which neither
comparison of the clamp catches: the conversion to `frame_skip` is then
undefined, and the model takes any value of `NaNSkip`. `stretch.cpp` includes a
header that the repository does not have, so its messages are taken as
delivered.

### Asio

`ConnectTry` is one iteration of `asio::connect` (close, open, connect to the
next endpoint), `WriteSome` one `WSASend` of the loop of `asio::write` with
`consuming_buffers` and `transfer_all`, `Accept` one iteration of
`sync_accept`, which passes over a connection that was aborted in the queue.
Systems differ in how they report one that was reset there: any other error
makes `accept` throw (`AcceptThrows`, line 173). `ReadSome` and `ReadThrows` are
`sync_recv`. The client connects again and again with one socket, like the dsp.
The server is a `DownstreamPipe`: its acceptor accepts once (`"new"`) and goes
on listening (`"done"`) until the pipe is destroyed, at the end of an iteration
of the reverse service or with the program (`DestroyPipe`). Nothing in the
programs catches, so a call that throws ends the server's program, and its
acceptor and queue go with its socket (`Destroyed`); it may be started again
(`MakeAcceptor`). The operating system's buffers and queues are external.

## 3. Runs

| Run | Shows | Bounds |
|---|---|---|
| `pipe_whole` | `ReturnedIsSent`, `DrainedAtReturn`, `ImplementsHandoff` for all lengths, `UnevenTransferCompletes` for lengths that are no multiple | chunk of 3 floats of 2 bytes, lengths 1 to 8 and 10: zero to three full chunks, with every remainder |
| `pipe_short_reads` | `TypeOK`, `LeftIsPrefix`, `ChannelsApart`, `NothingInvented` whatever the cuts, and with empty channels read out of bounds | chunk of 2 floats of 2 bytes, so a cut can fall inside a float, on a float and on a chunk; lengths 0 to 5; a confirmation of 2 bytes |
| `pipe_multiple` (violation) | a length that is a multiple of the chunk never completes | lengths 2 and 3, chunk 3 |
| `pipe_cut_short` (violation) | a short read changes what is returned | lengths 1 and 2, chunk 2 |
| `wavetech_patient` | `TypeOK`, `NobodyCrashes`, `OneMessagePerRead`, `ReverseReturns`, `ExitStopsAll`, also after the reverse service was killed and started again | 5 choices and restarts, all commands, lengths 1 and 3 with chunk 2: a load, a reversal, a restart, a reversal on the stale socket and an exit fit |
| `wavetech_unruly` | `StreamsInStep`, `NothingStaleAtPrompt`, `ExitTravelsDown`, `FileAsPromised` | 5 choices and restarts at any moment, any program killed and started again at any moment, lengths 0 to 3 |
| `wavetech_second_reverse` (violation) | the window without an acceptor breaks a second reversal | load and two reversals, services up first |
| `wavetech_two_messages` (violation) | two messages in one read | three choices |
| `asio_calls` | `WritesArrive`, `OneConnectionOpen`, `ConnectReaches`, `WriteReturns`, `EndIsSeen` | two endpoints of which one refuses, 3 connections, 4 bytes each in buffers of 0, 1 and 3, sends of at most 2, an operating system that buffers 2: every write of 3 is cut and can block |
| `gui_careful` | `TypeOK`, `LoadedIsStereo`, `HeaderTruthful`, `OverwriteAsked`, also when the input ends and other programs make files | two stereo files, a mono file, a free name; no bound on the session, the state space is finite |
| `gui_failed_load` (violation) | a failed load passes for a success | the same files, a user who is not careful |
| `stretch_long` | `TypeOK`, `ReadsInside`, `OutputIsOverlapAdd`, `LongStretchReturns` | frame 10 and overlap 2 (the code's 4000 and 800 divided by 400), lengths 0 to 80, ratios inside, on and beyond both ends of the clamp, a negative one and NaN; `unsigned int` has 64 values, so that the skips a NaN may give (0, half, the middle and the last) wrap the factor |

`MaxCommands` bounds the menu choices of a session. The programs return to the
same states after each reversal, except for the contents of the file, so what
a third one can meet is what the second one met.
`MaxConnects` and `MaxBytes` bound `Asio` in the same way, `Memory` and `Word`
bound the vectors and `size_t` of `Stretch`; short audio reaches both. All samples are distinct, so
that a swapped, lost or repeated sample shows; what the programs do with a
sample does not depend on its value.

Deadlock is checked in `asio_calls` only. Elsewhere a session ends with every program stopped or, after
the bound, with a user who does nothing, and the code really can block for
good. That requests return is stated by the liveness properties instead.

### Fairness

`Pipe!FairSpec` has weak fairness of each end and `WaveTech!FairSpec` weak
fairness of each program's own steps: a thread that is not blocked in a call
runs. Nothing obliges the user to choose, the gui to be started, or a program
to die or be started again, and no fairness is put on those.

`Asio!FairSpec` has weak fairness of a call that has begun (`Connecting`,
`Writing`) and of `Reading`: a service that has accepted a connection goes on to
`read_some`. There is none on `Accept`: a service accepts once per pipe, the dsp
once altogether, and an exception ends it, so a connection may stay in a queue
for good. That is why `WriteReturns` speaks of connections that have left the
queue, accepted or reset. The acceptor need not be there, and no call has to be
begun. `Stretch!FairSpec` has weak fairness of `Sola` and
`SendAudio`; no client is obliged to ask.

### What the runs found

* A file whose length is a multiple of 1024 samples cannot be sent:
  `buffer_idx % CHUNK_SIZE` drops its last chunk, and both ends wait forever
  (`pipe_multiple`, `Pipe.hpp:234`).
* `recv_audio` takes any short read for the end of the channel
  (`pipe_cut_short`, `Pipe.hpp:312`), against the note on `read_some` in asio.
* A reversal asked for while the reverse service is between two acceptors
  crashes the dsp, and then the gui (`wavetech_second_reverse`,
  `reverse.cpp:39`).
* Two messages sent in a row can be read as one unknown text
  (`wavetech_two_messages`, `Pipe.hpp:208`).
* With a stereo file open, a path that cannot be read counts as loaded: the old
  samples appear under the new name (`gui_failed_load`, `Gui.hpp:290`).

Observations without a run of their own. Time stretch is announced in the
repository's README, but the dsp only prints the command (`dsp.cpp:41`). A line
that is no number counts as 0, which is Exit Program at the main menu
(`Gui.hpp:262`). When the input ends at the path prompt of a load with a stereo
file open, the alias is left empty, and after the next reversal
`alias.compare(alias.length()-1, ...)` throws: the program ends with the samples
that have come back (`gui.cpp:111`; `gui_careful` reaches it). With `"write"` in `Others`, TLC finds the save that replaces a
file another program made after the look (`Gui.hpp:309`). For audio shorter than
`2 * (frame_skip + overlap_size)` the loop bound of `sola` wraps and the model
ends in `bad_alloc` (`stretch.cpp:145`). A ratio that is not a number gets past
the clamp (`stretch.cpp:200`), and nothing is claimed of what `sola` then does. At 100 percent `sola` steps over
`flat_duration + frame_skip` input samples for `flat_duration + overlap_size` of
output, so it does not keep the length.

## 4. Proofs

Each theorem below states, for every value of the constants that the named
assumptions allow, a property that a run checks on a small instance. Each
inductive invariant was checked by TLC on that run's instance before it was
proved.

### Pipe

`PipeProofs` proves for every `CHUNK_SIZE`, `FLOAT_BYTES`, `MSG_BYTES` and
`RECV_CAP` above zero and every set of stereo buffers:

| Theorem | Statement |
|---|---|
| `TypeCorrect` | `Spec => []TypeOK` |
| `ChannelsStayApart` | `Spec => []ChannelsApart` |
| `LeftStaysPrefix` | `Spec => []LeftIsPrefix`, however reads are cut |
| `NoFloatInvented` | `Spec => []NothingInvented`, however reads are cut |
| `WholeTransfer` | `~ShortReads` gives `Spec => []ReturnedIsSent` |
| `DrainedTransfer` | `~ShortReads` gives `Spec => []DrainedAtReturn` |
| `TransferImplementsHandoff` | `~ShortReads` and no empty channel give `Spec => ImplementsHandoff` |

The assumptions are `StreamAssumption` and `BuffersAssumption`, which TLC
evaluates in every run.

The argument. *Bytes*: `Carries(b, s, lo, hi)` says that the bytes `b` are
those of samples `lo + 1 .. hi` of `s`. Writing a chunk extends it
(`CarriesAppend`), reading whole samples shortens it (`CarriesDrop`), and
decoding a prefix gives the next samples (`CarriesDecode`). *Loops*:
`ChunkShape` says that a chunk lies in its channel and ends it unless the
length is a multiple of `CHUNK_SIZE`; `ReadStep` says what one read does.
*Invariants*: none of the properties is inductive.

* `BaseInv` adds to `TypeOK` that the cursor is a multiple of `CHUNK_SIZE`
  inside the channel, without which a chunk need not be a sequence of samples,
  and that the stream back to the sender is empty until the confirmation, which
  is why the sender cannot be ahead of it.
* `LeftInv` adds, while the receiver is in its left loop, that it has read full
  chunks only and that the wire carries the following samples up to the
  sender's cursor (`Feeding`). A read that is not a full chunk ends the loop,
  so a stream cut inside a float is never decoded further into the left
  channel: that is why `LeftIsPrefix` survives short reads and the same claim
  for the right channel does not.
* `CountInv` counts bytes: those of the floats in the container and those on
  the wire are no more than those of the cells `send_audio` has taken (`Taken`,
  which an empty channel makes one cell longer). A read that ends inside a
  float loses the odd bytes, so the count is an inequality.
* `WholeInv` adds, for whole reads, that after the left loop the left channel
  is complete, and the same `Feeding` for the right one. The key step is in
  `ReadStep`: as long as the sender is inside a channel both ends are at
  multiples of `CHUNK_SIZE`, so what is on the wire is a whole number of
  chunks, and a short read can only be the end. If the length is a multiple the
  short read never comes, and the theorems hold because `recv_audio` never
  returns.

### Stretch

`StretchProofs` proves, for every frame and overlap size with
`3 * overlap_size <= frame_size <= 7 * overlap_size` (the code has 5), every
set of lengths, every set of integers as ratios with or without `NaN`, every
outcome of converting a `NaN`, and every memory and integer sizes in which a
frame and the largest vector fit (`StretchAssumption`: the code has 2^32 against
16000, and 2^64 against both):

| Theorem | Statement |
|---|---|
| `StretchTypeCorrect` | `Spec => []TypeOK` |
| `ReadsStayInside` | `Spec => []ReadsInside` |
| `SolaOverlapsAndAdds` | `Spec => []OutputIsOverlapAdd` |

`TypeOK` says what the clamp is for: with a number, whatever it is, `frame_skip`
is at least `overlap_size`, so the head of the next frame is not before the
cursor, and the `unsigned int` factor of the loop bound does not overflow. The
other two speak of numbers only (`LongEnough`).

The argument. *Arithmetic*: for a clamped ratio `SkipBounds` puts `frame_skip`
between `overlap_size` and twice `frame_size - overlap_size`, and at least
`frame_size - 4 * overlap_size`; `BoundIsExact` says that the loop bound does
not wrap for audio that is long enough; `FrameFits` says that in an iteration
the three reads then end inside the input. The proportion of the sizes is needed
there: with larger frames, 50 percent reads beyond what the loop keeps back.
*Buffers*: the lengths of what the copies make (`GrownLength`, `PartLength`,
`PutLength`, `BlendLength`), put together for an iteration in `FrameBuffers`.
*Invariant*: `ReadsInside` alone is not inductive, because an allocation for the
output could fail; `InsideInv` adds that the output cursor is never ahead of the
input cursor, so that the output fits where the input does. For
`SolaOverlapsAndAdds`, `OverlapInv` says how many iterations there were
(`FramesDone(f)`): both cursors are multiples of their hops, which ties an
output position to its frame and so to the reference definition
(`OverlapAddAt`), and the input is still what was received until the loop ends.

### Gui

`GuiProofs`, for every set of paths, contents of the disk, way of ending the
input and set of moments at which other programs make files (`GuiAssumption`):

| Theorem | Statement |
|---|---|
| `GuiTypeCorrect` | `Spec => []TypeOK` |
| `StereoWhenLoaded` | `Spec => []LoadedIsStereo` |
| `HeaderTellsTheTruth` | `Careful` gives `Spec => []HeaderTruthful` |
| `OverwriteIsAsked` | `"write" \notin Others` gives `Spec => OverwriteAsked` |

The two hypotheses are those of `gui_careful`; `gui_failed_load` shows that the
first is needed, and the second excludes the race at `Gui.hpp:309`. `GuiInv`
adds that a reversal is under way only with a file loaded (`ReverseLoaded`), for
a new AudioFile has nothing whose reversal would have a type. `HeaderInv` says
`HeaderTruthful` of every prompt and call between two loads, not of the menu
only. `FreeToWrite` says that a path found free stays free until the save, which
is what consent to an overwrite rests on.

### Asio

`AsioProofs`, for every list of endpoints of which one listens, every size of
buffers, sends and of the operating system's queue (`AsioAssumption`):

| Theorem | Statement |
|---|---|
| `OldConnectionsClosed` | `Spec => []OneConnectionOpen` |
| `WritesDoArrive` | `Spec => []WritesArrive` |

`AsioInv` has the types (`AsioType`), what the socket can be during a call
(`SocketInv`), `OneConnectionOpen`, that on each connection the bytes read and
the bytes on their way continue each other (`InOrder`), and, for the connection
in use while it is up, that what was passed on plus what `asio::write` still
holds is what it was given (`WriteInv`). The last is needed because
`WritesArrive` only speaks of the moment a write has returned.

### WaveTech

`WaveTechProofs`, for every set of stereo files, every size of chunks, floats,
messages and receive buffers, reads cut in any way (`ShortReads` or not), every
number of commands and restarts, and every set of programs that die and come
back (`StreamAssumption`, `WaveTechAssumption`, `TagAssumption`):

| Theorem | Statement |
|---|---|
| `WaveTechTypeCorrect` | `Spec => []TypeOK` |
| `ServicesStopOnlyOnExit` | `Spec => []ExitTravelsDown` |

`TypeOK` says of each program that it is in one of its own calls (`LabelsOf`),
and of a `send_audio` that its cursor is inside its channel, unless the channel
is empty: that one is read out of bounds, and the model says so (`SendAborts`,
`Garbage`). Neither theorem is inductive. *Shared state* (`SharedInv`): the network is a record of
the right shape whose streams carry bytes of `BytesIf(commands.exit)`, that is,
no byte of `exit` as long as the user has not chosen Exit Program; `NetOf` and
one lemma per operation of `Tcp` say that connecting, accepting, closing,
writing and reading keep it. *Each program* (`ProgramInv`): it is at a label of
its own; it enters `send_audio` and `recv_audio` at the left channel with its
cursor at 0; while it sends, the cursor is a multiple of `CHUNK_SIZE` inside
the channel, without which the chunk it writes would not be a sequence of
floats; and it is at a label of `ExitLabel` (on its way out) only after Exit
Program. `ExitRead` guards the way into that set: a text that starts with `exit`
can be read only if its bytes may be on a stream.
`Undisturbed`, `OneProgram` and `NextCall` reduce each action to what it does to
its own program; there is one lemma per action.

`SessionProofs` adds, under `WholeReads` (`~ShortReads` and
`MSG_BYTES <= RECV_CAP`) and otherwise for the same constants:

| Theorem | Statement |
|---|---|
| `TextAndAudioKeptApart` | `WholeReads` gives `Spec => []StreamsInStep` |
| `PromptIsClean` | `WholeReads` gives `Spec => []NothingStaleAtPrompt` |

`WholeReads` is what `wavetech_unruly` has. It cannot go: a read that ends inside
a message or a chunk leaves bytes to the next call (`pipe_cut_short`). The
second half is the code's own (`Pipe::chunk_size` is larger than every text).

The argument. The two properties say what a reader may find, and nothing on the
reader's side keeps it so: what a program finds depends on where the program at
the other end is. *Dialogues*: `GuiPhase` and `ReversePhase`
list the pairs of calls at which the two ends of a connection can be at the same
time, each with what the two streams then hold; `Transfer` does so for the
stages of `send_audio` and `recv_audio`. While sender and receiver are in the
same channel the stream holds full chunks only (`FullChunks`), so that a short
read ends the channel for both (`ReadSamples`). Between requests the gui may be
several commands ahead of the dsp, but a `reverse` is always the last of them,
because the gui then waits (`Request`); that is why two commands taken in one
read (`wavetech_two_messages`) can lose a command and still never put audio
where text is expected. `GuiFinds`, `DspFinds`, `ClientFinds` and `ReverseFinds`
say what each end may find even when the other one is gone. A connection that
waits to be accepted counts as a server that has not read yet
(`GuiSession`, `ReverseSession`). There is one lemma per send, read and
confirmation of each end. *Sockets*: `Wired` says who can be
connected with whom, that ends agree, and that only an open socket has input;
`Shrunk` covers every way in which programs die and connections close or are
reset, and an end that is left alone keeps what it had or loses it all, which
the dialogues allow (`LinksShrink`). *Invariant*: `SessionInv` is `Wired`, the
two dialogues, and that a server's socket is closed until it accepts, so that a
program that is started again meets nothing of its former life. There is one
lemma per action of `WaveTech`.

`FileProofs` adds, under the same hypothesis:

| Theorem | Statement |
|---|---|
| `WaveTechImplementsEditor` | `WholeReads` gives `Spec => FileAsPromised`, that is, `Spec => Editor!EditorSpec` |

The mapping: the editor is closed when the gui has ended, busy from the choice
of a reversal to `g_set`, idle otherwise; `file` is the gui's own. The one step
that is not a guard read off the code is `SetAudioBuffer`: the samples it stores
must be the reversal of a file that has by then gone through two other programs
and four transfers. `SessionInv` says which kind of bytes is where, and nothing
of their values, so `DataInv` adds those. *One transfer*: `Gets(st, con, idx, in,
S)` says that what a `recv_audio` holds, and the stream behind it, are the
beginning of the channels `S` (`HoldsPart`, `OnStream`); `Pace` ties the cursor
of the `send_audio` at the other end to where the stream ends. A receiver that
loses its sender keeps the first of these and not the second, which is why they
are two. *Who holds what*: `Want` is the gui's file with the one float that
stands for an empty channel, `Back` its reversal. `DspGets`, `DspHolds`,
`ReverseGets` and `GuiGets` follow the samples gui, dsp, reverse service, dsp,
gui; `GuiPaced` and `ReversePaced` the cursors. All but `GuiGets` hold only
while the gui is connected to this dsp (`Live`), and those of the service while
the dsp is connected to it (`Linked`): a dsp whose gui has been killed carries
an old file on, and a service whose dsp has been killed an older one, and the
proof shows that neither ever reaches a gui that would store it. There is one
lemma per call of each program (`DataGuiSend` to `DataReverseConfirmed`), and
`EditorSimulated` maps the steps. For a channel without samples nothing is
promised (`AudioEditor`).

For a *patient user* it proves the two safety properties that an impatient one
breaks (`wavetech_second_reverse`, `wavetech_two_messages`):

| Theorem | Statement |
|---|---|
| `PatientUserNeverCrashes` | `Patient` gives `Spec => []NobodyCrashes` |
| `PatientUserReadsOneMessage` | `Patient` gives `Spec => OneMessagePerRead` |

`Patient` is `WholeReads`; the user starts the gui when both services listen and
then acts only when all three programs are at rest (`Patience = "always"`); only
the reverse service is killed, and then (`MayDie` within `{"rev"}`; any program
may be in `MayRestart`); the two channels of a file are equally long, as those
of AudioFile are, and not empty, since `send_audio` reads outside an empty
channel (`SendAborts`). `wavetech_patient` is an instance. `CHUNK_SIZE`, the
lengths, the number of commands and of restarts are arbitrary.

The argument. `SessionInv` lists what the two ends of *one* connection can be
doing; whether a call throws depends on all three programs and on which
connections are up. `SessionPhase` therefore divides a session as a whole:
`Starting`, `Greeting` (the gui is connected and not accepted yet), `Asking` (a
command is on its way), `Reversing`, `Resting`, `Exiting`, and in each phase the
reverse service is in one of four situations: it `Waits` for a client, `Rests`
(killed, starting, or done with one), is `Engaged` with the dsp, or `Leaves`.
The hard place is the end of a reversal: the service sends its last chunk and
disconnects while the dsp still reads. `AllSent` says that everything up to the
end is then on the stream (from `DataInv`), so the dsp's reads, the last of which
is short, all find bytes and none meets the end of the stream (`AllSentLeft`).
That is false for a channel whose length is a multiple of `CHUNK_SIZE`, which has
no short last read (`pipe_multiple`); the conjunct `ShortEnd` says that such a
file never gets so far, as the first of its four transfers, from the gui to the
dsp, already hangs, and a hanging session crashes nobody. `Listens` (an acceptor
is there while its program runs) is what makes the connects succeed, `FileFits`
the assertion of `setAudioBuffer`. The inductive invariant is `PatientInv`,
`Listens`, `FileFits`, `ShortEnd` and `SessionPhase` together, on top of
`WaveTechInv`, `SessionInv` and `DataInv`; there is one lemma per action, or per
group of calls of a program. For the second theorem it gives `OneWaits`: a
stream on which a program is in `recv_message` holds nothing or one message. A
command goes out only when the last one has been read, and every other message
is the answer to one. As long as the program stays in that call, `OneWaits`
before and after a step leaves a read no other size than one message, and it
leaves the call only by reading (`OnlyReadLeaves`, `WholeMessageRead`).

### Only model-checked

Liveness (`UnevenTransferCompletes`, `ReverseReturns`, `ExitStopsAll`,
`ConnectReaches`, `WriteReturns`, `EndIsSeen`, `LongStretchReturns`), which the
prover cannot treat under fairness. Every invariant and every action property
of the passing runs is also the statement of a theorem.

## 5. Not modelled

* `shift.cpp` (empty), `startup()` (never called), the build.
* asio beyond the synchronous calls of `Pipe.hpp`. Almost all of the
  repository's lines are this vendored library: asynchronous operations,
  executors, coroutines, ssl, serial ports, files, other platforms. WaveTech
  calls none of it, and nothing in the repository says how it would, so a model
  of it would say nothing about the editor.
* AudioFile beyond what the programs observe: it is not in the repository.
* The display (`print`, the clearing of the screen) and the wording of prompts.
* A second gui at the same dsp, and more than one waiting connection per
  acceptor in the composed system.
* The composed system with short reads: `pipe_cut_short` shows that a transfer
  then goes wrong, so nothing is claimed of what is built on it.

## 6. Plan

1. Done: `AudioStream`, `Pipe`, `AudioHandoff`, `Tcp`, `WaveTech`,
   `AudioEditor`, their runs, and the proofs about `Pipe`.
2. Done: `Gui`, `Stretch`, `Asio`, programs that are killed and started again,
   and the proofs about `Stretch`.
3. Done: the proofs about `Gui`, `Asio` and `WaveTech`, `NothingInvented`,
   `OutputIsOverlapAdd`, the phases of the two connections of `WaveTech`.
4. Done: with the contents of the streams added to those phases (`DataInv`),
   the refinement `FileAsPromised`.
5. Done: for a patient user, `NobodyCrashes` and `OneMessagePerRead`.
6. Left: the liveness properties, which stay with TLC.
