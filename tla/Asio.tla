-------------------------------- MODULE Asio --------------------------------
(***************************************************************************)
(* The synchronous part of the vendored asio that Pipe.hpp calls, one      *)
(* system call per step: asio::connect over the endpoints that localhost   *)
(* resolves to, asio::write, acceptor::accept, read_some and close.  Tcp   *)
(* takes each of these calls for one step; this module looks inside.       *)
(*                                                                         *)
(* One client connects again and again with the same socket, as dsp.cpp    *)
(* does.  The server is a DownstreamPipe: an acceptor that accepts once    *)
(* and goes on listening, and the socket it accepted.  Nothing in the      *)
(* programs catches, so an error that is thrown ends the server's program  *)
(* with all its sockets; it may be started again.  The client writes and   *)
(* the server reads.  The bytes given to asio::write on a connection are   *)
(* numbered 1, 2, 3...  The operating system, its buffers included, is     *)
(* external.                                                               *)
(***************************************************************************)
EXTENDS Integers, Sequences, FiniteSetsExt

CONSTANTS
  Endpoints,     \* the address families localhost resolves to, in order
  Listens,       \* the family of the acceptor: tcp::v4()
  MaxTransfer,   \* default_max_transfer_size
  Capacity,      \* bytes the operating system buffers for a connection
  Sizes,         \* sizes of the buffers given to asio::write
  MaxConnects,   \* bound: connections
  MaxBytes,      \* bound: bytes given to asio::write on a connection
  Resets         \* may the network reset a connection?

ASSUME AsioAssumption ==
  /\ Endpoints \in Seq({"v4", "v6"})
  /\ \E i \in DOMAIN Endpoints : Endpoints[i] = Listens
  /\ {MaxTransfer, Capacity} \subseteq Nat \ {0}
  /\ Sizes \subseteq Nat /\ Resets \in BOOLEAN

VARIABLES
  call,             \* the call the client is in: "none", "connect", "write"
  ec,               \* its error code; "none" is no error
  iter,             \* connect: the endpoint that is tried next
  buffer,           \* write: the bytes, and how many have been consumed
  total_consumed,
  fd,               \* the client's socket: "invalid", "open", "connected"
  conn,             \* the connections so far
  acceptor,         \* "none", "new": accept is called, "done": it has returned
  served            \* the connection of the server's socket, or 0

vars == <<call, ec, iter, buffer, total_consumed, fd, conn, acceptor, served>>

client == <<call, ec, iter, buffer, total_consumed, fd>>

-----------------------------------------------------------------------------
(***************************************************************************)
(* Connections.  given counts the bytes given to asio::write, wire is what *)
(* the operating system holds, got what the server has read.               *)
(***************************************************************************)
Queued ==
  [given |-> 0, wire |-> <<>>, got |-> <<>>, reset |-> FALSE,
   client |-> "open", server |-> "queued"]

Reset(c) == [c EXCEPT !.reset = TRUE, !.wire = <<>>]

Change(i, c) == [conn EXCEPT ![i] = c]

Mine == Len(conn)   \* the connection of fd

\* closesocket at the client: what is on its way still arrives.
CloseClient == [i \in DOMAIN conn |->
  IF i = Mine /\ fd = "connected" THEN [conn[i] EXCEPT !.client = "closed"]
  ELSE conn[i]]

\* closesocket at the server resets when something is unread.
CloseServer(c) ==
  [(IF c.wire # <<>> THEN Reset(c) ELSE c) EXCEPT !.server = "closed"]

-----------------------------------------------------------------------------
(***************************************************************************)
(* The client                                                              *)
(***************************************************************************)
StartConnect ==
  /\ call = "none" /\ Len(conn) < MaxConnects
  /\ call' = "connect" /\ iter' = 1 /\ ec' = "none"
  /\ UNCHANGED <<buffer, total_consumed, fd, conn, acceptor, served>>

ConnectTryNoClose == \* mutant: the old connection is left as it is
  /\ call = "connect" /\ iter <= Len(Endpoints)
  /\ IF acceptor # "none" /\ Endpoints[iter] = Listens
     THEN /\ conn' = Append(conn, Queued)
          /\ fd' = "connected" /\ call' = "none" /\ ec' = "none"
          /\ UNCHANGED iter
     ELSE /\ fd' = "open" /\ ec' = "refused" /\ iter' = iter + 1
          /\ UNCHANGED <<call, conn>>
  /\ UNCHANGED <<buffer, total_consumed, acceptor, served>>

ConnectTryOnce == \* mutant: the first refusal ends the loop
  /\ call = "connect" /\ iter <= Len(Endpoints)
  /\ IF acceptor # "none" /\ Endpoints[iter] = Listens
     THEN /\ conn' = Append(CloseClient, Queued)
          /\ fd' = "connected" /\ call' = "none" /\ ec' = "none"
          /\ UNCHANGED iter
     ELSE /\ conn' = CloseClient
          /\ fd' = "open" /\ ec' = "refused" /\ iter' = Len(Endpoints) + 1
          /\ UNCHANGED call
  /\ UNCHANGED <<buffer, total_consumed, acceptor, served>>

\* One iteration of connect: close, open and sync_connect.
ConnectTry ==
  /\ call = "connect" /\ iter <= Len(Endpoints)
  /\ IF acceptor # "none" /\ Endpoints[iter] = Listens
     THEN /\ conn' = Append(CloseClient, Queued)
          /\ fd' = "connected" /\ call' = "none" /\ ec' = "none"
          /\ UNCHANGED iter
     ELSE /\ conn' = CloseClient
          /\ fd' = "open" /\ ec' = "refused" /\ iter' = iter + 1
          /\ UNCHANGED call
  /\ UNCHANGED <<buffer, total_consumed, acceptor, served>>

\* The last endpoint was refused too: connect throws, the socket stays open.
ConnectThrows ==
  /\ call = "connect" /\ iter > Len(Endpoints)
  /\ call' = "none"
  /\ UNCHANGED <<ec, iter, buffer, total_consumed, fd, conn, acceptor, served>>

StartWrite(size) ==
  /\ call = "none" /\ fd = "connected"
  /\ conn[Mine].given + size <= MaxBytes
  /\ call' = "write" /\ ec' = "none" /\ total_consumed' = 0
  /\ buffer' = [i \in 1 .. size |-> conn[Mine].given + i]
  /\ conn' = Change(Mine, [conn[Mine] EXCEPT !.given = @ + size])
  /\ UNCHANGED <<iter, fd, acceptor, served>>

MoreDespiteError == total_consumed < Len(buffer) \* mutant: ec is not looked at

\* The loop of write goes on: bytes are left, and transfer_all sees no error.
MoreToWrite == ec = "none" /\ total_consumed < Len(buffer)

PreparedFromStart(k) == SubSeq(buffer, 1, k) \* mutant: offset forgotten

\* The next k bytes of the buffer (consuming_buffers::prepare).
Prepared(k) == SubSeq(buffer, total_consumed + 1, total_consumed + k)

\* write_some: WSASend takes k bytes.  When the server has closed its end
\* they are lost, and the connection is reset.
WriteSome(k) ==
  /\ call = "write" /\ MoreToWrite
  /\ k <= MaxTransfer /\ total_consumed + k <= Len(buffer)
  /\ ~conn[Mine].reset
  /\ LET c == conn[Mine] IN
       \/ /\ c.server = "closed"
          /\ conn' = Change(Mine, Reset(c))
       \/ /\ c.server # "closed" /\ Len(c.wire) + k <= Capacity
          /\ conn' = Change(Mine, [c EXCEPT !.wire = @ \o Prepared(k)])
  /\ total_consumed' = total_consumed + k
  /\ UNCHANGED <<call, ec, iter, buffer, fd, acceptor, served>>

\* write_some: WSASend fails.
WriteFails ==
  /\ call = "write" /\ MoreToWrite
  /\ conn[Mine].reset
  /\ ec' = "connection_reset"
  /\ UNCHANGED <<call, iter, buffer, total_consumed, fd, conn, acceptor, served>>

WriteReturn ==
  /\ call = "write" /\ ~MoreToWrite
  /\ call' = "none"
  /\ UNCHANGED <<ec, iter, buffer, total_consumed, fd, conn, acceptor, served>>

-----------------------------------------------------------------------------
(***************************************************************************)
(* The server                                                              *)
(***************************************************************************)

\* The pipe is destroyed, with its acceptor and its socket: what was not
\* accepted is reset.
Destroyed ==
  /\ acceptor' = "none" /\ served' = 0
  /\ conn' = [i \in DOMAIN conn |->
       IF conn[i].server = "queued"
       THEN [Reset(conn[i]) EXCEPT !.server = "closed"]
       ELSE IF i = served THEN CloseServer(conn[i]) ELSE conn[i]]
  /\ UNCHANGED client

\* The constructor of the acceptor: open, reuse_address, bind, listen.
MakeAcceptor ==
  /\ acceptor = "none" /\ acceptor' = "new"
  /\ UNCHANGED <<client, conn, served>>

\* The pipe goes out of scope, main returns, or the program is killed.
DestroyPipe == acceptor # "none" /\ Destroyed

Waiting == {i \in DOMAIN conn : conn[i].server = "queued"}

\* One iteration of sync_accept: a connection that was aborted in the queue
\* is passed over, and accept waits for the next.
Accept ==
  /\ acceptor = "new" /\ Waiting # {}
  /\ LET i == Min(Waiting) IN
       IF conn[i].reset
       THEN /\ conn' = Change(i, [conn[i] EXCEPT !.server = "closed"])
            /\ UNCHANGED <<acceptor, served>>
       ELSE /\ conn' = Change(i, [conn[i] EXCEPT !.server = "accepted"])
            /\ acceptor' = "done" /\ served' = i
  /\ UNCHANGED client

\* Or the system reports it as another error than connection_aborted:
\* accept throws.
AcceptThrows ==
  /\ acceptor = "new" /\ Waiting # {}
  /\ conn[Min(Waiting)].reset
  /\ Destroyed

\* read_some: WSARecv returns the first k bytes.
ReadSome(k) ==
  /\ served # 0
  /\ LET c == conn[served] IN
       /\ k <= Len(c.wire)
       /\ conn' = Change(served,
            [c EXCEPT !.got  = @ \o SubSeq(c.wire, 1, k),
                      !.wire = SubSeq(@, k + 1, Len(@))])
  /\ UNCHANGED <<client, acceptor, served>>

Ended(c) == c.reset \/ (c.client = "closed" /\ c.wire = <<>>)

ReadThrowsReset == \* mutant: 0 bytes are not taken for the end
  /\ served # 0 /\ conn[served].reset
  /\ Destroyed

\* read_some throws eof or the error of the connection.
ReadThrows ==
  /\ served # 0 /\ Ended(conn[served])
  /\ Destroyed

\* DownstreamPipe::disconnect: shutdown_both and close.
Disconnect ==
  /\ served # 0
  /\ conn' = Change(served, CloseServer(conn[served]))
  /\ served' = 0
  /\ UNCHANGED <<client, acceptor>>

\* The network gives a connection up.
LoseConnection(i) ==
  /\ Resets
  /\ i \in DOMAIN conn /\ ~conn[i].reset
  /\ conn[i].client = "open" /\ conn[i].server # "closed"
  /\ conn' = Change(i, Reset(conn[i]))
  /\ UNCHANGED <<client, acceptor, served>>

-----------------------------------------------------------------------------
Init ==
  /\ call = "none" /\ ec = "none" /\ iter = 1
  /\ buffer = <<>> /\ total_consumed = 0
  /\ fd = "invalid" /\ conn = <<>>
  /\ acceptor = "none" /\ served = 0

Connecting == ConnectTry \/ ConnectThrows

Writing == (\E k \in 1 .. MaxTransfer : WriteSome(k)) \/ WriteFails \/ WriteReturn

Reading == (\E k \in 1 .. Capacity : ReadSome(k)) \/ ReadThrows

Next ==
  \/ StartConnect \/ Connecting
  \/ (\E size \in Sizes : StartWrite(size)) \/ Writing
  \/ MakeAcceptor \/ Accept \/ AcceptThrows \/ Reading \/ Disconnect
  \/ DestroyPipe
  \/ \E i \in 1 .. MaxConnects : LoseConnection(i)

Spec == Init /\ [][Next]_vars

(***************************************************************************)
(* Calls of the client that have begun go on, and a server that has        *)
(* accepted a connection reads.  Nothing obliges a server to accept.       *)
(***************************************************************************)
FairSpec == Spec /\ WF_vars(Connecting) /\ WF_vars(Writing) /\ WF_vars(Reading)

-----------------------------------------------------------------------------
(***************************************************************************)
(* Properties                                                              *)
(***************************************************************************)
Arrived(c) == c.got \o c.wire

\* However WSASend and WSARecv cut them, the bytes of the buffers given to
\* asio::write arrive in order, once, and on the connection they were meant
\* for; and when a write has returned without an error on a connection that
\* is up, not one is missing.
WritesArrive ==
  \A i \in DOMAIN conn :
    LET c == conn[i] IN
    /\ \A j \in DOMAIN Arrived(c) : Arrived(c)[j] = j
    /\ (i = Mine /\ call = "none" /\ fd = "connected"
        /\ ~c.reset /\ c.server # "closed") =>
          ec = "none" /\ Len(Arrived(c)) = c.given

\* A Pipe that connects again has let go of its old connection, so that the
\* service at the other end of it sees the end (asio::connect closes the
\* socket, and dsp.cpp never does).
OneConnectionOpen ==
  \A i \in DOMAIN conn :
    conn[i].client = "open" => i = Mine /\ fd = "connected"

\* localhost may resolve to an address nobody listens on: as long as the
\* acceptor is there, connect gets to it.
ConnectReaches ==
  (call = "connect" /\ iter = 1 /\ acceptor # "none")
    ~> ((call = "none" /\ ec = "none") \/ acceptor = "none")

\* Once a connection has left the queue of the acceptor, a write on it
\* returns, with or without an error, however much is written and whether the
\* service reads on, disconnects, throws or is killed.  In the queue of an
\* acceptor that has accepted already it may block for good.
WriteReturns ==
  (call = "write" /\ conn[Mine].server # "queued") ~> call = "none"

\* A service that reads from a connection the client has closed gets out of
\* read_some, after it has read what was on its way.
EndIsSeen ==
  \A i \in 1 .. MaxConnects :
    (served = i /\ conn[i].client = "closed") ~> served # i
==============================================================================
