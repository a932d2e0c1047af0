--------------------------------- MODULE Tcp ---------------------------------
(***************************************************************************)
(* The TCP connections between the WaveTech services, as the services see  *)
(* them through asio, reduced to what Pipe.hpp can observe; Asio looks     *)
(* inside the calls.  The state of the network is one record, and every    *)
(* operation maps such a record to the next one:                           *)
(*                                                                         *)
(*   status[s]     closed, open, or reset (the peer aborted)               *)
(*   peer[s]       the other end, or None once the other end is closed     *)
(*   inbuf[s]      bytes that have been written to s and not been read     *)
(*   listening[p]  is there an acceptor on port p?                         *)
(*                                                                         *)
(* A connection that an acceptor has not accepted yet ends in a socket of  *)
(* the operating system, one for each port (Pending): the client is        *)
(* already connected and may write.                                        *)
(***************************************************************************)
EXTENDS Integers, Sequences

Port == {5500, 8800}

Sock == {"gui", "dsp5500", "dsp8800", "rev8800", "pend5500", "pend8800"}

None == "none"

Pending(port) == IF port = 5500 THEN "pend5500" ELSE "pend8800"

NoNet ==
  [status    |-> [s \in Sock |-> "closed"],
   peer      |-> [s \in Sock |-> None],
   inbuf     |-> [s \in Sock |-> <<>>],
   listening |-> [p \in Port |-> FALSE]]

-----------------------------------------------------------------------------
(***************************************************************************)
(* s goes away.  Its peer sees the end of the stream after the bytes that  *)
(* are already on their way; when abort holds, its peer is reset and loses *)
(* those bytes.                                                            *)
(***************************************************************************)
Gone(n, s, abort) ==
  [n EXCEPT
     !.status = [t \in Sock |-> IF t = s THEN "closed"
                                ELSE IF t = n.peer[s] /\ abort THEN "reset"
                                ELSE @[t]],
     !.peer   = [t \in Sock |-> IF t = s \/ t = n.peer[s] THEN None ELSE @[t]],
     !.inbuf  = [t \in Sock |-> IF t = s \/ (t = n.peer[s] /\ abort)
                                THEN <<>> ELSE @[t]]]

\* socket::close: closing with unread input aborts the connection.
Close(n, s) == Gone(n, s, n.inbuf[s] # <<>>)

\* The constructor of asio::ip::tcp::acceptor: bind and listen.
Listen(n, port) == [n EXCEPT !.listening[port] = TRUE]

\* Its destructor: a connection that was never accepted is reset.
StopListening(n, port) ==
  Gone([n EXCEPT !.listening[port] = FALSE], Pending(port), TRUE)

\* s and t become the two ends of a fresh connection.
Link(n, s, t) ==
  [n EXCEPT !.status[s] = "open", !.status[t] = "open",
            !.peer[s] = t,        !.peer[t] = s,
            !.inbuf[s] = <<>>,    !.inbuf[t] = <<>>]

\* asio::connect closes the socket before it connects it.
Connect(n, s, port) == Link(Close(n, s), s, Pending(port))

\* Bound: one connection at a time waits in the queue of an acceptor; the next
\* client connects when it has been accepted or dropped.
BacklogFree(n, port) == n.status[Pending(port)] = "closed"

\* acceptor::accept moves the pending connection to s.
CanAccept(n, port) == n.status[Pending(port)] = "open"

Accept(n, s, port) ==
  LET q == Pending(port) IN
  [n EXCEPT
     !.status = [@ EXCEPT ![s] = "open", ![q] = "closed"],
     !.peer   = [t \in Sock |-> IF t = s THEN @[q]
                                ELSE IF t = q THEN None
                                ELSE IF @[t] = q THEN s ELSE @[t]],
     !.inbuf  = [@ EXCEPT ![s] = n.inbuf[q], ![q] = <<>>]]

-----------------------------------------------------------------------------
\* A write to a peer that has gone is accepted, is lost, and is answered with
\* a reset; after a reset writing fails.
Write(n, s, b) ==
  CASE n.status[s] # "open" -> n
    [] n.status[s] = "open" /\ n.peer[s] = None ->
         [n EXCEPT !.status[s] = "reset", !.inbuf[s] = <<>>]
    [] OTHER -> [n EXCEPT !.inbuf[n.peer[s]] = @ \o b]

WriteFails(n, s) == n.status[s] # "open"

\* read_some blocks, takes the first k bytes, or throws.
Take(n, s, k) ==
  [n EXCEPT !.inbuf[s] = SubSeq(@, k + 1, Len(@))]

ReadFails(n, s) ==
  \/ n.status[s] # "open"
  \/ n.inbuf[s] = <<>> /\ n.peer[s] = None
==============================================================================
