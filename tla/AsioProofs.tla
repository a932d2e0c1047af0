----------------------------- MODULE AsioProofs -----------------------------
(***************************************************************************)
(* Proofs about Asio, for every list of endpoints with the listening       *)
(* family in it, every transfer and buffer size and every number of        *)
(* connections.                                                            *)
(***************************************************************************)
EXTENDS Asio, SequenceTheorems, WellFoundedInduction, TLAPS

(***************************************************************************)
(* The invariant                                                           *)
(***************************************************************************)
Connection ==
  [given : Nat, wire : Seq(Nat), got : Seq(Nat), reset : BOOLEAN,
   client : {"open", "closed"}, server : {"queued", "accepted", "closed"}]

AsioType ==
  /\ call \in {"none", "connect", "write"}
  /\ iter \in Nat \ {0}
  /\ buffer \in Seq(Nat) /\ total_consumed \in Nat
  /\ conn \in Seq(Connection)
  /\ served \in 0 .. Len(conn)

\* The client's socket: a write is made on a connection, and once the first
\* endpoint was tried, connect has no connection until it succeeds.
SocketInv ==
  /\ fd = "connected" => conn # <<>>
  /\ call = "write" => fd = "connected"
  /\ call = "connect" => iter = 1 \/ fd # "connected"

\* The bytes that were read from a connection are the first ones given to
\* asio::write, and those on their way follow.
InOrder(c) ==
  /\ \A j \in 1 .. Len(c.got) : c.got[j] = j
  /\ \A j \in 1 .. Len(c.wire) : c.wire[j] = Len(c.got) + j

Up(c) == ~c.reset /\ c.server # "closed"

\* On a connection that is up, asio::write has passed on what it has consumed,
\* and holds the bytes that follow.
WriteInv ==
  (fd = "connected" /\ Up(conn[Mine])) =>
    LET c == conn[Mine] IN
    /\ call = "none" => ec = "none" /\ Len(c.got) + Len(c.wire) = c.given
    /\ call = "write" =>
         /\ ec = "none"
         /\ total_consumed <= Len(buffer)
         /\ Len(c.got) + Len(c.wire) + Len(buffer) = c.given + total_consumed
         /\ \A k \in 1 .. Len(buffer) : buffer[k] + Len(buffer) = c.given + k

AsioInv ==
  /\ AsioType
  /\ SocketInv
  /\ OneConnectionOpen
  /\ \A i \in 1 .. Len(conn) : InOrder(conn[i])
  /\ WriteInv

-----------------------------------------------------------------------------
(***************************************************************************)
(* Connections                                                             *)
(***************************************************************************)

\* Two runs of consecutive numbers, one after the other, are one run.
LEMMA TwoRuns ==
  ASSUME NEW u, NEW s, NEW t, NEW n \in Nat, NEW a \in Nat, NEW b \in Nat,
         \A j \in 1 .. a : s[j] = n + j,
         \A j \in 1 .. b : t[j] = (n + a) + j,
         \A j \in 1 .. a + b : u[j] = IF j <= a THEN s[j] ELSE t[j - a]
  PROVE  \A j \in 1 .. a + b : u[j] = n + j
<1> SUFFICES ASSUME NEW j \in 1 .. a + b PROVE u[j] = n + j
  OBVIOUS
<1>1. CASE j <= a
  <2>1. u[j] = s[j]
    BY <1>1
  <2>2. j \in 1 .. a
    BY <1>1
  <2> QED  BY <2>1, <2>2, Zenon
<1>2. CASE ~(j <= a)
  <2>1. u[j] = t[j - a]
    BY <1>2
  <2>2. j - a \in 1 .. b
    BY <1>2
  <2>3. t[j - a] = (n + a) + (j - a)
    BY <2>2, Zenon
  <2>4. (n + a) + (j - a) = n + j
    OBVIOUS
  <2> QED  BY <2>1, <2>3, <2>4, Zenon
<1> QED  BY <1>1, <1>2

\* The same for sequences of bytes.
LEMMA ConcatCounts ==
  ASSUME NEW s \in Seq(Nat), NEW t \in Seq(Nat), NEW n \in Nat,
         \A j \in 1 .. Len(s) : s[j] = n + j,
         \A j \in 1 .. Len(t) : t[j] = (n + Len(s)) + j
  PROVE  /\ s \o t \in Seq(Nat) /\ Len(s \o t) = Len(s) + Len(t)
         /\ \A j \in 1 .. Len(s \o t) : (s \o t)[j] = n + j
<1>1. /\ s \o t \in Seq(Nat) /\ Len(s \o t) = Len(s) + Len(t)
      /\ \A j \in 1 .. Len(s) + Len(t) :
           (s \o t)[j] = IF j <= Len(s) THEN s[j] ELSE t[j - Len(s)]
  BY ConcatProperties
<1>2. Len(s) \in Nat /\ Len(t) \in Nat
  BY LenProperties
<1>3. \A j \in 1 .. Len(s) + Len(t) : (s \o t)[j] = n + j
  <2> DEFINE u == s \o t
             a == Len(s)
             b == Len(t)
  <2>1. /\ a \in Nat /\ b \in Nat
        /\ \A j \in 1 .. a : s[j] = n + j
        /\ \A j \in 1 .. b : t[j] = (n + a) + j
        /\ \A j \in 1 .. a + b : u[j] = IF j <= a THEN s[j] ELSE t[j - a]
    BY <1>1, <1>2, Zenon
  <2> HIDE DEF u, a, b
  <2>2. \A j \in 1 .. a + b : u[j] = n + j
    BY <2>1, TwoRuns
  <2> QED  BY <2>2, Zenon DEF u, a, b
<1> QED  BY <1>1, <1>3, Zenon

\* The same from the first byte on.
LEMMA ConcatFromOne ==
  ASSUME NEW s \in Seq(Nat), NEW t \in Seq(Nat),
         \A j \in 1 .. Len(s) : s[j] = j,
         \A j \in 1 .. Len(t) : t[j] = Len(s) + j
  PROVE  /\ s \o t \in Seq(Nat) /\ Len(s \o t) = Len(s) + Len(t)
         /\ \A j \in 1 .. Len(s \o t) : (s \o t)[j] = j
<1>1. Len(s) \in Nat /\ Len(t) \in Nat
  BY LenProperties
<1>2. (\A j \in Int : 0 + j = j) /\ (\A n \in Nat : \A j \in 1 .. n : j \in Int)
      /\ 0 \in Nat
  OBVIOUS
<1>3. \A j \in 1 .. Len(s) : s[j] = 0 + j
  BY <1>1, <1>2, Zenon
<1>4. 0 + Len(s) = Len(s)
  BY <1>1
<1>5. \A j \in 1 .. Len(t) : t[j] = (0 + Len(s)) + j
  BY <1>4, Zenon
<1>6. /\ s \o t \in Seq(Nat) /\ Len(s \o t) = Len(s) + Len(t)
      /\ \A j \in 1 .. Len(s \o t) : (s \o t)[j] = 0 + j
  BY <1>2, <1>3, <1>5, ConcatCounts, Zenon
<1>7. Len(s \o t) \in Nat
  BY <1>6, LenProperties
<1> QED  BY <1>2, <1>6, <1>7, Zenon

\* The fields of a connection.
LEMMA Fields ==
  ASSUME NEW c \in Connection
  PROVE  /\ c.given \in Nat /\ c.wire \in Seq(Nat) /\ c.got \in Seq(Nat)
         /\ c.reset \in BOOLEAN
         /\ c.client \in {"open", "closed"}
         /\ c.server \in {"queued", "accepted", "closed"}
BY DEF Connection

\* What a step may do to a connection without the client's doing: it loses
\* or delivers bytes that are on their way, or goes down.
Aged(c, d) ==
  /\ d \in Connection
  /\ d.client = c.client /\ d.given = c.given
  /\ InOrder(d)
  /\ Up(d) => Up(c) /\ Len(d.got) + Len(d.wire) = Len(c.got) + Len(c.wire)

\* A reset drops what is on its way.
LEMMA ResetAges ==
  ASSUME NEW c \in Connection, InOrder(c)
  PROVE  Aged(c, Reset(c))
<1> DEFINE d == Reset(c)
<1>1. d = [c EXCEPT !.reset = TRUE, !.wire = <<>>]
  BY DEF Reset
<1>2. d.reset = TRUE /\ d.wire = <<>> /\ d.got = c.got
      /\ d.client = c.client /\ d.given = c.given /\ d.server = c.server
  BY <1>1 DEF Connection
<1>3. d \in Connection
  <2>1. [c EXCEPT !.reset = TRUE] \in Connection
    BY DEF Connection
  <2>2. <<>> \in Seq(Nat)
    OBVIOUS
  <2>3. [[c EXCEPT !.reset = TRUE] EXCEPT !.wire = <<>>] \in Connection
    BY <2>1, <2>2, Zenon DEF Connection
  <2> QED  BY <1>1, <2>3
<1> HIDE DEF d
<1>4. InOrder(d)
  BY <1>2 DEF InOrder
<1>5. ~Up(d)
  BY <1>2 DEF Up
<1>6. Aged(c, d)
  BY <1>2, <1>3, <1>4, <1>5 DEF Aged
<1> QED  BY <1>6 DEF d

\* The server's end is marked.
LEMMA ServerAges ==
  ASSUME NEW c \in Connection, InOrder(c),
         NEW mark \in {"accepted", "closed"},
         mark = "closed" \/ c.server = "queued"
  PROVE  Aged(c, [c EXCEPT !.server = mark])
<1> DEFINE d == [c EXCEPT !.server = mark]
<1>1. d.reset = c.reset /\ d.wire = c.wire /\ d.got = c.got
      /\ d.client = c.client /\ d.given = c.given /\ d.server = mark
  BY DEF Connection
<1>2. d \in Connection
  BY DEF Connection
<1> HIDE DEF d
<1>3. InOrder(d)
  BY <1>1 DEF InOrder
<1>4. Up(d) => Up(c)
  BY <1>1 DEF Up
<1>5. Aged(c, d)
  BY <1>1, <1>2, <1>3, <1>4 DEF Aged
<1> QED  BY <1>5 DEF d

\* Ageing twice is ageing.
LEMMA AgedTwice ==
  ASSUME NEW c, NEW d, NEW e, Aged(c, d), Aged(d, e)
  PROVE  Aged(c, e)
BY DEF Aged

\* A connection that is left alone has aged.
LEMMA AgedSame ==
  ASSUME NEW c \in Connection, InOrder(c)
  PROVE  Aged(c, c)
BY DEF Aged

\* closesocket at the server.
LEMMA CloseServerAges ==
  ASSUME NEW c \in Connection, InOrder(c)
  PROVE  Aged(c, CloseServer(c))
<1>1. CASE c.wire # <<>>
  <2>1. Aged(c, Reset(c))
    BY ResetAges
  <2>2. Reset(c) \in Connection /\ InOrder(Reset(c))
    BY <2>1 DEF Aged
  <2>3. Aged(Reset(c), [Reset(c) EXCEPT !.server = "closed"])
    BY <2>2, ServerAges
  <2> QED  BY <1>1, <2>1, <2>3, AgedTwice DEF CloseServer
<1>2. CASE c.wire = <<>>
  BY <1>2, ServerAges DEF CloseServer
<1> QED  BY <1>1, <1>2

\* WSARecv moves the first k bytes from the wire to the reader.
LEMMA ReadAges ==
  ASSUME NEW c \in Connection, InOrder(c), NEW k \in Nat, k <= Len(c.wire)
  PROVE  Aged(c, [c EXCEPT !.got  = @ \o SubSeq(c.wire, 1, k),
                           !.wire = SubSeq(@, k + 1, Len(@))])
<1> DEFINE taken == SubSeq(c.wire, 1, k)
           left  == SubSeq(c.wire, k + 1, Len(c.wire))
           all   == c.got \o taken
           d     == [c EXCEPT !.got = all, !.wire = left]
<1>1. c.wire \in Seq(Nat) /\ c.got \in Seq(Nat)
  BY Fields
<1>2. \A i \in 1 .. Len(c.wire) : c.wire[i] \in Nat
  BY <1>1, ElementOfSeq
<1>3. Len(c.wire) \in Nat /\ Len(c.got) \in Nat
  BY <1>1, LenProperties
<1>4. /\ taken \in Seq(Nat) /\ Len(taken) = k
      /\ \A i \in 1 .. k : taken[i] = c.wire[i]
  <2>1. \A i \in 1 .. k : c.wire[i] \in Nat
    BY <1>2, <1>3
  <2>2. /\ taken \in Seq(Nat)
        /\ Len(taken) = IF 1 <= k THEN k - 1 + 1 ELSE 0
        /\ \A i \in 1 .. k - 1 + 1 : taken[i] = c.wire[1 + i - 1]
    BY <2>1, SubSeqProperties
  <2> QED  BY <2>2
<1>5. /\ left \in Seq(Nat) /\ Len(left) = Len(c.wire) - k
      /\ \A i \in 1 .. Len(c.wire) - k : left[i] = c.wire[k + i]
  <2>1. \A i \in k + 1 .. Len(c.wire) : c.wire[i] \in Nat
    BY <1>2, <1>3
  <2>2. k + 1 \in Int /\ Len(c.wire) \in Int
    BY <1>3
  <2>3. /\ left \in Seq(Nat)
        /\ Len(left) = IF k + 1 <= Len(c.wire)
                       THEN Len(c.wire) - (k + 1) + 1 ELSE 0
        /\ \A i \in 1 .. Len(c.wire) - (k + 1) + 1 :
             left[i] = c.wire[(k + 1) + i - 1]
    BY <2>1, <2>2, SubSeqProperties
  <2> QED  BY <1>3, <2>3
<1> HIDE DEF taken, left
<1>6. /\ all \in Seq(Nat) /\ Len(all) = Len(c.got) + k
      /\ \A j \in 1 .. Len(all) : all[j] = j
  <2>1. \A j \in 1 .. Len(c.got) : c.got[j] = j
    BY Zenon DEF InOrder
  <2>2. \A j \in 1 .. Len(taken) : taken[j] = Len(c.got) + j
    <3>1. \A j \in 1 .. Len(c.wire) : c.wire[j] = Len(c.got) + j
      BY Zenon DEF InOrder
    <3>2. \A j \in 1 .. k : j \in 1 .. Len(c.wire)
      BY <1>3
    <3> QED  BY <1>4, <3>1, <3>2, Zenon
  <2>3. /\ all \in Seq(Nat) /\ Len(all) = Len(c.got) + Len(taken)
        /\ \A j \in 1 .. Len(all) : all[j] = j
    BY <1>1, <1>4, <2>1, <2>2, ConcatFromOne
  <2> QED  BY <1>4, <2>3, Zenon
<1> HIDE DEF all
<1>7. d.reset = c.reset /\ d.wire = left /\ d.got = all
      /\ d.client = c.client /\ d.given = c.given /\ d.server = c.server
  BY DEF Connection
<1>8. d \in Connection
  <2>1. [c EXCEPT !.got = all] \in Connection
    BY <1>6, Zenon DEF Connection
  <2>2. [[c EXCEPT !.got = all] EXCEPT !.wire = left] \in Connection
    BY <2>1, <1>5, Zenon DEF Connection
  <2> QED  BY <2>2
<1> HIDE DEF d
<1>9. \A j \in 1 .. Len(all) : all[j] = j
  BY <1>6
<1>10. \A j \in 1 .. Len(left) : left[j] = Len(all) + j
  BY <1>3, <1>5, <1>6 DEF InOrder
<1>11. InOrder(d)
  BY <1>7, <1>9, <1>10 DEF InOrder
<1>12. Len(all) + Len(left) = Len(c.got) + Len(c.wire)
  <2>1. Len(all) = Len(c.got) + k /\ Len(left) = Len(c.wire) - k
    BY <1>5, <1>6, Zenon
  <2>2. \A a, b \in Nat : (a + k) + (b - k) = a + b
    OBVIOUS
  <2> QED  BY <1>3, <2>1, <2>2, Zenon
<1>13. Up(d) = Up(c)
  BY <1>7, Zenon DEF Up
<1>14. Aged(c, d)
  BY <1>7, <1>8, <1>11, <1>12, <1>13, Zenon DEF Aged
<1> QED  BY <1>14 DEF d, all, taken, left

-----------------------------------------------------------------------------
(***************************************************************************)
(* Steps that only age connections                                         *)
(***************************************************************************)

\* A step of the server or the network, in which connections age, keeps the
\* invariant.
LEMMA AgeingKeeps ==
  ASSUME AsioInv, UNCHANGED client,
         conn' \in Seq(Connection), Len(conn') = Len(conn),
         \A i \in 1 .. Len(conn) : Aged(conn[i], conn'[i]),
         served' \in 0 .. Len(conn)
  PROVE  AsioInv'
<1>1. UNCHANGED <<call, ec, iter, buffer, total_consumed, fd>>
  BY DEF client
<1>2. AsioType'
  BY <1>1 DEF AsioInv, AsioType
<1>3. Len(conn) \in Nat
  BY LenProperties DEF AsioInv, AsioType
<1>4. fd = "connected" => Len(conn) # 0
  BY EmptySeq DEF AsioInv, AsioType, SocketInv
<1>5. SocketInv'
  <2>1. Len(conn) # 0 => conn' # <<>>
    OBVIOUS
  <2> QED  BY <1>1, <1>4, <2>1 DEF AsioInv, SocketInv
<1>6. DOMAIN conn = 1 .. Len(conn) /\ DOMAIN conn' = 1 .. Len(conn)
  BY DEF AsioInv, AsioType
<1>7. OneConnectionOpen'
  BY <1>1, <1>6 DEF AsioInv, OneConnectionOpen, Mine, Aged
<1>8. \A i \in 1 .. Len(conn') : InOrder(conn'[i])
  BY DEF Aged
<1>9. WriteInv'
  <2> SUFFICES ASSUME fd = "connected", Up(conn'[Len(conn)])
               PROVE  WriteInv'
    BY <1>1 DEF WriteInv, Mine
  <2>1. Aged(conn[Len(conn)], conn'[Len(conn)])
    BY <1>3, <1>4
  <2> DEFINE c == conn[Len(conn)]
             d == conn'[Len(conn)]
  <2>2. Up(c) /\ Len(d.got) + Len(d.wire) = Len(c.got) + Len(c.wire)
        /\ d.given = c.given
    BY <2>1 DEF Aged
  <2>3. /\ call = "none" => ec = "none" /\ Len(c.got) + Len(c.wire) = c.given
        /\ call = "write" =>
             /\ ec = "none"
             /\ total_consumed <= Len(buffer)
             /\ Len(c.got) + Len(c.wire) + Len(buffer)
                  = c.given + total_consumed
             /\ \A k \in 1 .. Len(buffer) :
                  buffer[k] + Len(buffer) = c.given + k
    BY <2>2 DEF AsioInv, WriteInv, Mine
  <2> HIDE DEF c, d
  <2>4. /\ call = "none" => ec = "none" /\ Len(d.got) + Len(d.wire) = d.given
        /\ call = "write" =>
             /\ ec = "none"
             /\ total_consumed <= Len(buffer)
             /\ Len(d.got) + Len(d.wire) + Len(buffer)
                  = d.given + total_consumed
             /\ \A k \in 1 .. Len(buffer) :
                  buffer[k] + Len(buffer) = d.given + k
    BY <2>2, <2>3
  <2> QED  BY <1>1, <2>4 DEF d, WriteInv, Mine
<1> QED  BY <1>2, <1>5, <1>7, <1>8, <1>9 DEF AsioInv

\* One connection ages, the others are left alone.
LEMMA OneAges ==
  ASSUME AsioInv, UNCHANGED client,
         NEW i \in 1 .. Len(conn), NEW d, Aged(conn[i], d),
         conn' = Change(i, d), served' \in 0 .. Len(conn)
  PROVE  AsioInv'
<1>1. conn \in Seq(Connection) /\ d \in Connection
  BY DEF AsioInv, AsioType, Aged
<1>2. /\ conn' \in Seq(Connection) /\ Len(conn') = Len(conn)
      /\ \A j \in 1 .. Len(conn) : conn'[j] = IF j = i THEN d ELSE conn[j]
  BY <1>1, ExceptSeq DEF Change
<1>3. \A j \in 1 .. Len(conn) : conn[j] \in Connection /\ InOrder(conn[j])
  BY <1>1, ElementOfSeq DEF AsioInv
<1>4. \A j \in 1 .. Len(conn) : Aged(conn[j], conn'[j])
  BY <1>2, <1>3, AgedSame
<1> QED  BY <1>2, <1>4, AgeingKeeps

\* The queue of listen has a first connection when it is not empty.
LEMMA FirstWaiting ==
  ASSUME conn \in Seq(Connection), Waiting # {}
  PROVE  /\ Min(Waiting) \in 1 .. Len(conn)
         /\ conn[Min(Waiting)].server = "queued"
<1>1. Waiting \subseteq 1 .. Len(conn) /\ Waiting \subseteq Nat
  BY DEF Waiting
<1>2. PICK x \in Waiting : \A y \in Waiting : ~(<<y, x>> \in OpToRel(<, Nat))
  BY <1>1, NatLessThanWellFounded, WFMin
<1>3. \A y \in Waiting : ~(y < x)
  BY <1>1, <1>2 DEF OpToRel
<1>4. \A y \in Waiting : x <= y
  BY <1>1, <1>3
<1>5. Min(Waiting) \in Waiting
  BY <1>4 DEF Min
<1> QED  BY <1>1, <1>5 DEF Waiting

\* The steps of the server and of the network.
LEMMA ServerNext ==
  ASSUME AsioInv,
         \/ MakeAcceptor \/ Accept \/ AcceptThrows \/ Reading \/ Disconnect
         \/ DestroyPipe
         \/ \E i \in 1 .. MaxConnects : LoseConnection(i)
  PROVE  AsioInv'
<1>1. conn \in Seq(Connection) /\ served \in 0 .. Len(conn)
  BY DEF AsioInv, AsioType
<1>2. \A i \in 1 .. Len(conn) : conn[i] \in Connection /\ InOrder(conn[i])
  BY <1>1, ElementOfSeq DEF AsioInv
<1>3. 0 \in 0 .. Len(conn) /\ Len(conn) \in Nat /\ DOMAIN conn = 1 .. Len(conn)
  BY <1>1
<1>4. served # 0 => served \in 1 .. Len(conn)
  BY <1>1, <1>3
<1>5. CASE MakeAcceptor
  <2>1. UNCHANGED <<client, conn, served>>
    BY <1>5 DEF MakeAcceptor
  <2>2. \A i \in 1 .. Len(conn) : Aged(conn[i], conn[i])
    BY <1>2, AgedSame
  <2> QED  BY <1>1, <2>1, <2>2, AgeingKeeps
<1>6. CASE Destroyed
  <2> DEFINE e(i) == IF conn[i].server = "queued"
                     THEN [Reset(conn[i]) EXCEPT !.server = "closed"]
                     ELSE IF i = served THEN CloseServer(conn[i]) ELSE conn[i]
  <2>1. /\ conn' = [i \in 1 .. Len(conn) |-> e(i)]
        /\ served' = 0 /\ UNCHANGED client
    BY <1>3, <1>6 DEF Destroyed
  <2>2. ASSUME NEW i \in 1 .. Len(conn) PROVE Aged(conn[i], e(i))
    <3>1. Aged(conn[i], Reset(conn[i]))
      BY <1>2, ResetAges
    <3>2. Reset(conn[i]) \in Connection /\ InOrder(Reset(conn[i]))
      BY <3>1 DEF Aged
    <3>3. Aged(Reset(conn[i]), [Reset(conn[i]) EXCEPT !.server = "closed"])
      BY <3>2, ServerAges
    <3>4. Aged(conn[i], [Reset(conn[i]) EXCEPT !.server = "closed"])
      BY <3>1, <3>3, AgedTwice
    <3>5. Aged(conn[i], CloseServer(conn[i]))
      BY <1>2, CloseServerAges
    <3> QED  BY <1>2, <3>4, <3>5, AgedSame
  <2> HIDE DEF e
  <2>3. \A i \in 1 .. Len(conn) : e(i) \in Connection
    BY <2>2 DEF Aged
  <2>4. conn' \in Seq(Connection) /\ Len(conn') = Len(conn)
    BY <1>3, <2>1, <2>3, IsASeq
  <2>5. \A i \in 1 .. Len(conn) : Aged(conn[i], conn'[i])
    BY <2>1, <2>2
  <2> QED  BY <1>3, <2>1, <2>4, <2>5, AgeingKeeps
<1>7. CASE Accept
  <2> DEFINE i == Min(Waiting)
  <2>1. i \in 1 .. Len(conn) /\ conn[i].server = "queued"
    BY <1>1, <1>7, FirstWaiting DEF Accept
  <2>2. /\ UNCHANGED client
        /\ \/ /\ conn' = Change(i, [conn[i] EXCEPT !.server = "closed"])
              /\ served' = served
           \/ /\ conn' = Change(i, [conn[i] EXCEPT !.server = "accepted"])
              /\ served' = i
    BY <1>7, Zenon DEF Accept
  <2> HIDE DEF i
  <2>3. Aged(conn[i], [conn[i] EXCEPT !.server = "closed"])
    BY <1>2, <2>1, ServerAges
  <2>4. Aged(conn[i], [conn[i] EXCEPT !.server = "accepted"])
    BY <1>2, <2>1, ServerAges
  <2>5. i \in 0 .. Len(conn)
    BY <1>3, <2>1
  <2> QED  BY <1>1, <2>1, <2>2, <2>3, <2>4, <2>5, OneAges
<1>8. ASSUME NEW k \in 1 .. Capacity, ReadSome(k) PROVE AsioInv'
  <2>1. /\ served # 0 /\ k \in Nat /\ k <= Len(conn[served].wire)
        /\ UNCHANGED <<client, served>>
    BY <1>8 DEF ReadSome
  <2> DEFINE c == conn[served]
             d == [c EXCEPT !.got  = @ \o SubSeq(c.wire, 1, k),
                            !.wire = SubSeq(@, k + 1, Len(@))]
  <2>2. Aged(c, d)
    BY <1>2, <1>4, <2>1, ReadAges
  <2>3. conn' = Change(served, d)
    BY <1>8, Zenon DEF ReadSome
  <2> HIDE DEF d
  <2> QED  BY <1>1, <1>4, <2>1, <2>2, <2>3, OneAges
<1>9. CASE Disconnect
  <2>1. /\ served # 0 /\ UNCHANGED client /\ served' = 0
        /\ conn' = Change(served, CloseServer(conn[served]))
    BY <1>9, Zenon DEF Disconnect
  <2>2. Aged(conn[served], CloseServer(conn[served]))
    BY <1>2, <1>4, <2>1, CloseServerAges
  <2> QED  BY <1>3, <1>4, <2>1, <2>2, OneAges
<1>10. ASSUME NEW i \in 1 .. MaxConnects, LoseConnection(i) PROVE AsioInv'
  <2>1. /\ i \in 1 .. Len(conn) /\ UNCHANGED <<client, served>>
        /\ conn' = Change(i, Reset(conn[i]))
    BY <1>3, <1>10 DEF LoseConnection
  <2>2. Aged(conn[i], Reset(conn[i]))
    BY <1>2, <2>1, ResetAges
  <2> QED  BY <1>1, <2>1, <2>2, OneAges
<1> QED  BY <1>5, <1>6, <1>7, <1>8, <1>9, <1>10
         DEF Reading, AcceptThrows, ReadThrows, DestroyPipe

-----------------------------------------------------------------------------
(***************************************************************************)
(* The client                                                              *)
(***************************************************************************)

\* After the close in asio::connect no connection is open at the client.
LEMMA AllClosed ==
  ASSUME AsioInv
  PROVE  /\ CloseClient \in Seq(Connection) /\ Len(CloseClient) = Len(conn)
         /\ \A i \in 1 .. Len(conn) : /\ InOrder(CloseClient[i])
                                      /\ CloseClient[i].client = "closed"
<1>1. conn \in Seq(Connection) /\ DOMAIN conn = 1 .. Len(conn)
      /\ Len(conn) \in Nat
  BY DEF AsioInv, AsioType
<1> DEFINE e(i) == IF i = Mine /\ fd = "connected"
                   THEN [conn[i] EXCEPT !.client = "closed"] ELSE conn[i]
<1>2. CloseClient = [i \in 1 .. Len(conn) |-> e(i)]
  BY <1>1 DEF CloseClient
<1>3. ASSUME NEW i \in 1 .. Len(conn)
      PROVE  e(i) \in Connection /\ InOrder(e(i)) /\ e(i).client = "closed"
  <2>1. conn[i] \in Connection /\ InOrder(conn[i])
    BY <1>1, ElementOfSeq DEF AsioInv
  <2>2. CASE i = Mine /\ fd = "connected"
    <3> DEFINE d == [conn[i] EXCEPT !.client = "closed"]
    <3>1. d \in Connection /\ d.client = "closed" /\ d.got = conn[i].got
          /\ d.wire = conn[i].wire
      BY <2>1, Zenon DEF Connection
    <3>2. e(i) = d
      BY <2>2
    <3> HIDE DEF d
    <3>3. InOrder(d)
      BY <2>1, <3>1 DEF InOrder
    <3> QED  BY <3>1, <3>2, <3>3
  <2>3. CASE ~(i = Mine /\ fd = "connected")
    <3>1. conn[i].client # "open"
      BY <1>1, <2>3 DEF AsioInv, OneConnectionOpen
    <3>2. conn[i].client = "closed"
      BY <2>1, <3>1, Fields
    <3> QED  BY <2>1, <2>3, <3>2
  <2> QED  BY <2>2, <2>3
<1> HIDE DEF e
<1>4. CloseClient \in Seq(Connection) /\ Len(CloseClient) = Len(conn)
  BY <1>1, <1>2, <1>3, IsASeq
<1> QED  BY <1>2, <1>3, <1>4

\* A new connection.
LEMMA QueuedType ==
  /\ Queued \in Connection /\ InOrder(Queued)
  /\ Queued.given = 0 /\ Queued.got = <<>> /\ Queued.wire = <<>>
<1>1. Queued \in Connection
  <2>1. <<>> \in Seq(Nat)
    OBVIOUS
  <2> QED  BY <2>1 DEF Queued, Connection
<1>2. Queued.given = 0 /\ Queued.got = <<>> /\ Queued.wire = <<>>
  BY DEF Queued
<1>3. InOrder(Queued)
  BY <1>2 DEF InOrder
<1> QED  BY <1>1, <1>2, <1>3

\* asio::connect reaches the listener: one connection more, and it is the
\* only one that is open at the client.
LEMMA ConnectedNext ==
  ASSUME AsioInv, conn' = Append(CloseClient, Queued),
         fd' = "connected", call' = "none", ec' = "none",
         UNCHANGED <<iter, buffer, total_consumed, served>>
  PROVE  AsioInv'
<1>1. /\ CloseClient \in Seq(Connection) /\ Len(CloseClient) = Len(conn)
      /\ \A i \in 1 .. Len(conn) : /\ InOrder(CloseClient[i])
                                   /\ CloseClient[i].client = "closed"
  BY AllClosed
<1>2. Len(conn) \in Nat
  BY DEF AsioInv, AsioType
<1>3. /\ conn' \in Seq(Connection) /\ Len(conn') = Len(conn) + 1
      /\ conn' # <<>>
      /\ \A i \in 1 .. Len(conn) : conn'[i] = CloseClient[i]
      /\ conn'[Len(conn) + 1] = Queued
  BY <1>1, QueuedType, AppendProperties
<1>4. 1 .. Len(conn') = 1 .. Len(conn) \cup {Len(conn) + 1}
  BY <1>2, <1>3
<1>5. DOMAIN conn' = 1 .. Len(conn')
  BY <1>3
<1>6. AsioType'
  BY <1>2, <1>3 DEF AsioInv, AsioType
<1>7. SocketInv'
  BY <1>3 DEF SocketInv
<1>8. OneConnectionOpen'
  BY <1>1, <1>3, <1>4, <1>5 DEF OneConnectionOpen, Mine
<1>9. \A i \in 1 .. Len(conn') : InOrder(conn'[i])
  BY <1>1, <1>3, <1>4, QueuedType
<1>10. WriteInv'
  <2>1. conn'[Len(conn')] = Queued
    BY <1>3
  <2>2. Len(Queued.got) + Len(Queued.wire) = Queued.given
    BY QueuedType
  <2> QED  BY <2>1, <2>2, Zenon DEF WriteInv, Mine
<1> QED  BY <1>6, <1>7, <1>8, <1>9, <1>10 DEF AsioInv

\* An endpoint refuses: nothing is open at the client.
LEMMA RefusedNext ==
  ASSUME AsioInv, conn' = CloseClient, fd' = "open", call' = "connect",
         iter' = iter + 1, UNCHANGED <<buffer, total_consumed, served>>
  PROVE  AsioInv'
<1>1. /\ conn' \in Seq(Connection) /\ Len(conn') = Len(conn)
      /\ \A i \in 1 .. Len(conn) : /\ InOrder(conn'[i])
                                   /\ conn'[i].client = "closed"
  BY AllClosed
<1>2. AsioType'
  BY <1>1 DEF AsioInv, AsioType
<1>3. SocketInv'
  BY DEF SocketInv
<1>4. DOMAIN conn' = 1 .. Len(conn)
  BY <1>1
<1>5. OneConnectionOpen'
  BY <1>1, <1>4 DEF OneConnectionOpen
<1>6. WriteInv'
  BY DEF WriteInv
<1> QED  BY <1>1, <1>2, <1>3, <1>5, <1>6 DEF AsioInv

\* Steps that leave the connections alone.
LEMMA SameConnections ==
  ASSUME AsioInv, UNCHANGED <<conn, fd, served>>, AsioType', SocketInv', WriteInv'
  PROVE  AsioInv'
BY DEF AsioInv, OneConnectionOpen, Mine

\* The steps of asio::connect.
LEMMA ConnectNext ==
  ASSUME AsioInv, StartConnect \/ Connecting
  PROVE  AsioInv'
<1>1. CASE StartConnect
  <2>1. AsioType' /\ SocketInv' /\ WriteInv'
    BY <1>1 DEF StartConnect, AsioInv, AsioType, SocketInv, WriteInv
  <2> QED  BY <1>1, <2>1, SameConnections DEF StartConnect
<1>2. CASE ConnectTry
  <2>1. \/ /\ conn' = Append(CloseClient, Queued)
           /\ fd' = "connected" /\ call' = "none" /\ ec' = "none"
           /\ UNCHANGED iter
        \/ /\ conn' = CloseClient
           /\ fd' = "open" /\ ec' = "refused" /\ iter' = iter + 1
           /\ call' = "connect"
    BY <1>2, Zenon DEF ConnectTry
  <2>2. UNCHANGED <<buffer, total_consumed, served>>
    BY <1>2 DEF ConnectTry
  <2> QED  BY <2>1, <2>2, ConnectedNext, RefusedNext
<1>3. CASE ConnectThrows
  <2>1. Len(Endpoints) >= 1
    BY AsioAssumption
  <2>2. call = "connect" /\ iter # 1
    BY <1>3, <2>1 DEF ConnectThrows
  <2>3. fd # "connected"
    BY <2>2 DEF AsioInv, SocketInv
  <2>4. AsioType' /\ SocketInv' /\ WriteInv'
    BY <1>3, <2>3 DEF ConnectThrows, AsioInv, AsioType, SocketInv, WriteInv
  <2> QED  BY <1>3, <2>4, SameConnections DEF ConnectThrows
<1> QED  BY <1>1, <1>2, <1>3 DEF Connecting

\* The client changes its connection, and leaves it open at its end.
LEMMA MineChanges ==
  ASSUME AsioInv, fd = "connected",
         NEW d \in Connection, InOrder(d), d.client = conn[Mine].client,
         conn' = Change(Mine, d), UNCHANGED <<fd, served>>
  PROVE  /\ conn' \in Seq(Connection) /\ Len(conn') = Len(conn)
         /\ conn' # <<>> /\ conn'[Len(conn)] = d
         /\ served' \in 0 .. Len(conn')
         /\ OneConnectionOpen'
         /\ \A i \in 1 .. Len(conn') : InOrder(conn'[i])
<1>1. conn \in Seq(Connection) /\ Len(conn) \in Nat /\ Len(conn) # 0
      /\ served \in 0 .. Len(conn)
  BY EmptySeq DEF AsioInv, AsioType, SocketInv
<1>2. Mine \in 1 .. Len(conn) /\ Mine = Len(conn)
  BY <1>1 DEF Mine
<1>3. /\ conn' \in Seq(Connection) /\ Len(conn') = Len(conn)
      /\ \A j \in 1 .. Len(conn) : conn'[j] = IF j = Mine THEN d ELSE conn[j]
  BY <1>1, <1>2, ExceptSeq DEF Change
<1>4. DOMAIN conn = 1 .. Len(conn) /\ DOMAIN conn' = 1 .. Len(conn)
  BY <1>1, <1>3
<1>5. OneConnectionOpen'
  BY <1>2, <1>3, <1>4 DEF AsioInv, OneConnectionOpen, Mine
<1>6. \A i \in 1 .. Len(conn') : InOrder(conn'[i])
  BY <1>3 DEF AsioInv
<1>7. conn' # <<>>
  BY <1>1, <1>3
<1> QED  BY <1>1, <1>2, <1>3, <1>5, <1>6, <1>7

\* asio::write is called.
LEMMA StartWriteNext ==
  ASSUME AsioInv, NEW size \in Sizes, StartWrite(size)
  PROVE  AsioInv'
<1> DEFINE c == conn[Mine]
           d == [c EXCEPT !.given = @ + size]
<1>1. /\ call = "none" /\ fd = "connected" /\ UNCHANGED <<iter, fd, served>>
      /\ call' = "write" /\ ec' = "none" /\ total_consumed' = 0
      /\ buffer' = [i \in 1 .. size |-> c.given + i]
      /\ conn' = Change(Mine, d)
  BY Zenon DEF StartWrite
<1>2. size \in Nat
  BY AsioAssumption
<1>3. c \in Connection /\ InOrder(c)
  <2>1. conn \in Seq(Connection) /\ Mine \in 1 .. Len(conn)
    BY <1>1, EmptySeq DEF AsioInv, AsioType, SocketInv, Mine
  <2> QED  BY <2>1, ElementOfSeq DEF AsioInv
<1>4. c.given \in Nat /\ Len(c.got) \in Nat /\ Len(c.wire) \in Nat
  BY <1>3, Fields, LenProperties
<1>5. c.given + size \in Nat
  BY <1>2, <1>4
<1>6. /\ d \in Connection /\ d.given = c.given + size /\ d.got = c.got
      /\ d.wire = c.wire /\ d.client = c.client /\ d.reset = c.reset
      /\ d.server = c.server
  BY <1>3, <1>5, Zenon DEF Connection
<1> HIDE DEF d
<1>7. InOrder(d)
  BY <1>3, <1>6 DEF InOrder
<1>8. buffer' \in Seq(Nat) /\ Len(buffer') = size
      /\ \A k \in 1 .. size : buffer'[k] = c.given + k
  <2> DEFINE e(i) == c.given + i
  <2>1. \A i \in 1 .. size : e(i) \in Nat
    BY <1>4
  <2>2. buffer' = [i \in 1 .. size |-> e(i)]
    BY <1>1
  <2> HIDE DEF e
  <2>3. buffer' \in Seq(Nat) /\ Len(buffer') = size
        /\ \A k \in 1 .. size : buffer'[k] = e(k)
    BY <1>2, <2>1, <2>2, IsASeq
  <2> QED  BY <2>3 DEF e
<1>9. /\ conn' \in Seq(Connection) /\ Len(conn') = Len(conn)
      /\ conn' # <<>> /\ conn'[Len(conn)] = d
      /\ served' \in 0 .. Len(conn')
      /\ OneConnectionOpen'
      /\ \A i \in 1 .. Len(conn') : InOrder(conn'[i])
  BY <1>1, <1>6, <1>7, MineChanges
<1>10. AsioType'
  BY <1>1, <1>8, <1>9 DEF AsioInv, AsioType
<1>11. SocketInv'
  BY <1>1, <1>9 DEF SocketInv
<1>12. WriteInv'
  <2> SUFFICES ASSUME Up(d)
               PROVE  /\ total_consumed' <= Len(buffer')
                      /\ Len(d.got) + Len(d.wire) + Len(buffer')
                           = d.given + total_consumed'
                      /\ \A k \in 1 .. Len(buffer') :
                           buffer'[k] + Len(buffer') = d.given + k
    BY <1>1, <1>9, Zenon DEF WriteInv, Mine
  <2>1. Up(c)
    BY <1>6, Zenon DEF Up
  <2>2. Len(c.got) + Len(c.wire) = c.given
    BY <1>1, <2>1, Zenon DEF AsioInv, WriteInv
  <2>3. Len(d.got) = Len(c.got) /\ Len(d.wire) = Len(c.wire)
    BY <1>6
  <2> HIDE DEF c
  <2>4. Len(d.got) + Len(d.wire) = c.given
    BY <2>2, <2>3
  <2>5. total_consumed' <= Len(buffer')
    BY <1>1, <1>2, <1>8
  <2>6. Len(d.got) + Len(d.wire) + Len(buffer') = d.given + total_consumed'
    <3>1. \A g, n \in Nat : g + n = (g + n) + 0
      OBVIOUS
    <3> QED  BY <1>1, <1>2, <1>4, <1>6, <1>8, <2>4, <3>1, Zenon
  <2>7. \A k \in 1 .. Len(buffer') : buffer'[k] + Len(buffer') = d.given + k
    BY <1>2, <1>4, <1>6, <1>8
  <2> QED  BY <2>5, <2>6, <2>7
<1> QED  BY <1>9, <1>10, <1>11, <1>12 DEF AsioInv

\* One WSASend of asio::write: it takes the next k bytes.
LEMMA WriteSomeNext ==
  ASSUME AsioInv, NEW k \in Nat, WriteSome(k)
  PROVE  AsioInv'
<1> DEFINE c == conn[Mine]
<1>1. /\ call = "write" /\ MoreToWrite /\ total_consumed + k <= Len(buffer)
      /\ ~c.reset /\ total_consumed' = total_consumed + k
      /\ UNCHANGED <<call, ec, iter, buffer, fd, served>>
  BY DEF WriteSome
<1>2. fd = "connected"
  BY <1>1 DEF AsioInv, SocketInv
<1>3. c \in Connection /\ InOrder(c)
  <2>1. conn \in Seq(Connection) /\ Mine \in 1 .. Len(conn)
    BY <1>2, EmptySeq DEF AsioInv, AsioType, SocketInv, Mine
  <2> QED  BY <2>1, ElementOfSeq DEF AsioInv
<1>4. total_consumed \in Nat /\ buffer \in Seq(Nat)
  BY DEF AsioInv, AsioType
<1>5. ASSUME NEW d \in Connection, InOrder(d), d.client = c.client,
             conn' = Change(Mine, d),
             Up(d) => /\ ec = "none"
                      /\ Len(d.got) + Len(d.wire) + Len(buffer)
                           = d.given + (total_consumed + k)
                      /\ \A j \in 1 .. Len(buffer) :
                           buffer[j] + Len(buffer) = d.given + j
      PROVE  AsioInv'
  <2>1. /\ conn' \in Seq(Connection) /\ Len(conn') = Len(conn)
        /\ conn' # <<>> /\ conn'[Len(conn)] = d
        /\ served' \in 0 .. Len(conn')
        /\ OneConnectionOpen'
        /\ \A i \in 1 .. Len(conn') : InOrder(conn'[i])
    BY <1>1, <1>2, <1>5, MineChanges
  <2>2. AsioType'
    BY <1>1, <1>4, <2>1 DEF AsioInv, AsioType
  <2>3. SocketInv'
    BY <1>1, <1>2, <2>1 DEF SocketInv
  <2>4. WriteInv'
    BY <1>1, <1>5, <2>1, Zenon DEF WriteInv, Mine
  <2> QED  BY <2>1, <2>2, <2>3, <2>4 DEF AsioInv
<1>6. CASE c.server = "closed" /\ conn' = Change(Mine, Reset(c))
  <2>1. Aged(c, Reset(c))
    BY <1>3, ResetAges
  <2>2. ~Up(Reset(c))
    BY <1>6, <2>1 DEF Aged, Up
  <2> QED  BY <1>5, <1>6, <2>1, <2>2 DEF Aged
<1>7. CASE /\ c.server # "closed"
           /\ conn' = Change(Mine, [c EXCEPT !.wire = @ \o Prepared(k)])
  <2> DEFINE p == Prepared(k)
             w == c.wire \o p
             d == [c EXCEPT !.wire = w]
  <2>1. Up(c)
    BY <1>1, <1>7 DEF Up
  <2>2. /\ ec = "none" /\ total_consumed <= Len(buffer)
        /\ Len(c.got) + Len(c.wire) + Len(buffer) = c.given + total_consumed
        /\ \A j \in 1 .. Len(buffer) : buffer[j] + Len(buffer) = c.given + j
    BY <1>1, <1>2, <2>1, Zenon DEF AsioInv, WriteInv
  <2>3. /\ c.given \in Nat /\ c.got \in Seq(Nat) /\ c.wire \in Seq(Nat)
        /\ Len(c.got) \in Nat /\ Len(c.wire) \in Nat /\ Len(buffer) \in Nat
    BY <1>3, <1>4, Fields, LenProperties
  <2>4. /\ p \in Seq(Nat) /\ Len(p) = k
        /\ \A j \in 1 .. k : p[j] = buffer[total_consumed + j]
    <3>1. /\ \A i \in total_consumed + 1 .. total_consumed + k :
               buffer[i] \in Nat
          /\ total_consumed + 1 \in Int /\ total_consumed + k \in Int
      BY <1>1, <1>4, ElementOfSeq
    <3>2. /\ p \in Seq(Nat)
          /\ Len(p) = IF total_consumed + 1 <= total_consumed + k
                      THEN (total_consumed + k) - (total_consumed + 1) + 1
                      ELSE 0
          /\ \A i \in 1 .. (total_consumed + k) - (total_consumed + 1) + 1 :
               p[i] = buffer[(total_consumed + 1) + i - 1]
      BY <3>1, SubSeqProperties DEF Prepared
    <3> HIDE DEF p
    <3>3. Len(p) = k
      BY <1>4, <3>2
    <3>4. \A j \in 1 .. k : p[j] = buffer[total_consumed + j]
      <4> SUFFICES ASSUME NEW j \in 1 .. k
                   PROVE  p[j] = buffer[total_consumed + j]
        OBVIOUS
      <4>1. /\ j \in 1 .. (total_consumed + k) - (total_consumed + 1) + 1
            /\ (total_consumed + 1) + j - 1 = total_consumed + j
        BY <1>4
      <4> QED  BY <3>2, <4>1
    <3> QED  BY <3>2, <3>3, <3>4
  <2> HIDE DEF p
  <2>5. /\ w \in Seq(Nat) /\ Len(w) = Len(c.wire) + k
        /\ \A j \in 1 .. Len(w) : w[j] = Len(c.got) + j
    <3>1. \A j \in 1 .. Len(c.wire) : c.wire[j] = Len(c.got) + j
      BY <1>3, Zenon DEF InOrder
    <3>2. \A j \in 1 .. Len(p) : p[j] = (Len(c.got) + Len(c.wire)) + j
      <4> SUFFICES ASSUME NEW j \in 1 .. k
                   PROVE  p[j] = (Len(c.got) + Len(c.wire)) + j
        BY <2>4
      <4> DEFINE b == buffer[total_consumed + j]
      <4>1. total_consumed + j \in 1 .. Len(buffer)
        BY <1>1, <1>4
      <4>2. b + Len(buffer) = c.given + (total_consumed + j)
        BY <2>2, <4>1, Zenon
      <4>3. b \in Nat
        BY <1>4, <4>1, ElementOfSeq
      <4>4. j \in Nat
        OBVIOUS
      <4>5. Len(c.got) + Len(c.wire) + Len(buffer) = c.given + total_consumed
        BY <2>2, Zenon
      <4> HIDE DEF b
      <4>6. b = (Len(c.got) + Len(c.wire)) + j
        <5> DEFINE x == Len(c.got)
                   y == Len(c.wire)
                   z == Len(buffer)
                   g == c.given
        <5>1. /\ x \in Nat /\ y \in Nat /\ z \in Nat /\ g \in Nat
              /\ b + z = g + (total_consumed + j)
              /\ x + y + z = g + total_consumed
          BY <2>3, <4>2, <4>5, Zenon
        <5> HIDE DEF x, y, z, g
        <5>2. b = (x + y) + j
          BY <1>4, <4>3, <4>4, <5>1
        <5> QED  BY <5>2, Zenon DEF x, y
      <4> QED  BY <2>4, <4>6 DEF b
    <3> QED  BY <2>3, <2>4, <3>1, <3>2, ConcatCounts
  <2> HIDE DEF w
  <2>6. /\ d \in Connection /\ d.given = c.given /\ d.got = c.got
        /\ d.wire = w /\ d.client = c.client
    BY <1>3, <2>5, Zenon DEF Connection
  <2>7. conn' = Change(Mine, d)
    BY <1>7 DEF d, w, p
  <2> HIDE DEF d
  <2>9. InOrder(d)
    BY <1>3, <2>5, <2>6 DEF InOrder
  <2>10. Len(d.got) + Len(d.wire) + Len(buffer) = d.given + (total_consumed + k)
    <3>1. Len(d.got) = Len(c.got) /\ Len(d.wire) = Len(c.wire) + k
      BY <2>5, <2>6, Zenon
    <3>2. Len(c.got) + Len(c.wire) + Len(buffer) = c.given + total_consumed
      BY <2>2, Zenon
    <3>4. Len(c.got) + (Len(c.wire) + k) + Len(buffer)
            = c.given + (total_consumed + k)
      <4> DEFINE x == Len(c.got)
                 y == Len(c.wire)
                 z == Len(buffer)
                 g == c.given
      <4>1. /\ x \in Nat /\ y \in Nat /\ z \in Nat /\ g \in Nat
            /\ x + y + z = g + total_consumed
        BY <2>3, <3>2, Zenon
      <4> HIDE DEF x, y, z, g
      <4>2. x + (y + k) + z = g + (total_consumed + k)
        BY <1>4, <4>1
      <4> QED  BY <4>2, Zenon DEF x, y, z, g
    <3> QED  BY <2>6, <3>1, <3>4, Zenon
  <2>11. \A j \in 1 .. Len(buffer) : buffer[j] + Len(buffer) = d.given + j
    BY <2>2, <2>6, Zenon
  <2> QED  BY <1>5, <2>2, <2>6, <2>7, <2>9, <2>10, <2>11, Zenon
<1> QED  BY <1>6, <1>7, Zenon DEF WriteSome

\* The steps of asio::write.
LEMMA WriteNext ==
  ASSUME AsioInv, (\E size \in Sizes : StartWrite(size)) \/ Writing
  PROVE  AsioInv'
<1>1. ASSUME NEW k \in 1 .. MaxTransfer, WriteSome(k) PROVE AsioInv'
  BY <1>1, WriteSomeNext
<1>2. CASE WriteFails
  <2>1. ~Up(conn[Mine])
    BY <1>2 DEF WriteFails, Up
  <2>2. AsioType' /\ SocketInv' /\ WriteInv'
    BY <1>2, <2>1 DEF WriteFails, AsioInv, AsioType, SocketInv, WriteInv, Mine
  <2> QED  BY <1>2, <2>2, SameConnections DEF WriteFails
<1>3. CASE WriteReturn
  <2>1. /\ call = "write" /\ ~MoreToWrite /\ call' = "none"
        /\ UNCHANGED <<ec, iter, buffer, total_consumed, fd, conn, served>>
    BY <1>3 DEF WriteReturn
  <2>2. AsioType' /\ SocketInv'
    BY <2>1 DEF AsioInv, AsioType, SocketInv
  <2>3. WriteInv'
    <3> DEFINE c == conn[Mine]
    <3> SUFFICES ASSUME fd = "connected", Up(c)
                 PROVE  ec = "none" /\ Len(c.got) + Len(c.wire) = c.given
      BY <2>1 DEF WriteInv, Mine
    <3>1. /\ ec = "none" /\ total_consumed <= Len(buffer)
          /\ Len(c.got) + Len(c.wire) + Len(buffer) = c.given + total_consumed
      BY <2>1, Zenon DEF AsioInv, WriteInv
    <3>2. conn \in Seq(Connection) /\ Mine \in 1 .. Len(conn)
      BY EmptySeq DEF AsioInv, AsioType, SocketInv, Mine
    <3>3. c \in Connection
      BY <3>2, ElementOfSeq
    <3>4. /\ c.given \in Nat /\ Len(c.got) \in Nat /\ Len(c.wire) \in Nat
          /\ Len(buffer) \in Nat /\ total_consumed \in Nat
      BY <3>3, Fields, LenProperties DEF AsioInv, AsioType
    <3>5. total_consumed = Len(buffer)
      BY <2>1, <3>1, <3>4 DEF MoreToWrite
    <3> DEFINE x == Len(c.got)
               y == Len(c.wire)
               z == Len(buffer)
               g == c.given
    <3>6. /\ x \in Nat /\ y \in Nat /\ z \in Nat /\ g \in Nat
          /\ x + y + z = g + z
      BY <3>1, <3>4, <3>5, Zenon
    <3> HIDE DEF x, y, z, g
    <3>7. x + y = g
      BY <3>6
    <3> QED  BY <3>1, <3>7, Zenon DEF x, y, g
  <2> QED  BY <2>1, <2>2, <2>3, SameConnections
<1> QED  BY <1>1, <1>2, <1>3, StartWriteNext DEF Writing

-----------------------------------------------------------------------------
(***************************************************************************)
(* Theorems                                                                *)
(***************************************************************************)

\* Before the first call nothing is connected.
LEMMA AsioInit == Init => AsioInv
BY DEF Init, AsioInv, AsioType, SocketInv, OneConnectionOpen, WriteInv

\* The invariant holds whatever the client, the server and the network do.
LEMMA SpecAsio == Spec => []AsioInv
<1>1. AsioInv /\ [Next]_vars => AsioInv'
  <2> SUFFICES ASSUME AsioInv, [Next]_vars PROVE AsioInv'
    OBVIOUS
  <2>1. CASE UNCHANGED vars
    BY <2>1 DEF vars, AsioInv, AsioType, SocketInv, OneConnectionOpen,
                WriteInv, Mine
  <2> QED  BY <2>1, ConnectNext, WriteNext, ServerNext DEF Next
<1> QED  BY <1>1, AsioInit, PTL DEF Spec

\* A Pipe that connects again has let go of its old connection, however often
\* it connects and however many endpoints refuse.
THEOREM OldConnectionsClosed == Spec => []OneConnectionOpen
BY SpecAsio, PTL DEF AsioInv

\* For every size of buffers, sends and reads: the bytes given to asio::write
\* arrive in order, once and on their own connection, and when a write has
\* returned without an error on a connection that is up, all of them.
THEOREM WritesDoArrive == Spec => []WritesArrive
<1>1. AsioInv => WritesArrive
  <2> SUFFICES ASSUME AsioInv, NEW i \in DOMAIN conn
               PROVE  LET c == conn[i] IN
                      /\ \A j \in DOMAIN Arrived(c) : Arrived(c)[j] = j
                      /\ (i = Mine /\ call = "none" /\ fd = "connected"
                          /\ ~c.reset /\ c.server # "closed") =>
                            ec = "none" /\ Len(Arrived(c)) = c.given
    BY DEF WritesArrive
  <2> DEFINE c == conn[i]
             a == Arrived(c)
  <2>1. c \in Connection /\ InOrder(c)
    <3>1. conn \in Seq(Connection) /\ i \in 1 .. Len(conn)
      BY DEF AsioInv, AsioType
    <3> QED  BY <3>1, ElementOfSeq DEF AsioInv
  <2>2. /\ c.got \in Seq(Nat) /\ c.wire \in Seq(Nat)
        /\ Len(c.got) \in Nat /\ Len(c.wire) \in Nat
    BY <2>1, Fields, LenProperties
  <2>3. /\ a \in Seq(Nat) /\ Len(a) = Len(c.got) + Len(c.wire)
        /\ \A j \in 1 .. Len(a) : a[j] = j
    <3>1. \A j \in 1 .. Len(c.got) : c.got[j] = j
      BY <2>1, Zenon DEF InOrder
    <3>2. \A j \in 1 .. Len(c.wire) : c.wire[j] = Len(c.got) + j
      BY <2>1, Zenon DEF InOrder
    <3> DEFINE s == c.got
               t == c.wire
    <3>3. /\ s \in Seq(Nat) /\ t \in Seq(Nat) /\ a = s \o t
          /\ \A j \in 1 .. Len(s) : s[j] = j
          /\ \A j \in 1 .. Len(t) : t[j] = Len(s) + j
      BY <2>2, <3>1, <3>2, Zenon DEF Arrived
    <3> HIDE DEF s, t, a
    <3>4. /\ s \o t \in Seq(Nat) /\ Len(s \o t) = Len(s) + Len(t)
          /\ \A j \in 1 .. Len(s \o t) : (s \o t)[j] = j
      BY <3>3, ConcatFromOne
    <3> QED  BY <3>3, <3>4, Zenon DEF s, t
  <2>4. (i = Mine /\ call = "none" /\ fd = "connected"
         /\ ~c.reset /\ c.server # "closed") =>
           ec = "none" /\ Len(c.got) + Len(c.wire) = c.given
    BY Zenon DEF AsioInv, WriteInv, Up
  <2> HIDE DEF a
  <2>5. \A j \in DOMAIN a : a[j] = j
    <3>1. DOMAIN a = 1 .. Len(a)
      BY <2>3, LenProperties
    <3> QED  BY <2>3, <3>1, Zenon
  <2> QED  BY <2>3, <2>4, <2>5 DEF a
<1> QED  BY <1>1, SpecAsio, PTL
==============================================================================
