------------------------------ MODULE Sockets ------------------------------
(***************************************************************************)
(* The TCP sockets under the echo servers of "burkley sockets, multiplex"  *)
(* and the clients at their other ends, as far as poll_server.cpp,         *)
(* epoll_server.cpp and server.cpp can tell: the accept queue of the       *)
(* listening socket, the descriptor table of the server process, one byte  *)
(* stream per direction, errno, and the static receive buffer.             *)
(*                                                                         *)
(* The kernel and the clients are external to the repository; they are     *)
(* modelled from the calls the servers make.  A byte is <<c, k>>, the k-th *)
(* byte that client c sends, so every byte in the system is known by its   *)
(* origin.  A receive takes everything that has arrived, up to the buffer; *)
(* a send to a non-blocking socket takes what fits and reports the rest    *)
(* only in the result that the servers ignore.                             *)
(***************************************************************************)
EXTENDS Integers, Sequences, FiniteSets

CONSTANTS
  Conn,      \* the client connections, each used once
  NoConn,    \* the content of a free descriptor-table entry
  FD,        \* the descriptors the process may give to accepted sockets
  Master,    \* the descriptor of the listening socket
  MaxBytes,  \* bound: the number of bytes one client sends
  BufSize,   \* the 1024 of the receive buffer
  SndBuf     \* bytes the kernel holds for a client that does not read

ASSUME SocketsAssumption ==
  /\ NoConn \notin Conn
  /\ FD \subseteq Nat /\ IsFiniteSet(FD)
  /\ Master \in Nat \ FD
  /\ MaxBytes \in Nat
  /\ BufSize \in Nat \ {0}
  /\ SndBuf \in Nat \ {0}

VARIABLES
  peer,     \* peer[c]: how the server's kernel sees the other end of c
  backlog,  \* connections waiting for accept()
  fdt,      \* fdt[fd]: the connection an accepted descriptor refers to
  sent,     \* sent[c]: bytes of c that have reached the server's kernel
  rcvd,     \* rcvd[c]: bytes of c that recv() has returned
  echo,     \* echo[c]: every byte send() has accepted for c
  unread,   \* unread[c]: accepted for c and not yet read by the client
  errno,    \* "EAGAIN" or any other value: the code tests nothing else
  buf       \* the static char buf[1024], what has been received into it

sockets == <<peer, backlog, fdt, sent, rcvd, echo, unread, errno, buf>>

\* "fin": the client has ended its stream; "rst": it has reset the connection
\* and the error is pending; "gone": the error has been reported; "closed":
\* the server has closed its descriptor.
PeerState == {"none", "up", "fin", "rst", "gone", "closed"}

Byte == Conn \X (1 .. MaxBytes)

\* What a send beyond the received data would transmit: some other memory.
Junk == <<NoConn, 0>>

SocketsTypeOK ==
  /\ peer \in [Conn -> PeerState]
  /\ backlog \in SUBSET Conn
  /\ fdt \in [FD -> Conn \cup {NoConn}]
  /\ sent \in [Conn -> 0 .. MaxBytes]
  /\ rcvd \in [Conn -> 0 .. MaxBytes]
  /\ echo \in [Conn -> Seq(Byte \cup {Junk})]
  /\ unread \in [Conn -> 0 .. SndBuf]
  /\ errno \in {"EAGAIN", "other"}
  /\ buf \in Seq(Byte)

SocketsInit ==
  /\ peer = [c \in Conn |-> "none"]
  /\ backlog = {}
  /\ fdt = [fd \in FD |-> NoConn]
  /\ sent = [c \in Conn |-> 0]
  /\ rcvd = [c \in Conn |-> 0]
  /\ echo = [c \in Conn |-> <<>>]
  /\ unread = [c \in Conn |-> 0]
  /\ errno = "other"
  /\ buf = <<>>

OpenFds == {fd \in FD : fdt[fd] # NoConn}
FreeFds == FD \ OpenFds
Accepted(c) == \E fd \in FD : fdt[fd] = c
Avail(c) == sent[c] - rcvd[c]
Room(c) == SndBuf - unread[c]
Min2(a, b) == IF a < b THEN a ELSE b

\* POLLIN / EPOLLIN: data, the end of the stream, or an error to report.
Readable(c) == Avail(c) > 0 \/ peer[c] \in {"fin", "rst", "gone"}

(***************************************************************************)
(* The clients.                                                            *)
(***************************************************************************)

Connect(c) ==
  /\ peer[c] = "none"
  /\ peer' = [peer EXCEPT ![c] = "up"]
  /\ backlog' = backlog \cup {c}
  /\ UNCHANGED <<fdt, sent, rcvd, echo, unread, errno, buf>>

ClientSend(c) ==
  /\ peer[c] = "up" /\ sent[c] < MaxBytes
  /\ sent' = [sent EXCEPT ![c] = @ + 1]
  /\ UNCHANGED <<peer, backlog, fdt, rcvd, echo, unread, errno, buf>>

ClientRead(c) ==
  /\ peer[c] \in {"up", "fin"} /\ unread[c] > 0
  /\ \E left \in 0 .. unread[c] - 1 : unread' = [unread EXCEPT ![c] = left]
  /\ UNCHANGED <<peer, backlog, fdt, sent, rcvd, echo, errno, buf>>

ClientShutdown(c) ==
  /\ peer[c] = "up"
  /\ peer' = [peer EXCEPT ![c] = "fin"]
  /\ UNCHANGED <<backlog, fdt, sent, rcvd, echo, unread, errno, buf>>

ClientReset(c) ==
  /\ peer[c] \in {"up", "fin"}
  /\ peer' = [peer EXCEPT ![c] = "rst"]
  /\ UNCHANGED <<backlog, fdt, sent, rcvd, echo, unread, errno, buf>>

\* A connection that was reset while it waited may leave the accept queue:
\* the reason the servers make the listening socket non-blocking.
AbortQueued(c) ==
  /\ c \in backlog /\ peer[c] = "rst"
  /\ backlog' = backlog \ {c}
  /\ peer' = [peer EXCEPT ![c] = "closed"]
  /\ UNCHANGED <<fdt, sent, rcvd, echo, unread, errno, buf>>

ClientStep ==
  \E c \in Conn : \/ Connect(c) \/ ClientSend(c) \/ ClientRead(c)
                  \/ ClientShutdown(c) \/ ClientReset(c) \/ AbortQueued(c)

(***************************************************************************)
(* The calls of the servers on an accepted socket.                         *)
(***************************************************************************)

\* accept() followed by set_nonblock(): the lowest free descriptor, or -1
\* when nobody waits any more or no descriptor is free.  The fcntl() calls on
\* -1 fail too, so whatever errno accept() left is overwritten with EBADF.
AcceptNonblock(s) ==
  \/ /\ s \in FreeFds /\ \A fd \in FreeFds : s <= fd
     /\ \E c \in backlog :
          /\ fdt' = [fdt EXCEPT ![s] = c]
          /\ backlog' = backlog \ {c}
     /\ UNCHANGED <<peer, sent, rcvd, echo, unread, errno, buf>>
  \/ /\ s = -1
     /\ backlog = {} \/ FreeFds = {}
     /\ errno' = "other"
     /\ UNCHANGED <<peer, backlog, fdt, sent, rcvd, echo, unread, buf>>

\* recv() returns 0: the stream has ended and all of it has been received.
AtEnd(c) == Avail(c) = 0 /\ peer[c] \in {"fin", "gone"}

\* recv() returns RecvCount(c) > 0 bytes, over the start of the buffer.
RecvCount(c) == Min2(Avail(c), BufSize)
RecvData(c) ==
  /\ Avail(c) > 0
  /\ buf' = [k \in 1 .. RecvCount(c) |-> <<c, rcvd[c] + k>>]
            \o SubSeq(buf, RecvCount(c) + 1, Len(buf))
  /\ rcvd' = [rcvd EXCEPT ![c] = @ + RecvCount(c)]
  /\ UNCHANGED <<peer, backlog, fdt, sent, echo, unread, errno>>

\* recv() returns -1: nothing there yet, or the connection was reset.
RecvError(c) ==
  /\ Avail(c) = 0
  /\ \/ peer[c] = "up" /\ errno' = "EAGAIN" /\ UNCHANGED peer
     \/ peer[c] = "rst" /\ errno' = "other"
        /\ peer' = [peer EXCEPT ![c] = "gone"]
  /\ UNCHANGED <<backlog, fdt, sent, rcvd, echo, unread, buf>>

\* The first n bytes at buf; what lies beyond the received data is Junk.
Outgoing(n) == [k \in 1 .. n |-> IF k <= Len(buf) THEN buf[k] ELSE Junk]

\* The size_t that send() gets for an int result: -1 is more than ever fits.
AsSize(n) == IF n < 0 THEN BufSize + SndBuf ELSE n

\* send(fd, buf, n): refused after a reset, EAGAIN when no byte fits,
\* otherwise the bytes that fit are taken and the others are dropped.
Send(c, n) ==
  \/ /\ peer[c] \in {"rst", "gone"}
     /\ peer' = [peer EXCEPT ![c] = "gone"]
     /\ errno' = "other"
     /\ UNCHANGED <<backlog, fdt, sent, rcvd, echo, unread, buf>>
  \/ /\ peer[c] \in {"up", "fin"} /\ Room(c) = 0
     /\ errno' = "EAGAIN"
     /\ UNCHANGED <<peer, backlog, fdt, sent, rcvd, echo, unread, buf>>
  \/ /\ peer[c] \in {"up", "fin"} /\ Room(c) > 0
     /\ LET taken == Min2(AsSize(n), Room(c)) IN
          /\ echo' = [echo EXCEPT ![c] = @ \o Outgoing(taken)]
          /\ unread' = [unread EXCEPT ![c] = @ + taken]
     /\ UNCHANGED <<peer, backlog, fdt, sent, rcvd, errno, buf>>

\* shutdown(fd, SHUT_RDWR); close(fd)
Close(fd) ==
  /\ peer' = [peer EXCEPT ![fdt[fd]] = "closed"]
  /\ fdt' = [fdt EXCEPT ![fd] = NoConn]
  /\ UNCHANGED <<backlog, sent, rcvd, echo, unread, errno, buf>>

(***************************************************************************)
(* What a client gets back is made of its own bytes, in the order it sent  *)
(* them, none twice: nothing of another client's, and nothing of what else *)
(* lies in the one buffer that all connections of a server share.          *)
(***************************************************************************)
EchoInOrder ==
  \A c \in Conn :
    /\ \A i \in 1 .. Len(echo[c]) :
         echo[c][i][1] = c /\ echo[c][i][2] \in 1 .. rcvd[c]
    /\ \A i, j \in 1 .. Len(echo[c]) : i < j => echo[c][i][2] < echo[c][j][2]

=============================================================================
