---------------------------- MODULE LibeventEcho ----------------------------
(***************************************************************************)
(* "async work with network/libevent_example/echo.cpp": one thread, a      *)
(* listener on a UNIX socket and a bufferevent for every connection.       *)
(*                                                                         *)
(* libevent is external: its listener accepts until nobody waits, its      *)
(* bufferevents read whenever there is something to read, write the output *)
(* buffer whenever there is room, and call back at once.  One step is one  *)
(* callback with the system call before it.  What read_cb prints is not    *)
(* modelled (it goes beyond the end of data, which has no terminator).     *)
(*                                                                         *)
(* The name of the UNIX socket stays when the program ends, however it     *)
(* ends; nothing removes it.                                               *)
(***************************************************************************)
EXTENDS Sockets

CONSTANT MaxStarts   \* bound: how often the program is started

VARIABLES
  base,      \* the event loop: "down", "loop", "accept" while the listener
             \* accepts, "exit" after event_base_loopexit()
  sunPath,   \* UNIX_SOCK_PATH exists
  starts,    \* how often the program was started
  output     \* output[fd]: the output buffer of the bufferevent of fd

server == <<base, sunPath, starts, output>>
vars == <<sockets, server>>

TypeOK ==
  /\ SocketsTypeOK
  /\ base \in {"down", "loop", "accept", "exit"}
  /\ sunPath \in BOOLEAN
  /\ starts \in 0 .. MaxStarts
  /\ output \in [FD -> Seq(Byte)]

Init ==
  /\ SocketsInit
  /\ base = "down" /\ sunPath = FALSE /\ starts = 0
  /\ output = [fd \in FD |-> <<>>]

\* main(): without a listener evconnlistener_set_error_cb() gets a null
\* pointer, and the program faults.
Start ==
  /\ base = "down" /\ starts < MaxStarts
  /\ starts' = starts + 1
  /\ base' = IF sunPath THEN "down" ELSE "loop"
  /\ sunPath' = TRUE
  /\ UNCHANGED <<sockets, output>>

Running == base # "down"

\* The listener is called when somebody waits, and accepts until nobody does.
Listen ==
  /\ base = "loop" /\ backlog # {}
  /\ base' = "accept"
  /\ UNCHANGED <<sockets, sunPath, starts, output>>

\* accept_conn_cb()
AcceptConn ==
  /\ base = "accept" /\ backlog # {} /\ FreeFds # {}
  /\ \E fd \in FD : AcceptNonblock(fd)
  /\ UNCHANGED server

AcceptNone ==
  /\ base = "accept" /\ backlog = {} /\ FreeFds # {}
  /\ base' = "loop"
  /\ UNCHANGED <<sockets, sunPath, starts, output>>

\* accept_error_cb(): accept() looks for a descriptor before it looks for a
\* client.
AcceptError ==
  /\ base = "accept" /\ FreeFds = {}
  /\ base' = "exit"
  /\ UNCHANGED <<sockets, sunPath, starts, output>>

\* Mutant: what is still in the output buffer is replaced.
Replaced(old, input) == input

\* evbuffer_add_buffer(output, input)
Appended(old, input) == old \o input

\* echo_read_cb(), with all that has been read.
ReadCb(fd) ==
  /\ base \in {"loop", "exit"} /\ fd \in OpenFds
  /\ RecvData(fdt[fd])
  /\ output' = [output EXCEPT ![fd] = Appended(@, SubSeq(buf', 1, RecvCount(fdt[fd])))]
  /\ UNCHANGED <<base, sunPath, starts>>

\* The bufferevent writes; no callback.
Flush(fd) ==
  /\ base \in {"loop", "exit"} /\ fd \in OpenFds
  /\ LET c == fdt[fd]
         n == Min2(Len(output[fd]), Room(c))
     IN  /\ n > 0 /\ peer[c] \in {"up", "fin"}
         /\ echo' = [echo EXCEPT ![c] = @ \o SubSeq(output[fd], 1, n)]
         /\ unread' = [unread EXCEPT ![c] = @ + n]
         /\ output' = [output EXCEPT ![fd] = SubSeq(@, n + 1, Len(@))]
  /\ UNCHANGED <<peer, backlog, fdt, sent, rcvd, errno, buf>>
  /\ UNCHANGED <<base, sunPath, starts>>

\* Mutant: the end of a stream is not an end.
ErrorOnly(fd) == Avail(fdt[fd]) = 0 /\ peer[fdt[fd]] = "rst"

\* BEV_EVENT_EOF or BEV_EVENT_ERROR from a read.
EofOrError(fd) == Avail(fdt[fd]) = 0 /\ peer[fdt[fd]] \in {"fin", "rst"}

\* echo_write_cb(): bufferevent_free() closes, with the output buffer as it is.
EventCb(fd) ==
  /\ base \in {"loop", "exit"} /\ fd \in OpenFds
  /\ EofOrError(fd)
  /\ Close(fd)
  /\ output' = [output EXCEPT ![fd] = <<>>]
  /\ UNCHANGED <<base, sunPath, starts>>

\* Mutant: the name of the socket is removed.
EndUnlinks ==
  /\ peer' = [c \in Conn |-> IF c \in backlog \/ Accepted(c) THEN "closed" ELSE peer[c]]
  /\ backlog' = {}
  /\ fdt' = [fd \in FD |-> NoConn]
  /\ output' = [fd \in FD |-> <<>>]
  /\ base' = "down" /\ sunPath' = FALSE
  /\ UNCHANGED <<sent, rcvd, echo, unread, errno, buf, starts>>

\* The process ends: the system closes what it had open.
End ==
  /\ peer' = [c \in Conn |-> IF c \in backlog \/ Accepted(c) THEN "closed" ELSE peer[c]]
  /\ backlog' = {}
  /\ fdt' = [fd \in FD |-> NoConn]
  /\ output' = [fd \in FD |-> <<>>]
  /\ base' = "down"
  /\ UNCHANGED <<sent, rcvd, echo, unread, errno, buf, sunPath, starts>>

Exit == base = "exit" /\ End

\* libevent writes with writev() and main() keeps the default action of
\* SIGPIPE: writing to a client that has closed ends the process.
BrokenPipe(fd) ==
  /\ base \in {"loop", "exit"} /\ fd \in OpenFds
  /\ output[fd] # <<>> /\ peer[fdt[fd]] = "rst"
  /\ End

\* The program is stopped from the terminal.
Kill == Running /\ End

Server ==
  \/ Listen \/ AcceptConn \/ AcceptNone \/ AcceptError
  \/ \E fd \in FD : ReadCb(fd) \/ Flush(fd) \/ EventCb(fd) \/ BrokenPipe(fd)
  \/ Exit

\* A client can only connect while the program runs, and it stays in the queue
\* of a UNIX socket when it goes before it was accepted.
Clients ==
  /\ ClientStep
  /\ backlog \subseteq backlog'
  /\ backlog' = backlog \/ Running
  /\ UNCHANGED server

Next == Start \/ Server \/ Kill \/ Clients

Spec == Init /\ [][Next]_vars

\* The loop goes on and comes to every connection in its turn.
FairSpec ==
  /\ Spec
  /\ WF_vars(Listen \/ AcceptConn \/ AcceptNone \/ AcceptError \/ Exit)
  /\ \A fd \in FD : WF_vars(ReadCb(fd)) /\ WF_vars(Flush(fd)) /\ WF_vars(EventCb(fd))

(***************************************************************************)
(* Properties.                                                             *)
(***************************************************************************)

\* What a client was sent, and what the output buffer of its connection holds,
\* are together all the bytes received from it, in order: however far reading
\* runs ahead of a client that does not read, nothing is lost, moved or taken
\* twice as long as the connection is open.
OutputIsTheRest ==
  /\ \A c \in Conn : echo[c] = [k \in 1 .. Len(echo[c]) |-> <<c, k>>]
  /\ \A fd \in OpenFds :
       LET c == fdt[fd]
       IN  echo[c] \o output[fd] = [k \in 1 .. rcvd[c] |-> <<c, k>>]

\* What a connected client sends comes back, unless the connection ends, by
\* the client's end of stream too, or the client does not read, or the server
\* has run out of descriptors and exits.
ComesBack ==
  \A c \in Conn : \A n \in 1 .. MaxBytes :
    (Accepted(c) /\ sent[c] >= n)
      ~> (Len(echo[c]) >= n \/ peer[c] # "up" \/ Room(c) = 0 \/ ~Accepted(c))

\* A program that has ended once, by itself or from the terminal, never serves
\* again: it trips over the name of its own socket.
ServesOnce == [][starts > 0 /\ ~Running => ~Running']_vars

(***************************************************************************)
(* The inductive invariant of the proofs.                                  *)
(***************************************************************************)

\* Who waits has connected, a connection has at most one descriptor, and
\* nothing has been taken from it before it has one.
ConnectionsOK ==
  /\ \A c \in backlog : peer[c] # "none"
  /\ \A c \in Conn : c \in backlog \/ peer[c] = "none" =>
       ~Accepted(c) /\ rcvd[c] = 0 /\ echo[c] = <<>>
  /\ \A fd, gd \in OpenFds : fdt[fd] = fdt[gd] => fd = gd
  /\ \A fd \in FreeFds : output[fd] = <<>>

IInv == TypeOK /\ ConnectionsOK /\ OutputIsTheRest

\* The name of the socket is there from the first start on.
NameStays == starts > 0 => sunPath
=============================================================================
