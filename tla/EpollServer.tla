----------------------------- MODULE EpollServer -----------------------------
(***************************************************************************)
(* "burkley sockets, multiplex/multiplex/epoll_server.cpp": one thread and *)
(* one level-triggered epoll instance.  close() takes a descriptor out of  *)
(* the interest set; the events of one epoll_wait() are at most MaxEvents  *)
(* and come in the kernel's order, the listening socket anywhere among     *)
(* them.  When more are ready than fit, successive calls round-robin       *)
(* through them (epoll_wait(2)).                                           *)
(*                                                                         *)
(* One step is one call of epoll_wait() or the handling of one event, cut  *)
(* between recv() and send().                                              *)
(*                                                                         *)
(* epoll_wait() returns -1 when a signal (a stop and continue is enough)   *)
(* interrupts it.  The loop bound -1 is then converted to the unsigned     *)
(* type of the index: the loop runs over all of events[], whose elements   *)
(* are what is left of earlier calls or of anything else, and over the     *)
(* memory behind it, until an access faults.                               *)
(***************************************************************************)
EXTENDS Sockets

CONSTANTS
  MaxEvents,   \* MAX_EVENTS
  MaxSignals   \* bound: how often epoll_wait() is interrupted

ASSUME EpollAssumption == MaxEvents \in Nat \ {0} /\ MaxSignals \in Nat

VARIABLES
  pc,        \* "loop", "send" between recv() and send(), or "crashed"
  interest,  \* the descriptors registered with EPOLL_CTL_ADD
  events,    \* descriptors of the events still to be handled
  overrun,   \* the loop has N = -1: it reads events[] and beyond
  served,    \* descriptors reported since the ready ones were last all seen
  cur,       \* the descriptor of the event being handled
  recvRes,   \* what recv() returned for it
  signals    \* how many times epoll_wait() was interrupted

server == <<pc, interest, events, overrun, served, cur, recvRes, signals>>
vars == <<sockets, server>>

TypeOK ==
  /\ SocketsTypeOK
  /\ pc \in {"loop", "send", "crashed"}
  /\ interest \subseteq FD \cup {Master}
  /\ events \subseteq FD \cup {Master}
  /\ overrun \in BOOLEAN
  /\ served \subseteq FD \cup {Master}
  /\ cur \in FD \cup {-1}
  /\ recvRes \in -1 .. BufSize
  /\ signals \in 0 .. MaxSignals

Init ==
  /\ SocketsInit
  /\ pc = "loop"
  /\ interest = {Master}
  /\ events = {}
  /\ overrun = FALSE
  /\ served = {}
  /\ cur = -1
  /\ recvRes = 0
  /\ signals = 0

\* Mutants of what is reported: registered with EPOLLIN | EPOLLOUT; the
\* listening socket only when nothing else is ready.
ReadyOrWritable ==
  {fd \in interest : IF fd = Master THEN backlog # {}
                     ELSE Readable(fdt[fd]) \/ Room(fdt[fd]) > 0}
SlavesFirst ==
  LET slaves == {fd \in interest \ {Master} : Readable(fdt[fd])}
  IN  IF slaves = {} /\ backlog # {} THEN {Master} ELSE slaves

\* The registered descriptors with EPOLLIN.
Ready == {fd \in interest :
            IF fd = Master THEN backlog # {} ELSE Readable(fdt[fd])}

EpollWait ==
  /\ pc = "loop" /\ events = {} /\ ~overrun
  /\ Ready # {}
  /\ \E E \in SUBSET Ready :
       /\ Cardinality(E) = Min2(Cardinality(Ready), MaxEvents)
       /\ E \cap served = {} \/ Ready \ served \subseteq E
       /\ events' = E
       /\ served' = IF Ready \ served \subseteq E THEN E ELSE served \cup E
  /\ UNCHANGED <<sockets, pc, interest, overrun, cur, recvRes, signals>>

\* N = -1, while nothing is ready.
Interrupted ==
  /\ pc = "loop" /\ events = {} /\ ~overrun
  /\ Ready = {} /\ signals < MaxSignals
  /\ signals' = signals + 1
  /\ overrun' = TRUE
  /\ errno' = "other"
  /\ UNCHANGED <<peer, backlog, fdt, sent, rcvd, echo, unread, buf>>
  /\ UNCHANGED <<pc, interest, events, served, cur, recvRes>>

\* The next element of events[] holds fd: a reported event, or in the overrun
\* any descriptor number.
Handling(fd) == pc = "loop" /\ (fd \in events \/ overrun)

\* Mutants: the accepted socket is not registered; -1 is.
AcceptUnwatched ==
  /\ Handling(Master)
  /\ \E s \in FD \cup {-1} : AcceptNonblock(s)
  /\ events' = events \ {Master}
  /\ UNCHANGED <<pc, interest, overrun, served, cur, recvRes, signals>>
AcceptAnything ==
  /\ Handling(Master)
  /\ \E s \in FD \cup {-1} :
       AcceptNonblock(s) /\ interest' = interest \cup {s}
  /\ events' = events \ {Master}
  /\ UNCHANGED <<pc, overrun, served, cur, recvRes, signals>>

AcceptSlave ==
  /\ Handling(Master)
  /\ \E s \in FD \cup {-1} :
       /\ AcceptNonblock(s)
       /\ interest' = interest \cup ({s} \ {-1})
  /\ events' = events \ {Master}
  /\ UNCHANGED <<pc, overrun, served, cur, recvRes, signals>>

\* Mutants: the test of errno inverted; a failed recv() taken for the end.
EndWhenAgain(fd) == AtEnd(fdt[fd]) /\ errno = "EAGAIN"
EndOrError(fd) == Avail(fdt[fd]) = 0

\* recv() returned 0 and errno, which it did not set, is not EAGAIN.
EndSeen(fd) == AtEnd(fdt[fd]) /\ errno # "EAGAIN"

Disconnect(fd) ==
  /\ Handling(fd) /\ fd \in OpenFds /\ EndSeen(fd)
  /\ Close(fd)
  /\ interest' = interest \ {fd}
  /\ events' = events \ {fd}
  /\ UNCHANGED <<pc, overrun, served, cur, recvRes, signals>>

\* recv() returned 0 with errno EAGAIN, or -1: neither branch is taken.
Ignore(fd) ==
  /\ Handling(fd) /\ fd \in OpenFds
  /\ \/ AtEnd(fdt[fd]) /\ ~EndSeen(fd) /\ UNCHANGED sockets
     \/ RecvError(fdt[fd])
  /\ events' = events \ {fd}
  /\ UNCHANGED <<pc, interest, overrun, served, cur, recvRes, signals>>

\* recv() on a descriptor that is not open: EBADF.
IgnoreBad(fd) ==
  /\ Handling(fd) /\ fd \notin OpenFds
  /\ errno' = "other"
  /\ events' = events \ {fd}
  /\ UNCHANGED <<peer, backlog, fdt, sent, rcvd, echo, unread, buf>>
  /\ UNCHANGED <<pc, interest, overrun, served, cur, recvRes, signals>>

Receive(fd) ==
  /\ Handling(fd) /\ fd \in OpenFds
  /\ RecvData(fdt[fd])
  /\ recvRes' = RecvCount(fdt[fd])
  /\ cur' = fd /\ pc' = "send"
  /\ events' = events \ {fd}
  /\ UNCHANGED <<interest, overrun, served, signals>>

\* Mutant: sends the whole piece again until all of it was taken.
SendAgain ==
  /\ pc = "send"
  /\ Send(fdt[cur], recvRes)
  /\ pc' = IF Len(echo'[fdt[cur]]) \in
              Len(echo[fdt[cur]]) + 1 .. Len(echo[fdt[cur]]) + recvRes - 1
           THEN "send" ELSE "loop"
  /\ UNCHANGED <<interest, events, overrun, served, cur, recvRes, signals>>

SendBack ==
  /\ pc = "send"
  /\ Send(fdt[cur], recvRes)
  /\ pc' = "loop"
  /\ UNCHANGED <<interest, events, overrun, served, cur, recvRes, signals>>

\* The index has left the memory that can be read.
Fault ==
  /\ pc = "loop" /\ overrun
  /\ pc' = "crashed"
  /\ UNCHANGED <<sockets, interest, events, overrun, served, cur, recvRes, signals>>

Server ==
  \/ EpollWait
  \/ AcceptSlave
  \/ \E fd \in FD : \/ Disconnect(fd) \/ Ignore(fd)
                    \/ IgnoreBad(fd) \/ Receive(fd)
  \/ SendBack
  \/ Fault

Environment == ClientStep /\ UNCHANGED server

Next == Server \/ Interrupted \/ Environment

Spec == Init /\ [][Next]_vars

\* The operating system keeps running the server; the overrun, 2^32 - 1
\* elements of 12 bytes, is longer than any stack and so ends in a fault.
FairSpec == Spec /\ WF_vars(Server) /\ SF_vars(Fault)

(***************************************************************************)
(* Properties.                                                             *)
(***************************************************************************)

\* The interest set of the kernel, which only EPOLL_CTL_ADD and close()
\* change, is at every step the set of open accepted sockets, although the
\* code registers the result of accept() and of every call unchecked.
InterestIsOpen == interest = OpenFds \cup {Master}

\* An event of a completed epoll_wait() is still true when it is handled:
\* the descriptor is open, not reused, and its recv() finds something.
EventsStayTrue ==
  ~overrun =>
    \A fd \in events \ {Master} : fd \in OpenFds /\ Readable(fdt[fd])

\* No client that is still connected is ever disconnected, not even when the
\* loop runs over stale events and receives from sockets with nothing there.
HealthyStayConnected ==
  [][\A c \in Conn : peer[c] = "up" => peer'[c] # "closed"]_vars

\* Clients that ended or reset their connection are disconnected, or the server
\* crashes, also when more sockets are ready than events fit; unless an echo that
\* did not fit has left EAGAIN in errno, which the test after recv() takes for an
\* interrupted call, and errno never changes again.
EndedIsClosed ==
  \/ <>[](errno = "EAGAIN")
  \/ \A c \in Conn :
       (Accepted(c) /\ peer[c] \in {"fin", "rst", "gone"})
         ~> (peer[c] = "closed" \/ pc = "crashed")

\* A queued client is accepted, gives up, finds every descriptor taken, or
\* the server crashes; also when more sockets are ready than events fit.
QueuedIsAccepted ==
  \A c \in Conn :
    c \in backlog ~> (c \notin backlog \/ FreeFds = {} \/ pc = "crashed")

\* Both: no client is forgotten, at either end of its connection, although
\* connected and listening sockets compete for the places of events[].
EveryoneIsServed == EndedIsClosed /\ QueuedIsAccepted

\* The comment on epoll_wait(), "-1 - вечное ожидания" (an endless wait, line
\* 48): the call does not return without an event, so the loop of the server
\* runs over reported events only, and never out of its array.
WaitsForever == pc # "crashed"

\* The server implements the abstract echo service, in the overrun too.
InHand(c) == IF pc = "send" /\ fdt[cur] = c THEN recvRes ELSE 0
Service == INSTANCE EchoService WITH taken <- [c \in Conn |-> rcvd[c] - InHand(c)]
EchoServiceSpec == Service!Spec
(***************************************************************************)
(* The inductive invariant of the proofs.                                  *)
(***************************************************************************)

\* The descriptor table: one descriptor per connection, open ones are watched
\* and refer to connections that are neither queued nor closed; the piece
\* being sent belongs to an open descriptor.
DescriptorsOK ==
  /\ InterestIsOpen
  /\ \A fd, other \in OpenFds : fdt[fd] = fdt[other] => fd = other
  /\ \A fd \in OpenFds :
       peer[fdt[fd]] \in {"up", "fin", "rst", "gone"} /\ fdt[fd] \notin backlog
  /\ \A c \in backlog : peer[c] \in {"up", "fin", "rst"}
  /\ pc = "send" => cur \in OpenFds

\* The bytes: what was echoed to c precedes the piece of c in hand, and the
\* buffer starts with that piece.
StreamsOK ==
  /\ \A c \in Conn : rcvd[c] <= sent[c]
  /\ \A c \in Conn :
       /\ \A i \in 1 .. Len(echo[c]) :
            echo[c][i][1] = c /\ echo[c][i][2] \in 1 .. rcvd[c] - InHand(c)
       /\ \A i, j \in 1 .. Len(echo[c]) :
            i < j => echo[c][i][2] < echo[c][j][2]
  /\ pc = "send" =>
       /\ recvRes \in 1 .. rcvd[fdt[cur]] /\ recvRes <= Len(buf)
       /\ \A k \in 1 .. recvRes :
            buf[k] = <<fdt[cur], rcvd[fdt[cur]] - recvRes + k>>

\* What every step preserves, the steps of the overrun included.
IInv == TypeOK /\ DescriptorsOK /\ EventsStayTrue /\ StreamsOK
=============================================================================
