----------------------------- MODULE PollServer -----------------------------
(***************************************************************************)
(* "burkley sockets, multiplex/multiplex/poll_server.cpp": one thread, one *)
(* pollfd array rebuilt before every poll(), the listening socket in slot  *)
(* 0 and the connected sockets after it in ascending order.                *)
(*                                                                         *)
(* One step is one call of poll() or the handling of one array slot, cut   *)
(* between recv() and send(): clients act between any two steps.           *)
(***************************************************************************)
EXTENDS Sockets

VARIABLES
  pc,            \* "loop", or "send" between recv() and send()
  slaveSockets,  \* the std::set<int>, -1 in it after a failed accept()
  revents,       \* descriptors whose POLLIN slot is still to be handled
  cur,           \* Set[i].fd of the slot being handled
  recvSize       \* what recv() returned for it

server == <<pc, slaveSockets, revents, cur, recvSize>>
vars == <<sockets, server>>

TypeOK ==
  /\ SocketsTypeOK
  /\ pc \in {"loop", "send"}
  /\ slaveSockets \subseteq FD \cup {-1}
  /\ revents \subseteq FD \cup {Master}
  /\ cur \in FD \cup {-1}
  /\ recvSize \in -1 .. BufSize

Init ==
  /\ SocketsInit
  /\ pc = "loop"
  /\ slaveSockets = {}
  /\ revents = {}
  /\ cur = -1
  /\ recvSize = 0

\* Mutants of the slots handled: every slot, whatever its revents; the
\* listening socket only when nothing else is ready.
EverySlot == (slaveSockets \ {-1}) \cup {Master}
SlavesFirst ==
  LET slaves == {fd \in slaveSockets \ {-1} : Readable(fdt[fd])}
  IN  IF slaves = {} /\ backlog # {} THEN {Master} ELSE slaves

\* Slots of poll() with POLLIN; a slot that holds -1 is ignored by poll().
PollIn == {fd \in slaveSockets \ {-1} : Readable(fdt[fd])}
          \cup (IF backlog # {} THEN {Master} ELSE {})

Poll ==
  /\ pc = "loop" /\ revents = {}
  /\ PollIn # {}
  /\ revents' = PollIn
  /\ UNCHANGED <<sockets, pc, slaveSockets, cur, recvSize>>

AcceptSlave ==
  /\ pc = "loop" /\ Master \in revents
  /\ \E s \in FD \cup {-1} :
       AcceptNonblock(s) /\ slaveSockets' = slaveSockets \cup {s}
  /\ revents' = revents \ {Master}
  /\ UNCHANGED <<pc, cur, recvSize>>

\* The slots are handled in order: the next one is the lowest descriptor.
NextSlot(fd) ==
  /\ pc = "loop" /\ Master \notin revents
  /\ fd \in revents /\ \A other \in revents : fd <= other

\* Mutant: the test of errno inverted.
EndWhenAgain(fd) == AtEnd(fdt[fd]) /\ errno = "EAGAIN"

\* recv() returned 0 and errno, which it did not set, is not EAGAIN.
EndSeen(fd) == AtEnd(fdt[fd]) /\ errno # "EAGAIN"

\* Mutant: closes without erasing.
DisconnectKeepsSlave(fd) ==
  /\ NextSlot(fd) /\ EndSeen(fd)
  /\ Close(fd)
  /\ revents' = revents \ {fd}
  /\ UNCHANGED <<pc, slaveSockets, cur, recvSize>>

Disconnect(fd) ==
  /\ NextSlot(fd) /\ EndSeen(fd)
  /\ Close(fd)
  /\ slaveSockets' = slaveSockets \ {fd}
  /\ revents' = revents \ {fd}
  /\ UNCHANGED <<pc, cur, recvSize>>

\* recv() returned 0 while errno still says EAGAIN: neither branch is taken.
KeepEnded(fd) ==
  /\ NextSlot(fd) /\ AtEnd(fdt[fd]) /\ ~EndSeen(fd)
  /\ revents' = revents \ {fd}
  /\ UNCHANGED <<sockets, pc, slaveSockets, cur, recvSize>>

\* recv() returned anything but 0, an error included.
Receive(fd) ==
  /\ NextSlot(fd)
  /\ \/ RecvData(fdt[fd]) /\ recvSize' = RecvCount(fdt[fd])
     \/ RecvError(fdt[fd]) /\ recvSize' = -1
  /\ cur' = fd /\ pc' = "send"
  /\ revents' = revents \ {fd}
  /\ UNCHANGED slaveSockets

\* Mutant: sends the whole piece again until all of it was taken.
SendAgain ==
  /\ pc = "send"
  /\ Send(fdt[cur], recvSize)
  /\ pc' = IF Len(echo'[fdt[cur]]) \in
              Len(echo[fdt[cur]]) + 1 .. Len(echo[fdt[cur]]) + recvSize - 1
           THEN "send" ELSE "loop"
  /\ UNCHANGED <<slaveSockets, revents, cur, recvSize>>

SendBack ==
  /\ pc = "send"
  /\ Send(fdt[cur], recvSize)
  /\ pc' = "loop"
  /\ UNCHANGED <<slaveSockets, revents, cur, recvSize>>

Server ==
  \/ Poll
  \/ AcceptSlave
  \/ \E fd \in FD : Disconnect(fd) \/ KeepEnded(fd) \/ Receive(fd)
  \/ SendBack

Clients == ClientStep /\ UNCHANGED server

Next == Server \/ Clients

Spec == Init /\ [][Next]_vars

\* The operating system keeps running the server; clients owe nothing.
FairSpec == Spec /\ WF_vars(Server)

(***************************************************************************)
(* Properties.                                                             *)
(***************************************************************************)

\* The set of sockets given to the next poll() is, at every step, the set of
\* accepted sockets that are open: no socket is watched after its close() and
\* none is open without being watched, whatever accept() returned.
WatchedIsOpen == slaveSockets \ {-1} = OpenFds

\* A POLLIN that poll() reported is still true when its slot is handled, long
\* after the poll: the descriptor is open, was not given to another client
\* meanwhile, and its recv() will not find the stream empty.
EventsStayTrue ==
  \A fd \in revents \ {Master} : fd \in OpenFds /\ Readable(fdt[fd])

\* send() gets (size_t)-1 as its length after a failed recv(): that happens
\* only for a connection on which no send() can succeed any more.
ErrorSendIsVain ==
  pc = "send" /\ recvSize = -1 => peer[fdt[cur]] = "gone"

\* Clients that ended or reset their connection are disconnected by the server,
\* unless an echo that did not fit has left EAGAIN in errno, which the test after
\* recv() takes for an interrupted call, and errno never changes again: any other
\* failure ends that.
EndedIsClosed ==
  \/ <>[](errno = "EAGAIN")
  \/ \A c \in Conn :
       (Accepted(c) /\ peer[c] \in {"fin", "rst", "gone"}) ~> (peer[c] = "closed")

\* A queued client is accepted, gives up, or finds every descriptor taken.
QueuedIsAccepted ==
  \A c \in Conn : c \in backlog ~> (c \notin backlog \/ FreeFds = {})

\* Both: no client is forgotten, at either end of its connection, though the
\* listening socket has its turn in the same loop as the connected ones.
EveryoneIsServed == EndedIsClosed /\ QueuedIsAccepted

\* The server implements the abstract echo service: a piece counts as dealt
\* with when its send() is done.
InHand(c) == IF pc = "send" /\ fdt[cur] = c /\ recvSize > 0 THEN recvSize ELSE 0
Service == INSTANCE EchoService WITH taken <- [c \in Conn |-> rcvd[c] - InHand(c)]
EchoServiceSpec == Service!Spec

(***************************************************************************)
(* The inductive invariant of the proofs.                                  *)
(***************************************************************************)

\* The descriptor table: one descriptor per connection, open ones are watched
\* and refer to connections that are neither queued nor closed; the piece
\* being sent belongs to an open descriptor whose slot has been handled.
DescriptorsOK ==
  /\ WatchedIsOpen
  /\ \A fd, other \in OpenFds : fdt[fd] = fdt[other] => fd = other
  /\ \A fd \in OpenFds :
       peer[fdt[fd]] \in {"up", "fin", "rst", "gone"} /\ fdt[fd] \notin backlog
  /\ \A c \in backlog : peer[c] \in {"up", "fin", "rst"}
  /\ pc = "send" => cur \in OpenFds /\ cur \notin revents

\* The bytes: what was echoed to c precedes the piece of c in hand, and the
\* buffer starts with that piece.
StreamsOK ==
  /\ \A c \in Conn : rcvd[c] <= sent[c]
  /\ \A c \in Conn :
       /\ \A i \in 1 .. Len(echo[c]) :
            echo[c][i][1] = c /\ echo[c][i][2] \in 1 .. rcvd[c] - InHand(c)
       /\ \A i, j \in 1 .. Len(echo[c]) :
            i < j => echo[c][i][2] < echo[c][j][2]
  /\ pc = "send" /\ recvSize > 0 =>
       /\ recvSize <= rcvd[fdt[cur]] /\ recvSize <= Len(buf)
       /\ \A k \in 1 .. recvSize :
            buf[k] = <<fdt[cur], rcvd[fdt[cur]] - recvSize + k>>

\* What every step preserves: a piece that is being sent is the last one that
\* was received from its client, and nothing the server remembers between two
\* system calls has been invalidated by the clients in the meantime.
IInv ==
  TypeOK /\ DescriptorsOK /\ EventsStayTrue /\ ErrorSendIsVain /\ StreamsOK
=============================================================================
