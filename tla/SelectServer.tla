----------------------------- MODULE SelectServer -----------------------------
(***************************************************************************)
(* "burkley sockets, multiplex/multiplex/server.cpp": one thread, one      *)
(* fd_set rebuilt before every select(), the connected sockets scanned in  *)
(* ascending order and the listening socket after them.                    *)
(*                                                                         *)
(* One step is one select() or the handling of one descriptor, cut between *)
(* recv() and send().  Two places of the code have no defined behaviour:   *)
(*                                                                         *)
(*  - The loop erases the element its iterator points to and then          *)
(*    increments the iterator.  The increment follows the links of a freed *)
(*    tree node after a rebalancing: it ends at any element, earlier ones  *)
(*    included, at the end, or in a fault.                                 *)
(*                                                                         *)
(*  - A failed accept() puts -1 into the set.  FD_SET(-1) is the bit of    *)
(*    another descriptor, Alias (63 with 64-bit words).  When that one is  *)
(*    not open and below the highest socket, select() fails with EBADF and *)
(*    leaves every bit of the fd_set as it was: set.                       *)
(*                                                                         *)
(* On the empty set *max_element() reads the tree's node count, 0, which   *)
(* std::max() drops.                                                       *)
(***************************************************************************)
EXTENDS Sockets

CONSTANTS
  Alias,   \* the descriptor whose bit FD_SET(-1) sets
  MaxEcho, \* bound: a client that was sent so many bytes reads no more
  Quiet    \* bound: the clients that connect and do nothing else

ASSUME SelectAssumption ==
  Alias \in Nat \ {Master} /\ MaxEcho \in Nat /\ Quiet \subseteq Conn

VARIABLES
  pc,            \* "loop", "send" between recv() and send(), or "crashed"
  slaveSockets,  \* the std::set<int>, -1 in it after a failed accept()
  Set,           \* the fd_set that select() left
  todo,          \* elements from iter on whose bit is set
  iter,          \* *iter while it is handled
  recvSize,      \* what recv() returned for it
  wild           \* history: an erased iterator or a failed select() was used

server == <<pc, slaveSockets, Set, todo, iter, recvSize, wild>>
vars == <<sockets, server>>

TypeOK ==
  /\ SocketsTypeOK
  /\ pc \in {"loop", "send", "crashed"}
  /\ slaveSockets \subseteq FD \cup {-1}
  /\ Set \subseteq FD \cup {Master, Alias}
  /\ todo \subseteq slaveSockets
  /\ iter \in FD \cup {-1}
  /\ recvSize \in -1 .. BufSize
  /\ wild \in BOOLEAN

Init ==
  /\ SocketsInit
  /\ pc = "loop"
  /\ slaveSockets = {}
  /\ Set = {}
  /\ todo = {}
  /\ iter = -1
  /\ recvSize = 0
  /\ wild = FALSE

\* Mutant: the test of FD_ISSET dropped.
Unmarked(slaves, bits) == slaves

\* The elements of slaves for which FD_ISSET holds in bits.
Marked(slaves, bits) ==
  {fd \in slaves : fd \in bits \/ (fd = -1 /\ Alias \in bits)}

Scanned == pc = "loop" /\ todo = {} /\ Master \notin Set

\* FD_SET(-1) has put a descriptor into the set that select() refuses.
BadBit ==
  /\ -1 \in slaveSockets
  /\ Alias \notin OpenFds
  /\ \E fd \in OpenFds \cup {Master} : Alias < fd

\* Mutant: the listening socket only when nothing else is ready.
SlavesFirst ==
  LET slaves == {fd \in OpenFds : Readable(fdt[fd])}
  IN  IF slaves = {} /\ backlog # {} THEN {Master} ELSE slaves

Ready == {fd \in OpenFds : Readable(fdt[fd])}
         \cup (IF backlog # {} THEN {Master} ELSE {})

Select ==
  /\ Scanned /\ ~BadBit
  /\ Ready # {}
  /\ Set' = Ready
  /\ todo' = Marked(slaveSockets, Ready)
  /\ UNCHANGED <<sockets, pc, slaveSockets, iter, recvSize, wild>>

\* select() returned -1, which the code does not look at.
SelectFails ==
  /\ Scanned /\ BadBit
  /\ Set' = OpenFds \cup {Master, Alias}
  /\ todo' = slaveSockets
  /\ errno' = "other"
  /\ wild' = TRUE
  /\ UNCHANGED <<peer, backlog, fdt, sent, rcvd, echo, unread, buf>>
  /\ UNCHANGED <<pc, slaveSockets, iter, recvSize>>

AtIter(fd) == pc = "loop" /\ fd \in todo /\ \A other \in todo : fd <= other

\* Mutants: the test of errno inverted; a failed recv() taken for the end.
EndWhenAgain(fd) == AtEnd(fdt[fd]) /\ errno = "EAGAIN"
EndOrError(fd) == Avail(fdt[fd]) = 0

\* recv() returned 0 and errno, which it did not set, is not EAGAIN.
EndSeen(fd) == AtEnd(fdt[fd]) /\ errno # "EAGAIN"

\* Close, erase, and increment the erased iterator.
Disconnect(fd) ==
  /\ AtIter(fd) /\ fd \in OpenFds /\ EndSeen(fd)
  /\ Close(fd)
  /\ slaveSockets' = slaveSockets \ {fd}
  /\ \/ \E from \in slaveSockets' :
          todo' = {s \in Marked(slaveSockets', Set) : from <= s} /\ UNCHANGED pc
     \/ todo' = {} /\ pc' \in {pc, "crashed"}
  /\ wild' = TRUE
  /\ UNCHANGED <<Set, iter, recvSize>>

\* recv() returned 0 while errno still says EAGAIN: neither branch is taken.
KeepEnded(fd) ==
  /\ AtIter(fd) /\ fd \in OpenFds
  /\ AtEnd(fdt[fd]) /\ ~EndSeen(fd)
  /\ todo' = todo \ {fd}
  /\ UNCHANGED <<sockets, pc, slaveSockets, Set, iter, recvSize, wild>>

\* recv() returned anything but 0, an error included.
Receive(fd) ==
  /\ AtIter(fd) /\ fd \in OpenFds
  /\ \/ RecvData(fdt[fd]) /\ recvSize' = RecvCount(fdt[fd])
     \/ RecvError(fdt[fd]) /\ recvSize' = -1
  /\ iter' = fd /\ pc' = "send"
  /\ todo' = todo \ {fd}
  /\ UNCHANGED <<slaveSockets, Set, wild>>

\* recv(-1) and then send(-1) fail with EBADF.
BadDescriptor ==
  /\ AtIter(-1)
  /\ errno' = "other"
  /\ todo' = todo \ {-1}
  /\ UNCHANGED <<peer, backlog, fdt, sent, rcvd, echo, unread, buf>>
  /\ UNCHANGED <<pc, slaveSockets, Set, iter, recvSize, wild>>

SendBack ==
  /\ pc = "send"
  /\ Send(fdt[iter], recvSize)
  /\ pc' = "loop"
  /\ UNCHANGED <<slaveSockets, Set, todo, iter, recvSize, wild>>

\* Mutants: the accepted socket is not inserted; the listening one is.
AcceptUnwatched ==
  /\ pc = "loop" /\ todo = {} /\ Master \in Set
  /\ \E s \in FD \cup {-1} : AcceptNonblock(s)
  /\ Set' = {}
  /\ UNCHANGED <<pc, slaveSockets, todo, iter, recvSize, wild>>
AcceptInsertsMaster ==
  /\ pc = "loop" /\ todo = {} /\ Master \in Set
  /\ \E s \in FD \cup {-1} : AcceptNonblock(s)
  /\ slaveSockets' = slaveSockets \cup {Master}
  /\ Set' = {}
  /\ UNCHANGED <<pc, todo, iter, recvSize, wild>>

AcceptSlave ==
  /\ pc = "loop" /\ todo = {} /\ Master \in Set
  /\ \E s \in FD \cup {-1} :
       AcceptNonblock(s) /\ slaveSockets' = slaveSockets \cup {s}
  /\ Set' = {}
  /\ UNCHANGED <<pc, todo, iter, recvSize, wild>>

Server ==
  \/ Select
  \/ SelectFails
  \/ \E fd \in FD : Disconnect(fd) \/ KeepEnded(fd) \/ Receive(fd)
  \/ BadDescriptor
  \/ SendBack
  \/ AcceptSlave

Clients ==
  /\ ClientStep
  /\ \A c \in Conn : Len(echo[c]) > MaxEcho => unread'[c] >= unread[c]
  /\ \A c \in Quiet : sent'[c] = 0 /\ (peer[c] # "none" => peer'[c] = peer[c])
  /\ UNCHANGED server

Next == Server \/ Clients

Spec == Init /\ [][Next]_vars

\* The operating system keeps running the server; clients owe nothing.
FairSpec == Spec /\ WF_vars(Server)

(***************************************************************************)
(* Properties.                                                             *)
(***************************************************************************)

\* Whatever the erased iterator does, the sockets given to the next select()
\* are the accepted sockets that are open.
WatchedIsOpen == slaveSockets \ {-1} = OpenFds

\* No client that is still connected is ever disconnected, although the scan
\* may come to sockets for which select() reported nothing.
HealthyStayConnected ==
  [][\A c \in Conn : peer[c] = "up" => peer'[c] # "closed"]_vars

\* As long as the two undefined places were not reached, a bit that select()
\* left set is still true when its socket is handled, however long after the
\* call that is, and every client gets its own bytes only, in order: the rest
\* of the scan needs no other guard.
SoundUnlessWild ==
  \/ wild
  \/ /\ EchoInOrder
     /\ \A fd \in todo \ {-1} : fd \in OpenFds /\ Readable(fdt[fd])

\* Clients that ended or reset their connection are disconnected, or the server
\* crashes, unless errno is EAGAIN from some time on and never changes again.
EndedIsClosed ==
  \/ <>[](errno = "EAGAIN")
  \/ \A c \in Conn :
       (Accepted(c) /\ peer[c] \in {"fin", "rst", "gone"})
         ~> (peer[c] = "closed" \/ pc = "crashed")

\* A queued client is accepted, gives up, finds every descriptor taken, or
\* the server crashes.
QueuedIsAccepted ==
  \A c \in Conn :
    c \in backlog ~> (c \notin backlog \/ FreeFds = {} \/ pc = "crashed")

\* Both: no client is forgotten, at either end of its connection.
EveryoneIsServed == EndedIsClosed /\ QueuedIsAccepted

\* The comment of line 58 says that its condition tells an interrupted call
\* apart: so the end of a stream, which is no interruption, gets its socket
\* closed sooner or later.
EndIsNoInterruption ==
  \A c \in Conn :
    (Accepted(c) /\ peer[c] \in {"fin", "gone"})
      ~> (peer[c] = "closed" \/ pc = "crashed")

(***************************************************************************)
(* The inductive invariant of the proofs.                                  *)
(***************************************************************************)

\* The descriptor table, whatever the erased iterator did: one descriptor per
\* connection, open ones refer to connections that are neither queued nor
\* closed, and the piece being sent belongs to an open one.
DescriptorsOK ==
  /\ WatchedIsOpen
  /\ \A fd, other \in OpenFds : fdt[fd] = fdt[other] => fd = other
  /\ \A fd \in OpenFds :
       peer[fdt[fd]] \in {"up", "fin", "rst", "gone"} /\ fdt[fd] \notin backlog
  /\ \A c \in backlog : peer[c] \in {"up", "fin", "rst"}
  /\ pc = "send" => iter \in OpenFds

\* What select() reported is still true, so recv() fails only for a reset
\* connection, to which no send() can succeed any more.
BitsStayTrue ==
  /\ \A fd \in todo \ {-1} : fd \in OpenFds /\ Readable(fdt[fd])
  /\ pc = "send" => iter \notin todo
  /\ pc = "send" /\ recvSize = -1 => peer[fdt[iter]] = "gone"

\* The bytes: what was echoed to c precedes the piece of c in hand, and the
\* buffer starts with that piece.
InHand(c) ==
  IF pc = "send" /\ fdt[iter] = c /\ recvSize > 0 THEN recvSize ELSE 0
StreamsOK ==
  /\ \A c \in Conn : rcvd[c] <= sent[c]
  /\ \A c \in Conn :
       /\ \A i \in 1 .. Len(echo[c]) :
            echo[c][i][1] = c /\ echo[c][i][2] \in 1 .. rcvd[c] - InHand(c)
       /\ \A i, j \in 1 .. Len(echo[c]) :
            i < j => echo[c][i][2] < echo[c][j][2]
  /\ pc = "send" /\ recvSize > 0 =>
       /\ recvSize <= rcvd[fdt[iter]] /\ recvSize <= Len(buf)
       /\ \A k \in 1 .. recvSize :
            buf[k] = <<fdt[iter], rcvd[fdt[iter]] - recvSize + k>>

\* What every step preserves.
IInv ==
  /\ TypeOK /\ DescriptorsOK
  /\ wild \/ (BitsStayTrue /\ StreamsOK)
=============================================================================
