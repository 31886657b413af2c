------------------------------ MODULE AsioEcho ------------------------------
(***************************************************************************)
(* "async work with network/boost_asio/echo.cpp": one thread runs the      *)
(* handlers of the io_service; every connection has a session object, and  *)
(* one more waits for the next connection.  A session has no owner: it is  *)
(* kept alive by the one operation or handler that will call it next, and  *)
(* it deletes itself when an operation fails.                              *)
(*                                                                         *)
(* boost::asio is external: an operation that was started completes once,  *)
(* and its handler waits in the queue of the io_service until those before *)
(* it have run.  async_write goes on until it has written everything.      *)
(* Destroying a socket completes its operations with an error.             *)
(*                                                                         *)
(* The clients and the bytes are those of Sockets; a session object is     *)
(* named by its address, and a new one may get the address of a deleted    *)
(* one.                                                                    *)
(***************************************************************************)
EXTENDS Integers, Sequences, FiniteSets, SequencesExt

CONSTANTS
  Conn,      \* the client connections, each used once
  NoConn,    \* the content of an unconnected socket_
  Session,   \* the addresses of sessions: one more than there are descriptors
  MaxBytes,  \* bound: the number of bytes one client sends
  BufSize,   \* max_length
  SndBuf     \* bytes the kernel holds for a client that does not read

ASSUME AsioAssumption ==
  /\ NoConn \notin Conn
  /\ IsFiniteSet(Session) /\ Cardinality(Session) > 1
  /\ MaxBytes \in Nat
  /\ BufSize \in Nat \ {0}
  /\ SndBuf \in Nat \ {0}

VARIABLES
  peer, backlog, sent, rcvd, echo, unread,  \* as in Sockets
  live,     \* the sessions that have been constructed and not destroyed
  socket_,  \* socket_[s]: the connection of a session
  data_,    \* data_[s]: the receive buffer of a session, as far as it was written
  ops,      \* ops[s]: the operations of s that have not completed
  out,      \* out[s]: the bytes of data_[s] that async_write still has to write
  ready     \* the handlers of completed operations, in the order of completion

network == <<peer, backlog, sent, rcvd, echo, unread>>
vars == <<network, live, socket_, data_, ops, out, ready>>

Net == INSTANCE Sockets
       WITH FD <- Session, fdt <- socket_, Master <- 0, errno <- "other", buf <- data_

Operation == {"accept", "read", "write"}

\* The call of a handler: the operation that completed, the session it is
\* bound to, its error and its bytes_transferred.
Handler == [op : Operation, ses : Session, error : BOOLEAN, bytes : 0 .. BufSize]

TypeOK ==
  /\ peer \in [Conn -> Net!PeerState]
  /\ backlog \in SUBSET Conn
  /\ sent \in [Conn -> 0 .. MaxBytes] /\ rcvd \in [Conn -> 0 .. MaxBytes]
  /\ echo \in [Conn -> Seq(Net!Byte \cup {Net!Junk})]
  /\ unread \in [Conn -> 0 .. SndBuf]
  /\ live \in SUBSET Session
  /\ socket_ \in [Session -> Conn \cup {NoConn}]
  /\ data_ \in [Session -> Seq(Net!Byte)]
  /\ ops \in [Session -> SUBSET Operation]
  /\ out \in [Session -> [from : 0 .. BufSize, to : 0 .. BufSize]]
  /\ ready \in Seq(Handler)

\* server(): the first start_accept().
Init ==
  /\ peer = [c \in Conn |-> "none"]
  /\ backlog = {}
  /\ sent = [c \in Conn |-> 0] /\ rcvd = [c \in Conn |-> 0]
  /\ echo = [c \in Conn |-> <<>>]
  /\ unread = [c \in Conn |-> 0]
  /\ socket_ = [s \in Session |-> NoConn]
  /\ data_ = [s \in Session |-> <<>>]
  /\ out = [s \in Session |-> [from |-> 0, to |-> 0]]
  /\ ready = <<>>
  /\ \E s \in Session :
       /\ live = {s}
       /\ ops = [t \in Session |-> IF t = s THEN {"accept"} ELSE {}]

Connected == {s \in live : socket_[s] # NoConn}
DescriptorsTaken == Cardinality(Connected) >= Cardinality(Session) - 1

(***************************************************************************)
(* Operations that complete.                                               *)
(***************************************************************************)

Complete(s, op, error, bytes) ==
  /\ ops' = [ops EXCEPT ![s] = @ \ {op}]
  /\ ready' = Append(ready, [op |-> op, ses |-> s, error |-> error, bytes |-> bytes])

AcceptDone(s) ==
  /\ "accept" \in ops[s] /\ ~DescriptorsTaken
  /\ \E c \in backlog :
       /\ backlog' = backlog \ {c}
       /\ socket_' = [socket_ EXCEPT ![s] = c]
  /\ Complete(s, "accept", FALSE, 0)
  /\ UNCHANGED <<peer, sent, rcvd, echo, unread, live, data_, out>>

\* accept() has no descriptor for the connection that waits.
AcceptFails(s) ==
  /\ "accept" \in ops[s] /\ DescriptorsTaken /\ backlog # {}
  /\ Complete(s, "accept", TRUE, 0)
  /\ UNCHANGED <<network, live, socket_, data_, out>>

ReadCount(c) == Net!Min2(Net!Avail(c), BufSize)

ReadDone(s) ==
  /\ "read" \in ops[s]
  /\ LET c == socket_[s]
         n == ReadCount(c)
     IN  /\ n > 0
         /\ data_' = [data_ EXCEPT ![s] = [k \in 1 .. n |-> <<c, rcvd[c] + k>>]
                                           \o SubSeq(@, n + 1, Len(@))]
         /\ rcvd' = [rcvd EXCEPT ![c] = @ + n]
         /\ Complete(s, "read", FALSE, n)
  /\ UNCHANGED <<peer, backlog, sent, echo, unread, live, socket_, out>>

\* The end of the stream is an error too.
ReadFails(s) ==
  /\ "read" \in ops[s]
  /\ LET c == socket_[s]
     IN  /\ Net!Avail(c) = 0 /\ peer[c] \in {"fin", "rst", "gone"}
         /\ peer' = [peer EXCEPT ![c] = IF @ = "fin" THEN @ ELSE "gone"]
  /\ Complete(s, "read", TRUE, 0)
  /\ UNCHANGED <<backlog, sent, rcvd, echo, unread, live, socket_, data_, out>>

\* The k-th byte of the buffer; what was never received is Junk.
DataAt(s, k) == IF k <= Len(data_[s]) THEN data_[s][k] ELSE Net!Junk

\* Mutant: async_write_some, which is done when a part has been written.
PartWritten(s, n) == TRUE

\* async_write is done when everything has been written.
Written(s, n) == out[s].from + n = out[s].to

WriteSome(s) ==
  /\ "write" \in ops[s]
  /\ LET c == socket_[s]
         n == Net!Min2(out[s].to - out[s].from, Net!Room(c))
     IN  /\ peer[c] \in {"up", "fin"} /\ n > 0
         /\ echo' = [echo EXCEPT ![c] = @ \o [k \in 1 .. n |-> DataAt(s, out[s].from + k)]]
         /\ unread' = [unread EXCEPT ![c] = @ + n]
         /\ out' = [out EXCEPT ![s].from = @ + n]
         /\ IF Written(s, n) THEN Complete(s, "write", FALSE, 0)
            ELSE UNCHANGED <<ops, ready>>
  /\ UNCHANGED <<peer, backlog, sent, rcvd, live, socket_, data_>>

WriteFails(s) ==
  /\ "write" \in ops[s]
  /\ LET c == socket_[s]
     IN  peer[c] \in {"rst", "gone"} /\ peer' = [peer EXCEPT ![c] = "gone"]
  /\ Complete(s, "write", TRUE, 0)
  /\ UNCHANGED <<backlog, sent, rcvd, echo, unread, live, socket_, data_, out>>

Completes(s) ==
  \/ AcceptDone(s) \/ AcceptFails(s) \/ ReadDone(s) \/ ReadFails(s)
  \/ WriteSome(s) \/ WriteFails(s)

(***************************************************************************)
(* Handlers.                                                               *)
(***************************************************************************)

Called(op) == ready # <<>> /\ Head(ready).op = op
Callee == Head(ready).ses

\* Mutant: leaves the connection open.
DestroyOnly(s) ==
  /\ socket_' = [socket_ EXCEPT ![s] = NoConn]
  /\ data_' = [data_ EXCEPT ![s] = <<>>]
  /\ ready' = Tail(ready)
  /\ UNCHANGED peer

\* delete this: the destructor of socket_ closes the connection and cancels
\* what is still going on.
Destroy(s) ==
  /\ peer' = [c \in Conn |-> IF c = socket_[s] THEN "closed" ELSE peer[c]]
  /\ socket_' = [socket_ EXCEPT ![s] = NoConn]
  /\ data_' = [data_ EXCEPT ![s] = <<>>]
  /\ ready' = Tail(ready) \o
       SetToSeq({[op |-> op, ses |-> s, error |-> TRUE, bytes |-> 0] : op \in ops[s]})

\* Mutant: waits for one connection only.
NoAccept(others, started) == live' = others /\ ops' = started

\* start_accept(), with what the handler did before: a new session, which may
\* get the address of the one just deleted.
StartAccept(others, started) ==
  \E s \in Session \ others :
    /\ live' = others \cup {s}
    /\ ops' = [started EXCEPT ![s] = @ \cup {"accept"}]

HandleAccept ==
  /\ Called("accept")
  /\ IF ~Head(ready).error
     THEN /\ StartAccept(live, [ops EXCEPT ![Callee] = @ \cup {"read"}])
          /\ ready' = Tail(ready)
          /\ UNCHANGED <<peer, socket_, data_>>
     ELSE /\ Destroy(Callee)
          /\ StartAccept(live \ {Callee}, [ops EXCEPT ![Callee] = {}])
  /\ UNCHANGED <<backlog, sent, rcvd, echo, unread, out>>

\* The next operation of the session whose handler runs, or its end.
Continue(op) ==
  /\ ops' = [ops EXCEPT ![Callee] = @ \cup {op}]
  /\ ready' = Tail(ready)
  /\ UNCHANGED <<peer, live, socket_, data_>>

\* Mutant: the session stays.
DeleteNothing ==
  /\ ready' = Tail(ready)
  /\ UNCHANGED <<peer, socket_, data_, live, ops>>

DeleteThis ==
  /\ Destroy(Callee)
  /\ live' = live \ {Callee}
  /\ ops' = [ops EXCEPT ![Callee] = {}]

\* Mutants: one byte too many; the whole buffer.
ReplyOneMore(h) == [from |-> 0, to |-> h.bytes + 1]
ReplyWhole(h) == [from |-> 0, to |-> BufSize]

\* buffer(data_, bytes_transferred)
Reply(h) == [from |-> 0, to |-> h.bytes]

HandleRead ==
  /\ Called("read")
  /\ IF ~Head(ready).error
     THEN /\ Continue("write")
          /\ out' = [out EXCEPT ![Callee] = Reply(Head(ready))]
     ELSE DeleteThis /\ UNCHANGED out
  /\ UNCHANGED <<backlog, sent, rcvd, echo, unread>>

HandleWrite ==
  /\ Called("write")
  /\ IF ~Head(ready).error THEN Continue("read") ELSE DeleteThis
  /\ UNCHANGED <<backlog, sent, rcvd, echo, unread, out>>

Handles == HandleAccept \/ HandleRead \/ HandleWrite

Clients == Net!ClientStep /\ UNCHANGED <<live, ops, out, ready>>

Next == (\E s \in Session : Completes(s)) \/ Handles \/ Clients

Spec == Init /\ [][Next]_vars

\* io_service::run() goes on: it runs the handlers that are ready, and in its
\* turn the reactor, which completes every operation that can be.
FairSpec == Spec /\ WF_vars(Handles) /\ \A s \in Session : WF_vars(Completes(s))

(***************************************************************************)
(* Properties.                                                             *)
(***************************************************************************)

\* Nobody owns a session, and yet no handler is ever called on a deleted one
\* and none is forgotten: every session that lives waits for exactly one
\* operation or handler, also when its address was used before.
Waits(s) == \E k \in 1 .. Len(ready) : ready[k].ses = s
OneOperation ==
  /\ \A j, k \in 1 .. Len(ready) : ready[j].ses = ready[k].ses => j = k
  /\ \A s \in Session : Waits(s) => s \in live /\ ops[s] = {}
  /\ \A s \in live : Waits(s) \/ \E op \in Operation : ops[s] = {op}
  /\ \A s \in Session \ live : ops[s] = {}

\* One session, and only one, is there for the next connection, whatever
\* became of those before it.
Accepting(s) ==
  \/ "accept" \in ops[s]
  \/ \E k \in 1 .. Len(ready) : ready[k].ses = s /\ ready[k].op = "accept"
AlwaysAccepting ==
  \E s \in live : Accepting(s) /\ \A t \in live \ {s} : ~Accepting(t)

\* The sessions that live are those of the connections that were accepted and
\* are not closed, one for each, and the one that waits for the next client:
\* no connection is left without the session that would close it, no session
\* without its connection, and the server goes on accepting.
SessionsAreConnections ==
  /\ AlwaysAccepting
  /\ \A s, t \in Connected : socket_[s] = socket_[t] => s = t
  /\ {socket_[s] : s \in Connected}
       = {c \in Conn \ backlog : peer[c] \notin {"none", "closed"}}

\* The server loses nothing, also when a client is slow to read: it implements
\* the lossless echo service.
Service == INSTANCE ExactEcho
           WITH taken <- rcvd, ended <- [c \in Conn |-> peer[c] = "closed"],
                MaxPiece <- BufSize
ExactEchoSpec == Service!Spec

\* A connection that is reset is closed; one whose client has ended its stream
\* too, unless the client does not read what it is owed.
EndedIsClosed ==
  \A c \in Conn :
    (c \notin backlog /\ peer[c] \in {"fin", "rst", "gone"})
      ~> (peer[c] = "closed" \/ (peer[c] = "fin" /\ Net!Room(c) = 0))

\* What a connected client sends comes back, unless the connection ends or the
\* client does not read.
AllComesBack ==
  \A c \in Conn : \A n \in 1 .. MaxBytes :
    (c \notin backlog /\ sent[c] >= n)
      ~> (Len(echo[c]) >= n \/ peer[c] \notin {"up", "fin"} \/ Net!Room(c) = 0)

\* Both: the chain of operations and handlers of a session does not break
\* before its connection has ended.
EveryoneIsServed == EndedIsClosed /\ AllComesBack

(***************************************************************************)
(* The inductive invariant of the proofs.                                  *)
(***************************************************************************)

Queue == {ready[k] : k \in 1 .. Len(ready)}

\* In terms of that set: every session waits for one thing, exactly one of them
\* for a client.
Awaits(s) == "accept" \in ops[s] \/ \E h \in Queue : h.ses = s /\ h.op = "accept"
Alone ==
  /\ \A j, k \in 1 .. Len(ready) : ready[j].ses = ready[k].ses => j = k
  /\ \A h \in Queue : h.ses \in live /\ ops[h.ses] = {}
  /\ \A s \in live : (\E h \in Queue : h.ses = s) \/ \E op \in Operation : ops[s] = {op}
  /\ \A s \in Session \ live : ops[s] = {} /\ socket_[s] = NoConn
  /\ \E s \in live : Awaits(s) /\ \A t \in live \ {s} : ~Awaits(t)

\* Sessions and connections belong together, and only a session that waits for
\* a client, or whose accept failed, has none.
Linked ==
  /\ \A s, t \in live : socket_[s] = socket_[t] /\ socket_[s] # NoConn => s = t
  /\ \A s \in live : socket_[s] # NoConn =>
       socket_[s] \notin backlog /\ peer[socket_[s]] \in {"up", "fin", "rst", "gone"}
  /\ \A c \in Conn \ backlog :
       peer[c] \notin {"none", "closed"} => \E s \in live : socket_[s] = c
  /\ \A s \in Session : ops[s] # {} => (socket_[s] = NoConn <=> ops[s] = {"accept"})
  /\ \A h \in Queue : socket_[h.ses] = NoConn <=> (h.op = "accept" /\ h.error)
  /\ \A c \in backlog : peer[c] \in {"up", "fin", "rst"}

\* The bytes of data_[s] behind the first from, up to byte to, are what has been
\* received and not yet echoed.
Owes(s, from, to) ==
  LET c == socket_[s]
  IN  /\ from < to /\ to <= Len(data_[s])
      /\ rcvd[c] = Len(echo[c]) + (to - from)
      /\ \A k \in 1 .. to : data_[s][k] = <<c, rcvd[c] - to + k>>

\* What a session still owes its client, by what it waits for.
OwedOK ==
  /\ \A c \in Conn : rcvd[c] <= sent[c]
  /\ \A c \in Conn : peer[c] = "none" \/ c \in backlog => rcvd[c] = 0 /\ echo[c] = <<>>
  /\ \A s \in Session :
       /\ "read" \in ops[s] => rcvd[socket_[s]] = Len(echo[socket_[s]])
       /\ "write" \in ops[s] => Owes(s, out[s].from, out[s].to)
  /\ \A h \in Queue : ~h.error =>
       IF h.op = "read" THEN Owes(h.ses, 0, h.bytes)
       ELSE rcvd[socket_[h.ses]] = Len(echo[socket_[h.ses]])

IInv == TypeOK /\ Alone /\ Linked /\ OwedOK
=============================================================================
