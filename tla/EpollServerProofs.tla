------------------------- MODULE EpollServerProofs -------------------------
(***************************************************************************)
(* Proofs about EpollServer for every set of connections and descriptors,  *)
(* every stream length, buffer, array of events and number of signals.     *)
(*                                                                         *)
(* IInv is the inductive invariant; its parts are proved to be preserved   *)
(* one after the other.  The overrun, in which the server handles any      *)
(* descriptor at all, is part of every step that handles one.              *)
(***************************************************************************)
EXTENDS EpollServer, SocketsProofs

\* An open descriptor refers to a connection.
LEMMA OpenIsConn ==
  ASSUME TypeOK, NEW fd \in OpenFds
  PROVE  fd \in FD /\ fdt[fd] \in Conn
BY DEF TypeOK, SocketsTypeOK, OpenFds

\* What SendBack finds: the piece in hand, at the start of the buffer.
LEMMA CurIsOpen ==
  ASSUME IInv, pc = "send"
  PROVE  /\ cur \in OpenFds /\ cur \in FD /\ fdt[cur] \in Conn
         /\ recvRes \in Nat /\ recvRes > 0 /\ recvRes <= Len(buf)
         /\ rcvd[fdt[cur]] \in Nat /\ recvRes <= rcvd[fdt[cur]]
<1>1. cur \in OpenFds /\ cur \in FD /\ fdt[cur] \in Conn
  BY OpenIsConn DEF IInv, DescriptorsOK
<1>2. rcvd[fdt[cur]] \in Nat
  BY <1>1, SocketsAssumption
     DEF IInv, TypeOK, SocketsTypeOK, SocketsAssumption
<1> QED  BY <1>1, <1>2 DEF IInv, StreamsOK

(***************************************************************************)
(* Types.                                                                  *)
(***************************************************************************)

\* Every step keeps the types.
LEMMA TypeStep == IInv /\ [Next]_vars => TypeOK'
<1> SUFFICES ASSUME IInv, [Next]_vars  PROVE TypeOK'
  OBVIOUS
<1> USE SocketsAssumption, EpollAssumption
<1>0. TypeOK /\ SocketsTypeOK
  BY DEF IInv, TypeOK
<1>1. CASE EpollWait
  <2>1. Ready \subseteq FD \cup {Master}
    BY <1>0 DEF Ready, TypeOK
  <2>2. PICK E \in SUBSET Ready :
          /\ events' = E
          /\ served' = IF Ready \ served \subseteq E THEN E ELSE served \cup E
    BY <1>1 DEF EpollWait
  <2>3. UNCHANGED <<sockets, pc, interest, overrun, cur, recvRes, signals>>
    BY <1>1 DEF EpollWait
  <2> QED  BY <1>0, <2>1, <2>2, <2>3 DEF TypeOK, SocketsTypeOK, sockets
<1>2. CASE Interrupted
  <2>1. SocketsTypeOK'
    BY <1>0, <1>2 DEF Interrupted, SocketsTypeOK
  <2>2. signals' \in 0 .. MaxSignals
    BY <1>0, <1>2 DEF Interrupted, TypeOK, EpollAssumption
  <2> QED  BY <1>0, <1>2, <2>1, <2>2 DEF Interrupted, TypeOK
<1>3. CASE AcceptSlave
  <2>1. PICK s \in FD \cup {-1} :
          AcceptNonblock(s) /\ interest' = interest \cup ({s} \ {-1})
    BY <1>3 DEF AcceptSlave
  <2>2. SocketsTypeOK'
    BY <1>0, <2>1, AcceptType
  <2> QED  BY <1>0, <1>3, <2>1, <2>2 DEF TypeOK, AcceptSlave
<1>4. ASSUME NEW fd \in FD, Disconnect(fd)  PROVE TypeOK'
  <2>1. SocketsTypeOK'
    BY <1>0, <1>4, CloseType DEF Disconnect
  <2> QED  BY <1>0, <1>4, <2>1 DEF TypeOK, Disconnect
<1>5. ASSUME NEW fd \in FD, Ignore(fd)  PROVE TypeOK'
  <2>1. fdt[fd] \in Conn
    BY <1>0, <1>5, OpenIsConn DEF Ignore
  <2>2. SocketsTypeOK'
    <3>1. CASE UNCHANGED sockets
      BY <1>0, <3>1 DEF SocketsTypeOK, sockets
    <3>2. CASE RecvError(fdt[fd])
      BY <1>0, <2>1, <3>2, RecvErrorType
    <3> QED  BY <1>5, <3>1, <3>2 DEF Ignore
  <2> QED  BY <1>0, <1>5, <2>2 DEF TypeOK, Ignore
<1>6. ASSUME NEW fd \in FD, IgnoreBad(fd)  PROVE TypeOK'
  <2>1. SocketsTypeOK'
    BY <1>0, <1>6 DEF IgnoreBad, SocketsTypeOK
  <2> QED  BY <1>0, <1>6, <2>1 DEF TypeOK, IgnoreBad
<1>7. ASSUME NEW fd \in FD, Receive(fd)  PROVE TypeOK'
  <2>1. fdt[fd] \in Conn /\ RecvData(fdt[fd])
    BY <1>0, <1>7, OpenIsConn DEF Receive
  <2>2. SocketsTypeOK' /\ RecvCount(fdt[fd]) \in 1 .. BufSize
    BY <1>0, <2>1, RecvDataType, ReceivedBytes
  <2>3. recvRes' \in -1 .. BufSize
    BY <1>7, <2>2 DEF Receive, SocketsAssumption
  <2> QED  BY <1>0, <1>7, <2>2, <2>3 DEF TypeOK, Receive
<1>8. CASE SendBack
  <2>1. fdt[cur] \in Conn /\ recvRes \in Int /\ Send(fdt[cur], recvRes)
    BY <1>8, CurIsOpen DEF SendBack
  <2>2. SocketsTypeOK'
    BY <1>0, <2>1, SendType
  <2> QED  BY <1>0, <1>8, <2>2 DEF TypeOK, SendBack
<1>9. CASE Fault
  BY <1>0, <1>9 DEF TypeOK, SocketsTypeOK, sockets, Fault
<1>10. CASE Environment
  <2>1. SocketsTypeOK'
    BY <1>0, <1>10, ClientType DEF Environment
  <2> QED  BY <1>0, <1>10, <2>1 DEF TypeOK, Environment, server
<1>11. CASE UNCHANGED vars
  BY <1>0, <1>11 DEF TypeOK, SocketsTypeOK, vars, sockets, server
<1> QED
  BY <1>1, <1>2, <1>3, <1>4, <1>5, <1>6, <1>7, <1>8, <1>9, <1>10, <1>11
     DEF Next, Server

(***************************************************************************)
(* The descriptor table and the events of the last epoll_wait().           *)
(***************************************************************************)

DescriptorFacts == DescriptorsOK /\ EventsStayTrue

\* Every step keeps what is known of descriptors.
LEMMA DescriptorStep == IInv /\ [Next]_vars => DescriptorFacts'
<1> SUFFICES ASSUME IInv, [Next]_vars  PROVE DescriptorFacts'
  OBVIOUS
<1>0. /\ DescriptorFacts
      /\ peer \in [Conn -> PeerState] /\ backlog \subseteq Conn
      /\ fdt \in [FD -> Conn \cup {NoConn}]
      /\ sent \in [Conn -> Nat] /\ rcvd \in [Conn -> Nat]
      /\ interest \subseteq FD \cup {Master}
      /\ events \subseteq FD \cup {Master}
      /\ NoConn \notin Conn /\ FD \subseteq Nat /\ Master \in Nat \ FD
  BY SocketsAssumption
     DEF IInv, TypeOK, SocketsTypeOK, DescriptorFacts, SocketsAssumption
<1> USE DEF DescriptorFacts, DescriptorsOK, EventsStayTrue, InterestIsOpen, OpenFds
<1>1. CASE EpollWait
  <2>1. events' \subseteq Ready
    BY <1>1 DEF EpollWait
  <2>2. UNCHANGED <<sockets, pc, interest, overrun, cur>>
    BY <1>1 DEF EpollWait
  <2> QED  BY <1>0, <2>1, <2>2 DEF Ready, sockets, Readable, Avail
<1>2. CASE Interrupted
  BY <1>0, <1>2 DEF Interrupted
<1>3. CASE AcceptSlave
  <2>0. pc = "loop" /\ pc' = pc /\ events' \subseteq events /\ UNCHANGED overrun
    BY <1>3 DEF AcceptSlave, Handling
  <2>1. PICK s \in FD \cup {-1} :
          AcceptNonblock(s) /\ interest' = interest \cup ({s} \ {-1})
    BY <1>3 DEF AcceptSlave
  <2>2. CASE s = -1
    <3>1. UNCHANGED <<peer, backlog, fdt, sent, rcvd>>
      BY <1>0, <2>1, <2>2 DEF AcceptNonblock, FreeFds
    <3>2. interest' = interest
      BY <2>1, <2>2
    <3> QED  BY <1>0, <2>0, <3>1, <3>2 DEF Readable, Avail
  <2>3. CASE s # -1
    <3>1. PICK c \in backlog :
            s \in FD /\ fdt[s] = NoConn /\ fdt' = [fdt EXCEPT ![s] = c]
            /\ backlog' = backlog \ {c}
      BY <2>1, <2>3 DEF AcceptNonblock, FreeFds
    <3>2. UNCHANGED <<peer, sent, rcvd>>
      BY <2>1, <2>3 DEF AcceptNonblock
    <3> QED  BY <1>0, <2>0, <2>1, <2>3, <3>1, <3>2 DEF Readable, Avail
  <2> QED  BY <2>2, <2>3
<1>4. ASSUME NEW fd \in FD, Disconnect(fd)  PROVE DescriptorFacts'
  <2>1. fd \in OpenFds /\ fdt[fd] \in Conn
    BY <1>4, OpenIsConn DEF Disconnect, IInv
  <2> QED
    BY <1>0, <1>4, <2>1 DEF Disconnect, Handling, Close, Readable, Avail
<1>5. ASSUME NEW fd \in FD, Ignore(fd)  PROVE DescriptorFacts'
  <2>1. fd \in OpenFds /\ fdt[fd] \in Conn
    BY <1>5, OpenIsConn DEF Ignore, IInv
  <2>2. /\ UNCHANGED <<pc, interest, overrun, cur>> /\ events' = events \ {fd}
        /\ UNCHANGED sockets \/ RecvError(fdt[fd])
    BY <1>5 DEF Ignore
  <2>3. CASE UNCHANGED sockets
    BY <1>0, <2>2, <2>3 DEF sockets, Readable, Avail
  <2>4. CASE RecvError(fdt[fd])
    <3>1. UNCHANGED <<backlog, fdt, sent, rcvd>>
      BY <2>4 DEF RecvError
    <3>2. peer' = peer \/ peer' = [peer EXCEPT ![fdt[fd]] = "gone"]
      BY <2>4 DEF RecvError
    <3> QED  BY <1>0, <2>1, <2>2, <3>1, <3>2 DEF Readable, Avail
  <2> QED  BY <2>2, <2>3, <2>4
<1>6. ASSUME NEW fd \in FD, IgnoreBad(fd)  PROVE DescriptorFacts'
  BY <1>0, <1>6 DEF IgnoreBad, Readable, Avail
<1>7. ASSUME NEW fd \in FD, Receive(fd)  PROVE DescriptorFacts'
  <2>1. fd \in OpenFds /\ fdt[fd] \in Conn /\ RecvData(fdt[fd])
    BY <1>7, OpenIsConn DEF Receive, IInv
  <2>2. /\ UNCHANGED <<interest, overrun>> /\ cur' = fd
        /\ events' = events \ {fd}
    BY <1>7 DEF Receive
  <2>3. /\ UNCHANGED <<peer, backlog, fdt, sent>>
        /\ rcvd' = [rcvd EXCEPT ![fdt[fd]] = rcvd'[fdt[fd]]]
    BY <1>0, <2>1 DEF RecvData
  <2> QED  BY <1>0, <2>1, <2>2, <2>3 DEF Readable, Avail
<1>8. CASE SendBack
  <2>1. fdt[cur] \in Conn
    BY <1>8, CurIsOpen DEF SendBack
  <2>2. UNCHANGED <<backlog, fdt, sent, rcvd, interest, events, overrun>>
        /\ pc' = "loop"
    BY <1>8 DEF SendBack, Send
  <2>3. peer' = peer \/ /\ peer[fdt[cur]] \in {"rst", "gone"}
                        /\ peer' = [peer EXCEPT ![fdt[cur]] = "gone"]
    BY <1>8 DEF SendBack, Send
  <2>4. \A c \in Conn :
          \/ peer'[c] = peer[c]
          \/ c = fdt[cur] /\ peer[c] \in {"rst", "gone"} /\ peer'[c] = "gone"
    BY <1>0, <2>1, <2>3
  <2>5. cur \in OpenFds
    BY <1>8, CurIsOpen DEF SendBack
  <2>6. /\ OpenFds' = OpenFds /\ OpenFds \subseteq FD
        /\ \A fd \in OpenFds : fdt[fd] \in Conn
    BY <1>0, <2>2
  <2>7. EventsStayTrue'
    BY <1>0, <2>2, <2>4, <2>6 DEF Readable, Avail
  <2>8. \A fd \in OpenFds' :
          peer'[fdt'[fd]] \in {"up", "fin", "rst", "gone"} /\ fdt'[fd] \notin backlog'
    BY <1>0, <2>2, <2>4, <2>6
  <2>9. \A c \in backlog' : peer'[c] \in {"up", "fin", "rst"}
    BY <1>0, <2>2, <2>4, <2>5
  <2> QED  BY <1>0, <2>2, <2>6, <2>7, <2>8, <2>9
<1>9. CASE Fault
  BY <1>0, <1>9 DEF Fault, sockets, Readable, Avail
<1>10. CASE Environment
  <2>1. PICK c \in Conn : \/ Connect(c) \/ ClientSend(c) \/ ClientRead(c)
                          \/ ClientShutdown(c) \/ ClientReset(c) \/ AbortQueued(c)
    BY <1>10 DEF Environment, ClientStep
  <2>2. UNCHANGED server
    BY <1>10 DEF Environment
  <2>3. CASE Connect(c)
    BY <1>0, <2>2, <2>3 DEF Connect, server, Readable, Avail
  <2>4. CASE ClientSend(c)
    BY <1>0, <2>2, <2>4 DEF ClientSend, server, Readable, Avail
  <2>5. CASE ClientRead(c)
    BY <1>0, <2>2, <2>5 DEF ClientRead, server, Readable, Avail
  <2>6. CASE ClientShutdown(c)
    BY <1>0, <2>2, <2>6 DEF ClientShutdown, server, Readable, Avail
  <2>7. CASE ClientReset(c)
    BY <1>0, <2>2, <2>7 DEF ClientReset, server, Readable, Avail
  <2>8. CASE AbortQueued(c)
    BY <1>0, <2>2, <2>8 DEF AbortQueued, server, Readable, Avail
  <2> QED  BY <2>1, <2>3, <2>4, <2>5, <2>6, <2>7, <2>8
<1>11. CASE UNCHANGED vars
  BY <1>0, <1>11 DEF vars, sockets, server, Readable, Avail
<1> QED
  BY <1>1, <1>2, <1>3, <1>4, <1>5, <1>6, <1>7, <1>8, <1>9, <1>10, <1>11
     DEF Next, Server

(***************************************************************************)
(* The bytes.                                                              *)
(***************************************************************************)

\* The steps that neither receive nor send leave the streams in order.
LEMMA StreamQuiet ==
  ASSUME IInv, UNCHANGED <<rcvd, echo, buf, recvRes, cur>>,
         \A c \in Conn : sent'[c] >= sent[c],
         sent' \in [Conn -> Nat],
         (pc # "send" /\ pc' # "send") \/ UNCHANGED <<pc, fdt>>
  PROVE  StreamsOK'
<1>0. rcvd \in [Conn -> Nat] /\ sent \in [Conn -> Nat]
  BY SocketsAssumption DEF IInv, TypeOK, SocketsTypeOK, SocketsAssumption
<1>1. \A c \in Conn : InHand(c)' = InHand(c)
  BY DEF InHand
<1>2. StreamsOK
  BY DEF IInv
<1>3. \A c \in Conn : rcvd'[c] <= sent'[c]
  BY <1>0, <1>2 DEF StreamsOK
<1>4. \A c \in Conn :
        /\ \A i \in 1 .. Len(echo'[c]) :
             echo'[c][i][1] = c /\ echo'[c][i][2] \in 1 .. rcvd'[c] - InHand(c)'
        /\ \A i, j \in 1 .. Len(echo'[c]) :
             i < j => echo'[c][i][2] < echo'[c][j][2]
  BY <1>1, <1>2 DEF StreamsOK
<1>5. pc' = "send" =>
        /\ recvRes' \in 1 .. rcvd'[fdt'[cur']] /\ recvRes' <= Len(buf')
        /\ \A k \in 1 .. recvRes' :
             buf'[k] = <<fdt'[cur'], rcvd'[fdt'[cur']] - recvRes' + k>>
  BY <1>2 DEF StreamsOK
<1> QED  BY <1>3, <1>4, <1>5 DEF StreamsOK

\* A receive takes the next bytes of its client into hand; nobody else's
\* stream, and no echo, changes.
LEMMA ReceiveFacts ==
  ASSUME IInv, NEW fd \in FD, Receive(fd)
  PROVE  LET c0 == fdt[fd]
             n == RecvCount(c0)
         IN  /\ c0 \in Conn /\ n \in Nat /\ n > 0 /\ n <= sent[c0] - rcvd[c0]
             /\ n <= Len(buf') /\ \A k \in 1 .. n : buf'[k] = <<c0, rcvd[c0] + k>>
             /\ rcvd' = [rcvd EXCEPT ![c0] = rcvd[c0] + n]
             /\ UNCHANGED <<fdt, sent, echo>>
             /\ recvRes' = n /\ cur' = fd /\ pc # "send" /\ pc' = "send"
<1> DEFINE c0 == fdt[fd]
           n == RecvCount(c0)
<1>1. c0 \in Conn /\ SocketsTypeOK /\ RecvData(c0)
  BY OpenIsConn DEF Receive, IInv, TypeOK
<1>2. /\ n \in 1 .. BufSize /\ n <= Avail(c0) /\ n <= Len(buf')
      /\ \A k \in 1 .. n : buf'[k] = <<c0, rcvd[c0] + k>>
  BY <1>1, ReceivedBytes, SocketsAssumption
<1>3. /\ rcvd' = [rcvd EXCEPT ![c0] = rcvd[c0] + n]
      /\ UNCHANGED <<fdt, sent, echo>>
      /\ recvRes' = n /\ cur' = fd /\ pc # "send" /\ pc' = "send"
  BY <1>1 DEF Receive, RecvData, Handling
<1> HIDE DEF n
<1>4. n \in Nat /\ n > 0 /\ n <= sent[c0] - rcvd[c0]
  BY <1>2, SocketsAssumption DEF Avail, SocketsAssumption
<1> QED  BY <1>1, <1>2, <1>3, <1>4 DEF n

\* A receive keeps the streams.
LEMMA StreamReceive ==
  ASSUME IInv, NEW fd \in FD, Receive(fd)
  PROVE  StreamsOK'
<1> DEFINE c0 == fdt[fd]
           n == RecvCount(c0)
<1>1. /\ c0 \in Conn /\ n \in Nat /\ n > 0 /\ n <= sent[c0] - rcvd[c0]
      /\ n <= Len(buf') /\ \A k \in 1 .. n : buf'[k] = <<c0, rcvd[c0] + k>>
      /\ rcvd' = [rcvd EXCEPT ![c0] = rcvd[c0] + n]
      /\ UNCHANGED <<fdt, sent, echo>>
      /\ recvRes' = n /\ cur' = fd /\ pc # "send" /\ pc' = "send"
  BY ReceiveFacts
<1> HIDE DEF n
<1>0. rcvd \in [Conn -> Nat] /\ sent \in [Conn -> Nat] /\ StreamsOK
  BY SocketsAssumption DEF IInv, TypeOK, SocketsTypeOK, SocketsAssumption
<1>2. \A c \in Conn : InHand(c) = 0 /\ rcvd'[c] - InHand(c)' = rcvd[c]
  BY <1>0, <1>1 DEF InHand
<1>3. \A c \in Conn : rcvd'[c] <= sent'[c]
  BY <1>0, <1>1 DEF StreamsOK
<1>4. \A c \in Conn : rcvd[c] - InHand(c) = rcvd[c]
  BY <1>0, <1>2
<1>5. \A c \in Conn :
        /\ \A i \in 1 .. Len(echo'[c]) :
             echo'[c][i][1] = c /\ echo'[c][i][2] \in 1 .. rcvd'[c] - InHand(c)'
        /\ \A i, j \in 1 .. Len(echo'[c]) :
             i < j => echo'[c][i][2] < echo'[c][j][2]
  BY <1>0, <1>1, <1>2, <1>4 DEF StreamsOK
<1>6. rcvd'[fdt'[cur']] = rcvd[c0] + n /\ fdt'[cur'] = c0 /\ rcvd[c0] \in Nat
  BY <1>0, <1>1
<1>7. /\ recvRes' \in 1 .. rcvd'[fdt'[cur']] /\ recvRes' <= Len(buf')
      /\ \A k \in 1 .. recvRes' :
           buf'[k] = <<fdt'[cur'], rcvd'[fdt'[cur']] - recvRes' + k>>
  BY <1>1, <1>6
<1> QED  BY <1>3, <1>5, <1>7 DEF StreamsOK

\* A send appends to the echo of its client a prefix of the piece in hand.
LEMMA SentPrefix ==
  ASSUME IInv, SendBack
  PROVE  \E piece \in Seq(Byte \cup {Junk}) :
           /\ Len(piece) <= recvRes
           /\ \A k \in 1 .. Len(piece) :
                piece[k] = <<fdt[cur], rcvd[fdt[cur]] - recvRes + k>>
           /\ echo' = [echo EXCEPT ![fdt[cur]] = echo[fdt[cur]] \o piece]
<1>1. /\ pc = "send" /\ fdt[cur] \in Conn /\ Send(fdt[cur], recvRes)
      /\ recvRes \in Nat /\ recvRes <= Len(buf)
  BY CurIsOpen DEF SendBack
<1>2. PICK piece \in Seq(Byte \cup {Junk}) :
        /\ Len(piece) <= recvRes
        /\ \A k \in 1 .. Len(piece) : piece[k] = buf[k]
        /\ echo' = [echo EXCEPT ![fdt[cur]] = echo[fdt[cur]] \o piece]
  BY <1>1, SendAppends, SocketsAssumption DEF IInv, TypeOK
<1>3. Len(piece) \in Nat
  BY LenProperties
<1>4. \A k \in 1 .. Len(piece) : k \in 1 .. recvRes
  BY <1>1, <1>2, <1>3
<1>5. \A k \in 1 .. recvRes :
        buf[k] = <<fdt[cur], rcvd[fdt[cur]] - recvRes + k>>
  BY <1>1 DEF IInv, StreamsOK
<1> QED  BY <1>2, <1>4, <1>5

\* A send keeps the streams.
LEMMA StreamSend ==
  ASSUME IInv, SendBack
  PROVE  StreamsOK'
<1> DEFINE c0 == fdt[cur]
           base == rcvd[c0] - recvRes
<1>0. /\ c0 \in Conn /\ StreamsOK /\ recvRes \in Nat /\ recvRes <= rcvd[c0]
      /\ rcvd \in [Conn -> Nat] /\ sent \in [Conn -> Nat]
      /\ echo \in [Conn -> Seq(Byte \cup {Junk})]
      /\ pc = "send" /\ pc' = "loop"
      /\ UNCHANGED <<sent, rcvd, fdt, cur, recvRes>>
  <2>1. pc = "send" /\ pc' = "loop" /\ UNCHANGED <<sent, rcvd, fdt, cur, recvRes>>
    BY DEF SendBack, Send
  <2>2. c0 \in Conn /\ recvRes \in Nat /\ recvRes <= rcvd[c0]
    BY <2>1, CurIsOpen
  <2> QED
    BY <2>1, <2>2, SocketsAssumption
       DEF IInv, TypeOK, SocketsTypeOK, SocketsAssumption
<1>1. \A c \in Conn : InHand(c)' = 0
  BY <1>0 DEF InHand
<1>2. PICK piece \in Seq(Byte \cup {Junk}) :
        /\ Len(piece) <= recvRes
        /\ \A k \in 1 .. Len(piece) : piece[k] = <<c0, base + k>>
        /\ echo' = [echo EXCEPT ![c0] = echo[c0] \o piece]
  BY SentPrefix
<1>3. ASSUME NEW c \in Conn
      PROVE  /\ \A i \in 1 .. Len(echo'[c]) :
                  echo'[c][i][1] = c /\ echo'[c][i][2] \in 1 .. rcvd'[c] - InHand(c)'
             /\ \A i, j \in 1 .. Len(echo'[c]) :
                  i < j => echo'[c][i][2] < echo'[c][j][2]
  <2>1. rcvd'[c] - InHand(c)' = rcvd[c]
    BY <1>0, <1>1
  <2>2. CASE c # c0
    <3>1. echo'[c] = echo[c] /\ rcvd[c] - InHand(c) = rcvd[c]
      BY <1>0, <1>2, <2>2 DEF InHand
    <3> QED  BY <1>0, <2>1, <3>1 DEF StreamsOK
  <2>3. CASE c = c0
    <3>1. base = rcvd[c0] - InHand(c0) /\ base \in Nat
      BY <1>0 DEF InHand
    <3> DEFINE old == echo[c0]
               top == rcvd[c0]
    <3>2. /\ \A i \in 1 .. Len(old) : old[i][1] = c0 /\ old[i][2] \in 1 .. base
          /\ \A i, j \in 1 .. Len(old) : i < j => old[i][2] < old[j][2]
      BY <1>0, <3>1 DEF StreamsOK
    <3>3. base + Len(piece) <= top
      <4>1. Len(piece) \in Nat
        BY LenProperties
      <4> QED  BY <1>0, <1>2, <4>1
    <3>4. echo'[c0] = old \o piece /\ old \in Seq(Byte \cup {Junk}) /\ top \in Nat
      BY <1>0, <1>2
    <3>5. piece \in Seq(Byte \cup {Junk}) /\ base \in Nat
          /\ \A k \in 1 .. Len(piece) : piece[k] = <<c0, base + k>>
      BY <1>2, <3>1
    <3>6. rcvd'[c] - InHand(c)' = top
      BY <2>1, <2>3
    <3> HIDE DEF base, old, top, c0
    <3>7. /\ \A i \in 1 .. Len(old \o piece) :
               (old \o piece)[i][1] = c0 /\ (old \o piece)[i][2] \in 1 .. top
          /\ \A i, j \in 1 .. Len(old \o piece) :
               i < j => (old \o piece)[i][2] < (old \o piece)[j][2]
      BY <3>2, <3>3, <3>4, <3>5, AppendInOrder
    <3> QED  BY <2>3, <3>4, <3>6, <3>7
  <2> QED  BY <2>2, <2>3
<1>4. \A c \in Conn : rcvd'[c] <= sent'[c]
  BY <1>0 DEF StreamsOK
<1> QED  BY <1>0, <1>3, <1>4 DEF StreamsOK

\* Every step keeps the streams.
LEMMA StreamStep == IInv /\ [Next]_vars => StreamsOK'
<1> SUFFICES ASSUME IInv, [Next]_vars  PROVE StreamsOK'
  OBVIOUS
<1>0. sent \in [Conn -> Nat]
  BY SocketsAssumption DEF IInv, TypeOK, SocketsTypeOK, SocketsAssumption
<1>1. CASE EpollWait
  BY <1>0, <1>1, StreamQuiet DEF EpollWait, sockets
<1>2. CASE Interrupted
  BY <1>0, <1>2, StreamQuiet DEF Interrupted
<1>3. CASE AcceptSlave
  BY <1>0, <1>3, StreamQuiet DEF AcceptSlave, AcceptNonblock, Handling
<1>4. ASSUME NEW fd \in FD, Disconnect(fd)  PROVE StreamsOK'
  BY <1>0, <1>4, StreamQuiet DEF Disconnect, Close, Handling
<1>5. ASSUME NEW fd \in FD, Ignore(fd)  PROVE StreamsOK'
  BY <1>0, <1>5, StreamQuiet DEF Ignore, RecvError, Handling, sockets
<1>6. ASSUME NEW fd \in FD, IgnoreBad(fd)  PROVE StreamsOK'
  BY <1>0, <1>6, StreamQuiet DEF IgnoreBad
<1>7. ASSUME NEW fd \in FD, Receive(fd)  PROVE StreamsOK'
  BY <1>7, StreamReceive
<1>8. CASE SendBack
  BY <1>8, StreamSend
<1>9. CASE Fault
  BY <1>0, <1>9, StreamQuiet DEF Fault, sockets
<1>10. CASE Environment
  <2>1. UNCHANGED <<rcvd, echo, buf, recvRes, cur, pc, fdt>>
    BY <1>10 DEF Environment, server, ClientStep, Connect, ClientSend, ClientRead,
                 ClientShutdown, ClientReset, AbortQueued
  <2>2. UNCHANGED sent \/ \E c \in Conn : sent' = [sent EXCEPT ![c] = @ + 1]
    BY <1>10 DEF Environment, ClientStep, Connect, ClientSend, ClientRead,
                 ClientShutdown, ClientReset, AbortQueued
  <2>3. sent' \in [Conn -> Nat] /\ \A c \in Conn : sent'[c] >= sent[c]
    BY <1>0, <2>2
  <2> QED  BY <2>1, <2>3, StreamQuiet
<1>11. CASE UNCHANGED vars
  BY <1>0, <1>11, StreamQuiet DEF vars, sockets, server
<1> QED
  BY <1>1, <1>2, <1>3, <1>4, <1>5, <1>6, <1>7, <1>8, <1>9, <1>10, <1>11
     DEF Next, Server

(***************************************************************************)
(* The theorems.                                                           *)
(***************************************************************************)

\* The invariant holds at the start.
LEMMA InitInv == Init => IInv
<1> SUFFICES ASSUME Init  PROVE IInv
  OBVIOUS
<1>1. SocketsTypeOK
  BY InitType, SocketsAssumption DEF Init
<1>2. TypeOK
  <2>1. overrun \in BOOLEAN
    BY DEF Init
  <2>2. cur \in FD \cup {-1} /\ recvRes \in -1 .. BufSize /\ signals \in 0 .. MaxSignals
    BY SocketsAssumption, EpollAssumption
       DEF Init, SocketsAssumption, EpollAssumption
  <2>3. interest \subseteq FD \cup {Master} /\ events \subseteq FD \cup {Master}
        /\ served \subseteq FD \cup {Master} /\ pc \in {"loop", "send", "crashed"}
    BY DEF Init
  <2> QED  BY <1>1, <2>1, <2>2, <2>3 DEF TypeOK
<1>3. OpenFds = {} /\ backlog = {} /\ interest = {Master} /\ events = {}
      /\ pc = "loop"
  BY DEF Init, SocketsInit, OpenFds
<1>4. DescriptorsOK /\ EventsStayTrue
  BY <1>3 DEF DescriptorsOK, InterestIsOpen, EventsStayTrue
<1>5. \A c \in Conn : rcvd[c] = 0 /\ sent[c] = 0 /\ echo[c] = << >>
  BY DEF Init, SocketsInit
<1>6. StreamsOK
  BY <1>3, <1>5, EmptySeq DEF StreamsOK
<1> QED  BY <1>2, <1>4, <1>6 DEF IInv

\* Whatever the clients do, whatever part of the ready descriptors is
\* reported, and whatever descriptors the overrun comes across.
THEOREM Invariance == Spec => []IInv
<1>1. IInv /\ [Next]_vars => IInv'
  BY TypeStep, DescriptorStep, StreamStep DEF IInv, DescriptorFacts
<1> QED  BY InitInv, <1>1, PTL DEF Spec

\* Every variable keeps its type, for every instance.
THEOREM TypeCorrect == Spec => []TypeOK
<1>1. IInv => TypeOK
  BY DEF IInv
<1> QED  BY Invariance, <1>1, PTL

\* The interest set is the set of open sockets, in the overrun too.
THEOREM InterestCorrect == Spec => []InterestIsOpen
<1>1. IInv => InterestIsOpen
  BY DEF IInv, DescriptorsOK
<1> QED  BY Invariance, <1>1, PTL

\* No reported event is stale when it is handled, unless the loop reads
\* beyond the reported ones.
THEOREM EventsCorrect == Spec => []EventsStayTrue
<1>1. IInv => EventsStayTrue
  BY DEF IInv
<1> QED  BY Invariance, <1>1, PTL

\* A client that is connected stays so, stale events and all.
THEOREM HealthyCorrect == Spec => HealthyStayConnected
<1>1. IInv /\ [Next]_vars =>
        [\A c \in Conn : peer[c] = "up" => peer'[c] # "closed"]_vars
  <2> SUFFICES ASSUME IInv, Next, NEW c \in Conn, peer[c] = "up"
               PROVE  peer'[c] # "closed"
    OBVIOUS
  <2>0. peer \in [Conn -> PeerState]
    BY DEF IInv, TypeOK, SocketsTypeOK
  <2>1. ASSUME NEW fd \in FD, Disconnect(fd)  PROVE peer'[c] # "closed"
    BY <2>0, <2>1 DEF Disconnect, EndSeen, AtEnd, Close
  <2>2. ASSUME NEW fd \in FD, Ignore(fd) \/ IgnoreBad(fd) \/ Receive(fd)
        PROVE  peer'[c] # "closed"
    BY <2>0, <2>2
       DEF Ignore, IgnoreBad, Receive, RecvError, RecvData, sockets
  <2>3. CASE EpollWait \/ AcceptSlave \/ SendBack \/ Fault \/ Interrupted
    BY <2>0, <2>3
       DEF EpollWait, AcceptSlave, AcceptNonblock, SendBack, Send, Fault,
           Interrupted, sockets
  <2>4. CASE Environment
    BY <2>0, <2>4
       DEF Environment, ClientStep, Connect, ClientSend, ClientRead,
           ClientShutdown, ClientReset, AbortQueued
  <2> QED  BY <2>1, <2>2, <2>3, <2>4 DEF Next, Server
<1> QED  BY Invariance, <1>1, PTL DEF Spec, HealthyStayConnected

(***************************************************************************)
(* The refinement of EchoService.                                          *)
(***************************************************************************)

Taken == [c \in Conn |-> rcvd[c] - InHand(c)]

\* A step that changes neither the echo nor the pieces dealt with stutters.
LEMMA ServiceStutter ==
  ASSUME UNCHANGED echo, \A c \in Conn : rcvd'[c] - InHand(c)' = rcvd[c] - InHand(c)
  PROVE  UNCHANGED Service!vars
<1>1. Taken' = Taken
  BY DEF Taken
<1> QED  BY <1>1 DEF Service!vars, Taken

\* The end of a send() is the answer to the piece in hand.
LEMMA ServiceAnswer ==
  ASSUME IInv, SendBack
  PROVE  Service!Next
<1> DEFINE c0 == fdt[cur]
<1>0. /\ c0 \in Conn /\ recvRes \in Nat /\ recvRes > 0 /\ recvRes <= rcvd[c0]
      /\ rcvd \in [Conn -> 0 .. MaxBytes] /\ MaxBytes \in Nat
      /\ pc = "send" /\ pc' = "loop" /\ UNCHANGED <<rcvd, fdt, cur>>
  <2>1. pc = "send" /\ pc' = "loop" /\ UNCHANGED <<rcvd, fdt, cur>>
    BY DEF SendBack, Send
  <2>2. c0 \in Conn /\ recvRes \in Nat /\ recvRes > 0 /\ recvRes <= rcvd[c0]
    BY <2>1, CurIsOpen
  <2> QED
    BY <2>1, <2>2, SocketsAssumption
       DEF IInv, TypeOK, SocketsTypeOK, SocketsAssumption
<1>1. PICK piece \in Seq(Byte \cup {Junk}) :
        /\ Len(piece) <= recvRes
        /\ \A k \in 1 .. Len(piece) : piece[k] = <<c0, rcvd[c0] - recvRes + k>>
        /\ echo' = [echo EXCEPT ![c0] = echo[c0] \o piece]
  BY SentPrefix
<1> DEFINE m == Len(piece)
<1>2. m \in Nat /\ m <= recvRes
  BY <1>1, LenProperties
<1>3. recvRes \in 1 .. MaxBytes /\ m \in 0 .. MaxBytes
  BY <1>0, <1>2
<1>4. Taken[c0] = rcvd[c0] - recvRes
  BY <1>0 DEF Taken, InHand
<1>5. Taken' = [Taken EXCEPT ![c0] = Taken[c0] + recvRes]
  <2>1. \A c \in Conn : Taken'[c] = IF c = c0 THEN rcvd[c0] ELSE Taken[c]
    BY <1>0 DEF Taken, InHand
  <2>2. Taken[c0] + recvRes = rcvd[c0]
    BY <1>0, <1>4
  <2>3. \A c \in Conn :
          [Taken EXCEPT ![c0] = Taken[c0] + recvRes][c]
            = IF c = c0 THEN rcvd[c0] ELSE Taken[c]
    BY <2>2 DEF Taken
  <2> QED  BY <2>1, <2>3 DEF Taken
<1>6. piece = [k \in 1 .. m |-> <<c0, Taken[c0] + k>>]
  <2>1. piece \in [1 .. m -> Byte \cup {Junk}]
    BY <1>1, LenProperties
  <2> QED  BY <1>1, <1>4, <2>1
<1>7. Taken[c0] + recvRes <= MaxBytes
  BY <1>0, <1>4
<1> HIDE DEF m
<1>8. Service!Answer(c0, recvRes, m)
  BY <1>1, <1>2, <1>5, <1>6, <1>7 DEF Service!Answer, Service!Piece, Taken
<1> QED  BY <1>0, <1>3, <1>8 DEF Service!Next

\* Every step is one of the service or none.
LEMMA ServiceStep ==
  ASSUME IInv, [Next]_vars
  PROVE  [Service!Next]_(Service!vars)
<1>0. rcvd \in [Conn -> Nat]
  BY SocketsAssumption DEF IInv, TypeOK, SocketsTypeOK, SocketsAssumption
<1>1. CASE SendBack
  BY <1>1, ServiceAnswer
<1>2. ASSUME NEW fd \in FD, Receive(fd)  PROVE UNCHANGED Service!vars
  <2> DEFINE c0 == fdt[fd]
             n == RecvCount(c0)
  <2>1. /\ c0 \in Conn /\ n \in Nat /\ UNCHANGED <<fdt, echo>>
        /\ rcvd' = [rcvd EXCEPT ![c0] = rcvd[c0] + n]
        /\ recvRes' = n /\ cur' = fd /\ pc # "send" /\ pc' = "send"
    BY <1>2, ReceiveFacts
  <2> HIDE DEF n
  <2>2. \A c \in Conn : /\ InHand(c) = 0
                        /\ InHand(c)' = IF c = c0 THEN n ELSE 0
    BY <2>1 DEF InHand
  <2>3. \A c \in Conn : rcvd'[c] - InHand(c)' = rcvd[c] - InHand(c)
    BY <1>0, <2>1, <2>2
  <2> QED  BY <2>1, <2>3, ServiceStutter
<1>3. ASSUME UNCHANGED <<rcvd, echo, cur, recvRes>>,
             (pc # "send" /\ pc' # "send") \/ UNCHANGED <<pc, fdt>>
      PROVE  UNCHANGED Service!vars
  <2>1. \A c \in Conn : InHand(c)' = InHand(c)
    BY <1>3 DEF InHand
  <2> QED  BY <1>3, <2>1, ServiceStutter
<1>4. CASE EpollWait  BY <1>3, <1>4 DEF EpollWait, sockets
<1>5. CASE Interrupted  BY <1>3, <1>5 DEF Interrupted
<1>6. CASE AcceptSlave  BY <1>3, <1>6 DEF AcceptSlave, AcceptNonblock, Handling
<1>7. ASSUME NEW fd \in FD, Disconnect(fd)  PROVE UNCHANGED Service!vars
  BY <1>3, <1>7 DEF Disconnect, Close, Handling
<1>8. ASSUME NEW fd \in FD, Ignore(fd)  PROVE UNCHANGED Service!vars
  BY <1>3, <1>8 DEF Ignore, RecvError, Handling, sockets
<1>9. ASSUME NEW fd \in FD, IgnoreBad(fd)  PROVE UNCHANGED Service!vars
  BY <1>3, <1>9 DEF IgnoreBad
<1>10. CASE Fault  BY <1>3, <1>10 DEF Fault, sockets
<1>11. CASE Environment
  BY <1>3, <1>11 DEF Environment, server, ClientStep, Connect, ClientSend,
                     ClientRead, ClientShutdown, ClientReset, AbortQueued
<1>12. CASE UNCHANGED vars
  BY <1>3, <1>12 DEF vars, sockets, server
<1> QED
  BY <1>1, <1>2, <1>4, <1>5, <1>6, <1>7, <1>8, <1>9, <1>10, <1>11, <1>12
     DEF Next, Server

\* For every instance, what the clients see of the server is a behaviour of
\* the abstract echo service, up to a crash and in the overrun before it.
THEOREM Refinement == Spec => EchoServiceSpec
<1>1. Init => Service!Init
  BY DEF Init, SocketsInit, Service!Init, InHand
<1>2. IInv /\ [Next]_vars => [Service!Next]_(Service!vars)
  BY ServiceStep
<1> QED  BY Invariance, <1>1, <1>2, PTL DEF Spec, EchoServiceSpec, Service!Spec
=============================================================================
