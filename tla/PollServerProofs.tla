-------------------------- MODULE PollServerProofs --------------------------
(***************************************************************************)
(* Proofs about PollServer for every set of connections and descriptors,   *)
(* every stream length, buffer size and kernel buffer.                     *)
(*                                                                         *)
(* IInv is the inductive invariant.  Its parts are proved to be preserved  *)
(* one after the other, each from the whole invariant before the step:     *)
(* the types, the descriptor table with the reported events, the bytes.    *)
(***************************************************************************)
EXTENDS PollServer, SocketsProofs

\* What an action of the server finds at the slot it handles.
LEMMA SlotIsOpen ==
  ASSUME IInv, NEW fd \in FD, NextSlot(fd)
  PROVE  /\ fd \in OpenFds /\ fdt[fd] \in Conn /\ Readable(fdt[fd])
         /\ fd # Master
BY SocketsAssumption
   DEF IInv, NextSlot, EventsStayTrue, OpenFds, TypeOK, SocketsTypeOK,
       SocketsAssumption

\* What SendBack finds.
LEMMA CurIsOpen ==
  ASSUME IInv, pc = "send"
  PROVE  cur \in OpenFds /\ cur \in FD /\ fdt[cur] \in Conn /\ cur \notin revents
BY DEF IInv, DescriptorsOK, OpenFds, TypeOK, SocketsTypeOK

(***************************************************************************)
(* Types.                                                                  *)
(***************************************************************************)

\* Every step keeps the types.
LEMMA TypeStep == IInv /\ [Next]_vars => TypeOK'
<1> SUFFICES ASSUME IInv, [Next]_vars  PROVE TypeOK'
  OBVIOUS
<1> USE SocketsAssumption
<1>0. TypeOK /\ SocketsTypeOK
  BY DEF IInv, TypeOK
<1>1. CASE Poll
  BY <1>0, <1>1 DEF TypeOK, SocketsTypeOK, Poll, PollIn, sockets
<1>2. CASE AcceptSlave
  <2>1. PICK s \in FD \cup {-1} :
          AcceptNonblock(s) /\ slaveSockets' = slaveSockets \cup {s}
    BY <1>2 DEF AcceptSlave
  <2>2. SocketsTypeOK'
    BY <1>0, <2>1, AcceptType
  <2> QED  BY <1>0, <1>2, <2>1, <2>2 DEF TypeOK, AcceptSlave
<1>3. ASSUME NEW fd \in FD, Disconnect(fd)  PROVE TypeOK'
  <2>1. SocketsTypeOK'
    BY <1>0, <1>3, CloseType DEF Disconnect
  <2> QED  BY <1>0, <1>3, <2>1 DEF TypeOK, Disconnect
<1>4. ASSUME NEW fd \in FD, KeepEnded(fd)  PROVE TypeOK'
  BY <1>0, <1>4 DEF TypeOK, SocketsTypeOK, KeepEnded, sockets
<1>5. ASSUME NEW fd \in FD, Receive(fd)  PROVE TypeOK'
  <2>1. fdt[fd] \in Conn
    BY <1>5, SlotIsOpen DEF Receive
  <2>2. CASE RecvData(fdt[fd]) /\ recvSize' = RecvCount(fdt[fd])
    <3>1. SocketsTypeOK' /\ recvSize' \in 1 .. BufSize
      BY <1>0, <2>1, <2>2, RecvDataType, ReceivedBytes
    <3> QED  BY <1>0, <1>5, <3>1 DEF TypeOK, Receive, SocketsAssumption
  <2>3. CASE RecvError(fdt[fd]) /\ recvSize' = -1
    <3>1. SocketsTypeOK'
      BY <1>0, <2>1, <2>3, RecvErrorType
    <3> QED  BY <1>0, <1>5, <2>3, <3>1 DEF TypeOK, Receive, SocketsAssumption
  <2> QED  BY <1>5, <2>2, <2>3 DEF Receive
<1>6. CASE SendBack
  <2>1. fdt[cur] \in Conn /\ recvSize \in Int /\ Send(fdt[cur], recvSize)
    BY <1>0, <1>6, CurIsOpen DEF SendBack, TypeOK
  <2>2. SocketsTypeOK'
    BY <1>0, <2>1, SendType
  <2> QED  BY <1>0, <1>6, <2>2 DEF TypeOK, SendBack
<1>7. CASE Clients
  <2>1. SocketsTypeOK'
    BY <1>0, <1>7, ClientType DEF Clients
  <2> QED  BY <1>0, <1>7, <2>1 DEF TypeOK, Clients, server
<1>8. CASE UNCHANGED vars
  BY <1>0, <1>8 DEF TypeOK, SocketsTypeOK, vars, sockets, server
<1> QED  BY <1>1, <1>2, <1>3, <1>4, <1>5, <1>6, <1>7, <1>8 DEF Next, Server

(***************************************************************************)
(* The descriptor table and the events of the last poll().                 *)
(***************************************************************************)

DescriptorFacts == DescriptorsOK /\ EventsStayTrue /\ ErrorSendIsVain

\* Every step keeps what is known of descriptors.
LEMMA DescriptorStep == IInv /\ [Next]_vars => DescriptorFacts'
<1> SUFFICES ASSUME IInv, [Next]_vars  PROVE DescriptorFacts'
  OBVIOUS
<1>0. /\ DescriptorFacts
      /\ peer \in [Conn -> PeerState] /\ backlog \subseteq Conn
      /\ fdt \in [FD -> Conn \cup {NoConn}]
      /\ sent \in [Conn -> Nat] /\ rcvd \in [Conn -> Nat]
      /\ slaveSockets \subseteq FD \cup {-1}
      /\ revents \subseteq FD \cup {Master}
      /\ NoConn \notin Conn /\ FD \subseteq Nat /\ Master \in Nat \ FD
  BY SocketsAssumption
     DEF IInv, TypeOK, SocketsTypeOK, DescriptorFacts, SocketsAssumption
<1> USE DEF DescriptorFacts, DescriptorsOK, EventsStayTrue, ErrorSendIsVain,
            WatchedIsOpen, OpenFds
<1>1. CASE Poll
  BY <1>0, <1>1 DEF Poll, PollIn, sockets, Readable, Avail
<1>2. CASE AcceptSlave
  <2>1. PICK s \in FD \cup {-1} :
          AcceptNonblock(s) /\ slaveSockets' = slaveSockets \cup {s}
    BY <1>2 DEF AcceptSlave
  <2>2. CASE s = -1
    <3>1. UNCHANGED <<peer, backlog, fdt, sent, rcvd>>
      BY <1>0, <2>1, <2>2 DEF AcceptNonblock, FreeFds
    <3>2. slaveSockets' \ {-1} = slaveSockets \ {-1}
      BY <2>1, <2>2
    <3>3. pc = "loop" /\ pc' = "loop" /\ revents' \subseteq revents
      BY <1>2 DEF AcceptSlave
    <3> QED  BY <1>0, <3>1, <3>2, <3>3 DEF Readable, Avail
  <2>3. CASE s # -1
    <3>1. PICK c \in backlog :
            s \in FD /\ fdt[s] = NoConn /\ fdt' = [fdt EXCEPT ![s] = c]
            /\ backlog' = backlog \ {c}
      BY <2>1, <2>3 DEF AcceptNonblock, FreeFds
    <3>2. UNCHANGED <<peer, sent, rcvd>>
      BY <2>1, <2>3 DEF AcceptNonblock
    <3> QED
      BY <1>0, <1>2, <2>1, <2>3, <3>1, <3>2 DEF AcceptSlave, Readable, Avail
  <2> QED  BY <2>2, <2>3
<1>3. ASSUME NEW fd \in FD, Disconnect(fd)  PROVE DescriptorFacts'
  <2>1. fd \in OpenFds /\ fdt[fd] \in Conn
    BY <1>3, SlotIsOpen DEF Disconnect
  <2> QED
    BY <1>0, <1>3, <2>1 DEF Disconnect, NextSlot, Close, Readable, Avail
<1>4. ASSUME NEW fd \in FD, KeepEnded(fd)  PROVE DescriptorFacts'
  BY <1>0, <1>4 DEF KeepEnded, NextSlot, sockets, Readable, Avail
<1>5. ASSUME NEW fd \in FD, Receive(fd)  PROVE DescriptorFacts'
  <2>1. fd \in OpenFds /\ fdt[fd] \in Conn /\ Readable(fdt[fd])
    BY <1>5, SlotIsOpen DEF Receive
  <2>2. CASE RecvData(fdt[fd]) /\ recvSize' = RecvCount(fdt[fd])
    <3>1. recvSize' # -1
      BY <2>1, <2>2, ReceivedBytes, SocketsAssumption DEF IInv, TypeOK
    <3> QED
      BY <1>0, <1>5, <2>1, <2>2, <3>1
         DEF Receive, NextSlot, RecvData, Readable, Avail
  <2>3. CASE RecvError(fdt[fd]) /\ recvSize' = -1
    BY <1>0, <1>5, <2>1, <2>3
       DEF Receive, NextSlot, RecvError, Readable, Avail
  <2> QED  BY <1>5, <2>2, <2>3 DEF Receive
<1>6. CASE SendBack
  <2>1. fdt[cur] \in Conn /\ cur \in FD /\ cur \notin revents
    BY <1>6, CurIsOpen DEF SendBack
  <2>2. UNCHANGED <<backlog, fdt, sent, rcvd, slaveSockets, revents, cur>>
        /\ pc' = "loop"
    BY <1>6 DEF SendBack, Send
  <2>3. peer' = peer \/ /\ peer[fdt[cur]] \in {"rst", "gone"}
                        /\ peer' = [peer EXCEPT ![fdt[cur]] = "gone"]
    BY <1>6 DEF SendBack, Send
  <2> QED  BY <1>0, <2>1, <2>2, <2>3 DEF Readable, Avail
<1>7. CASE Clients
  <2>1. PICK c \in Conn : \/ Connect(c) \/ ClientSend(c) \/ ClientRead(c)
                          \/ ClientShutdown(c) \/ ClientReset(c) \/ AbortQueued(c)
    BY <1>7 DEF Clients, ClientStep
  <2>2. UNCHANGED server
    BY <1>7 DEF Clients
  <2>3. CASE Connect(c)
    BY <1>0, <2>2, <2>3 DEF Connect, server, Readable, Avail
  <2>4. CASE ClientSend(c)
    BY <1>0, <2>2, <2>4 DEF ClientSend, server, Readable, Avail
  <2>5. CASE ClientRead(c)
    BY <1>0, <2>2, <2>5 DEF ClientRead, server, Readable, Avail
  <2>6. CASE ClientShutdown(c)
    BY <1>0, <2>2, <2>6 DEF ClientShutdown, server, Readable, Avail
  <2>7. CASE ClientReset(c)
    BY <1>0, <2>2, <2>7 DEF ClientReset, server, Readable, Avail
  <2>8. CASE AbortQueued(c)
    BY <1>0, <2>2, <2>8 DEF AbortQueued, server, Readable, Avail
  <2> QED  BY <2>1, <2>3, <2>4, <2>5, <2>6, <2>7, <2>8
<1>8. CASE UNCHANGED vars
  BY <1>0, <1>8 DEF vars, sockets, server, Readable, Avail
<1> QED  BY <1>1, <1>2, <1>3, <1>4, <1>5, <1>6, <1>7, <1>8 DEF Next, Server

(***************************************************************************)
(* The bytes.                                                              *)
(***************************************************************************)

\* The steps that neither receive nor send leave the streams in order.
LEMMA StreamQuiet ==
  ASSUME IInv, UNCHANGED <<rcvd, echo, buf, recvSize, cur, pc>>,
         \A c \in Conn : sent'[c] >= sent[c],
         sent' \in [Conn -> Nat],
         pc = "loop" \/ UNCHANGED fdt
  PROVE  StreamsOK'
<1>0. rcvd \in [Conn -> Nat] /\ sent \in [Conn -> Nat]
  BY SocketsAssumption DEF IInv, TypeOK, SocketsTypeOK, SocketsAssumption
<1>1. \A c \in Conn : InHand(c)' = InHand(c)
  BY DEF InHand
<1>2. StreamsOK
  BY DEF IInv
<1>3. \A c \in Conn : rcvd'[c] <= sent'[c]
  BY <1>0, <1>2 DEF StreamsOK
<1>4. \A c \in Conn :
        /\ \A i \in 1 .. Len(echo'[c]) :
             echo'[c][i][1] = c /\ echo'[c][i][2] \in 1 .. rcvd'[c] - InHand(c)'
        /\ \A i, j \in 1 .. Len(echo'[c]) :
             i < j => echo'[c][i][2] < echo'[c][j][2]
  BY <1>1, <1>2 DEF StreamsOK
<1>5. pc' = "send" /\ recvSize' > 0 =>
        /\ recvSize' <= rcvd'[fdt'[cur']] /\ recvSize' <= Len(buf')
        /\ \A k \in 1 .. recvSize' :
             buf'[k] = <<fdt'[cur'], rcvd'[fdt'[cur']] - recvSize' + k>>
  BY <1>2 DEF StreamsOK
<1> QED  BY <1>3, <1>4, <1>5 DEF StreamsOK

\* A receive puts the piece in hand behind everything echoed so far.
LEMMA StreamReceive ==
  ASSUME IInv, NEW fd \in FD, Receive(fd)
  PROVE  StreamsOK'
<1> DEFINE c0 == fdt[fd]
<1>0. /\ c0 \in Conn /\ StreamsOK /\ TypeOK /\ SocketsTypeOK
      /\ rcvd \in [Conn -> Nat] /\ sent \in [Conn -> Nat]
      /\ pc = "loop" /\ pc' = "send" /\ cur' = fd /\ SocketsAssumption
  <2>1. c0 \in Conn /\ pc = "loop" /\ pc' = "send" /\ cur' = fd
    BY SlotIsOpen DEF Receive, NextSlot
  <2>2. StreamsOK /\ TypeOK /\ SocketsTypeOK
    BY DEF IInv, TypeOK
  <2>3. rcvd \in [Conn -> Nat] /\ sent \in [Conn -> Nat]
    BY <2>2, SocketsAssumption DEF SocketsTypeOK, SocketsAssumption
  <2> QED  BY <2>1, <2>2, <2>3, SocketsAssumption
<1>1. \A c \in Conn : InHand(c) = 0
  BY <1>0 DEF InHand
<1>2. CASE RecvData(c0) /\ recvSize' = RecvCount(c0)
  <2> DEFINE n == RecvCount(c0)
  <2>1. /\ n \in Nat /\ n > 0 /\ n <= sent[c0] - rcvd[c0]
        /\ n <= Len(buf')
        /\ \A k \in 1 .. n : buf'[k] = <<c0, rcvd[c0] + k>>
    <3>1. /\ n \in 1 .. BufSize /\ n <= Avail(c0) /\ n <= Len(buf')
          /\ \A k \in 1 .. n : buf'[k] = <<c0, rcvd[c0] + k>>
      BY <1>0, <1>2, ReceivedBytes
    <3>2. n \in Nat /\ n > 0
      <4> HIDE DEF n
      <4> QED  BY <3>1, SocketsAssumption DEF SocketsAssumption
    <3>3. n <= sent[c0] - rcvd[c0]
      BY <3>1 DEF Avail
    <3> QED  BY <3>1, <3>2, <3>3
  <2>2. /\ rcvd' = [rcvd EXCEPT ![c0] = rcvd[c0] + n]
        /\ UNCHANGED <<fdt, sent, echo>> /\ recvSize' = n
    BY <1>2 DEF RecvData
  <2> HIDE DEF n
  <2>3. \A c \in Conn : rcvd'[c] - InHand(c)' = rcvd[c]
    BY <1>0, <2>1, <2>2 DEF InHand
  <2>4. \A c \in Conn : rcvd'[c] <= sent'[c]
    BY <1>0, <2>1, <2>2 DEF StreamsOK
  <2>5. \A c \in Conn :
          /\ \A i \in 1 .. Len(echo'[c]) :
               echo'[c][i][1] = c /\ echo'[c][i][2] \in 1 .. rcvd'[c] - InHand(c)'
          /\ \A i, j \in 1 .. Len(echo'[c]) :
               i < j => echo'[c][i][2] < echo'[c][j][2]
    <3>1. \A c \in Conn : rcvd[c] - InHand(c) = rcvd[c]
      BY <1>0, <1>1
    <3> QED  BY <1>0, <2>2, <2>3, <3>1 DEF StreamsOK
  <2>6. /\ rcvd'[fdt'[cur']] = rcvd[c0] + n /\ fdt'[cur'] = c0
        /\ rcvd[c0] \in Nat
    BY <1>0, <2>2
  <2>7. /\ recvSize' <= rcvd'[fdt'[cur']] /\ recvSize' <= Len(buf')
        /\ \A k \in 1 .. recvSize' :
             buf'[k] = <<fdt'[cur'], rcvd'[fdt'[cur']] - recvSize' + k>>
    BY <2>1, <2>2, <2>6
  <2> QED  BY <2>4, <2>5, <2>7 DEF StreamsOK
<1>3. CASE RecvError(c0) /\ recvSize' = -1
  <2>1. UNCHANGED <<fdt, sent, rcvd, echo>> /\ ~(recvSize' > 0)
    BY <1>3 DEF RecvError
  <2>2. \A c \in Conn : InHand(c)' = 0
    BY <2>1 DEF InHand
  <2>3. \A c \in Conn : rcvd'[c] <= sent'[c]
    BY <1>0, <2>1 DEF StreamsOK
  <2>4. \A c \in Conn :
          /\ \A i \in 1 .. Len(echo'[c]) :
               echo'[c][i][1] = c /\ echo'[c][i][2] \in 1 .. rcvd'[c] - InHand(c)'
          /\ \A i, j \in 1 .. Len(echo'[c]) :
               i < j => echo'[c][i][2] < echo'[c][j][2]
    <3>1. \A c \in Conn : rcvd'[c] - InHand(c)' = rcvd[c] - InHand(c)
      BY <1>1, <2>1, <2>2
    <3> QED  BY <1>0, <2>1, <3>1 DEF StreamsOK
  <2> QED  BY <2>1, <2>3, <2>4 DEF StreamsOK
<1> QED  BY <1>2, <1>3 DEF Receive

\* What SendBack does to the echo of its client: nothing, or it appends a
\* prefix of the piece in hand.  After a failed receive it does nothing.
LEMMA SentPrefix ==
  ASSUME IInv, SendBack
  PROVE  \E piece \in Seq(Byte \cup {Junk}) :
           /\ Len(piece) <= recvSize \/ Len(piece) = 0
           /\ \A k \in 1 .. Len(piece) :
                piece[k] = <<fdt[cur], rcvd[fdt[cur]] - recvSize + k>>
           /\ echo' = [echo EXCEPT ![fdt[cur]] = echo[fdt[cur]] \o piece]
<1> DEFINE c0 == fdt[cur]
<1>0. /\ c0 \in Conn /\ TypeOK /\ SocketsTypeOK /\ SocketsAssumption
      /\ Send(c0, recvSize) /\ recvSize \in Int /\ StreamsOK
      /\ recvSize \in -1 .. BufSize /\ pc = "send" /\ BufSize \in Nat
  BY CurIsOpen, SocketsAssumption
     DEF SendBack, IInv, TypeOK, SocketsAssumption
<1>1. CASE UNCHANGED echo
  <2>1. << >> \in Seq(Byte \cup {Junk}) /\ Len(<< >>) = 0
    BY EmptySeq
  <2>2. echo[c0] \o << >> = echo[c0] /\ echo \in [Conn -> Seq(Byte \cup {Junk})]
    BY <1>0, ConcatEmptySeq DEF SocketsTypeOK
  <2>3. echo' = [echo EXCEPT ![c0] = echo[c0] \o << >>]
    BY <1>1, <2>2
  <2> WITNESS << >> \in Seq(Byte \cup {Junk})
  <2> QED  BY <2>1, <2>3
<1>2. CASE peer[c0] \in {"up", "fin"} /\ Room(c0) > 0
  <2> DEFINE m == Min2(AsSize(recvSize), Room(c0))
  <2>1. m \in Nat /\ (recvSize \in Nat => m <= recvSize)
    BY <1>0, <1>2, TakenCount
  <2>2. recvSize # -1
    BY <1>0, <1>2 DEF IInv, ErrorSendIsVain
  <2>3. recvSize \in Nat /\ m <= recvSize
    BY <1>0, <2>1, <2>2
  <2>4. /\ Outgoing(m) \in Seq(Byte \cup {Junk}) /\ Len(Outgoing(m)) = m
        /\ \A k \in 1 .. m : k <= Len(buf) => Outgoing(m)[k] = buf[k]
    BY <1>0, <2>1, OutgoingBytes DEF SocketsTypeOK
  <2>5. echo' = [echo EXCEPT ![c0] = echo[c0] \o Outgoing(m)]
    BY <1>0, <1>2, SendTakes
  <2> HIDE DEF m
  <2>6. \A k \in 1 .. m : Outgoing(m)[k] = <<c0, rcvd[c0] - recvSize + k>>
    <3> SUFFICES ASSUME NEW k \in 1 .. m
                 PROVE  Outgoing(m)[k] = <<c0, rcvd[c0] - recvSize + k>>
      OBVIOUS
    <3>1. k \in 1 .. recvSize /\ recvSize > 0
      BY <2>1, <2>3
    <3>2. Len(buf) \in Nat
      BY <1>0, LenProperties DEF SocketsTypeOK
    <3>3. k <= Len(buf) /\ buf[k] = <<c0, rcvd[c0] - recvSize + k>>
      BY <1>0, <3>1, <3>2 DEF StreamsOK
    <3> QED  BY <2>4, <3>3
  <2> USE <2>4
  <2> WITNESS Outgoing(m) \in Seq(Byte \cup {Junk})
  <2> QED  BY <2>3, <2>4, <2>5, <2>6
<1>3. UNCHANGED echo \/ (peer[c0] \in {"up", "fin"} /\ Room(c0) > 0)
  BY <1>0 DEF Send
<1> QED  BY <1>1, <1>2, <1>3

\* The piece in hand goes behind the echo, which it extends in order.
LEMMA StreamSend ==
  ASSUME IInv, SendBack
  PROVE  StreamsOK'
<1> DEFINE c0 == fdt[cur]
<1>0. /\ c0 \in Conn /\ StreamsOK /\ recvSize \in Int
      /\ rcvd \in [Conn -> Nat] /\ sent \in [Conn -> Nat]
      /\ echo \in [Conn -> Seq(Byte \cup {Junk})]
      /\ pc = "send" /\ pc' = "loop"
  <2>1. pc = "send" /\ pc' = "loop" /\ c0 \in Conn
    BY CurIsOpen DEF SendBack
  <2>2. StreamsOK /\ recvSize \in Int
    BY SocketsAssumption DEF IInv, TypeOK, SocketsAssumption
  <2>3. /\ rcvd \in [Conn -> Nat] /\ sent \in [Conn -> Nat]
        /\ echo \in [Conn -> Seq(Byte \cup {Junk})]
    BY SocketsAssumption DEF IInv, TypeOK, SocketsTypeOK, SocketsAssumption
  <2> QED  BY <2>1, <2>2, <2>3
<1>1. UNCHANGED <<sent, rcvd, fdt, cur, recvSize>>
  BY DEF SendBack, Send
<1>2. \A c \in Conn : InHand(c)' = 0
  BY <1>0 DEF InHand
<1>3a. PICK piece \in Seq(Byte \cup {Junk}) :
         /\ Len(piece) <= recvSize \/ Len(piece) = 0
         /\ \A k \in 1 .. Len(piece) :
              piece[k] = <<c0, rcvd[c0] - recvSize + k>>
         /\ echo' = [echo EXCEPT ![c0] = echo[c0] \o piece]
  BY SentPrefix
<1> DEFINE m == Len(piece)
<1>3. /\ m \in Nat /\ (m <= recvSize \/ m = 0)
      /\ \A k \in 1 .. m : piece[k] = <<c0, rcvd[c0] - recvSize + k>>
      /\ echo' = [echo EXCEPT ![c0] = echo[c0] \o piece]
  BY <1>3a, LenProperties
<1>4. ASSUME NEW c \in Conn, c # c0
      PROVE  /\ \A i \in 1 .. Len(echo'[c]) :
                  echo'[c][i][1] = c /\ echo'[c][i][2] \in 1 .. rcvd'[c] - InHand(c)'
             /\ \A i, j \in 1 .. Len(echo'[c]) :
                  i < j => echo'[c][i][2] < echo'[c][j][2]
  <2>1. echo'[c] = echo[c] /\ InHand(c) = 0
    BY <1>0, <1>3, <1>4 DEF InHand
  <2> QED  BY <1>0, <1>1, <1>2, <2>1 DEF StreamsOK
<1>5. /\ \A i \in 1 .. Len(echo'[c0]) :
           echo'[c0][i][1] = c0 /\ echo'[c0][i][2] \in 1 .. rcvd'[c0] - InHand(c0)'
      /\ \A i, j \in 1 .. Len(echo'[c0]) :
           i < j => echo'[c0][i][2] < echo'[c0][j][2]
  <2> DEFINE old == echo[c0]
             base == rcvd[c0] - InHand(c0)
  <2>0. old \in Seq(Byte \cup {Junk}) /\ echo'[c0] = old \o piece
    BY <1>0, <1>3
  <2>1. /\ \A i \in 1 .. Len(old) : old[i][1] = c0 /\ old[i][2] \in 1 .. base
        /\ \A i, j \in 1 .. Len(old) : i < j => old[i][2] < old[j][2]
    BY <1>0 DEF StreamsOK
  <2>2. base \in Nat /\ base + m <= rcvd[c0] /\ rcvd[c0] \in Nat
    BY <1>0, <1>3 DEF InHand, StreamsOK
  <2>3. \A k \in 1 .. m : piece[k] = <<c0, base + k>>
    BY <1>0, <1>3 DEF InHand
  <2>4. rcvd'[c0] - InHand(c0)' = rcvd[c0]
    BY <1>0, <1>1, <1>2
  <2> DEFINE top == rcvd[c0]
  <2> HIDE DEF base, old, top, c0
  <2>5. /\ \A i \in 1 .. Len(old \o piece) :
             (old \o piece)[i][1] = c0 /\ (old \o piece)[i][2] \in 1 .. top
        /\ \A i, j \in 1 .. Len(old \o piece) :
             i < j => (old \o piece)[i][2] < (old \o piece)[j][2]
    BY <1>3a, <2>0, <2>1, <2>2, <2>3, AppendInOrder DEF top
  <2> QED  BY <2>0, <2>4, <2>5 DEF top
<1>6. \A c \in Conn : rcvd'[c] <= sent'[c]
  BY <1>0, <1>1 DEF StreamsOK
<1>7. \A c \in Conn :
        /\ \A i \in 1 .. Len(echo'[c]) :
             echo'[c][i][1] = c /\ echo'[c][i][2] \in 1 .. rcvd'[c] - InHand(c)'
        /\ \A i, j \in 1 .. Len(echo'[c]) :
             i < j => echo'[c][i][2] < echo'[c][j][2]
  <2> TAKE c \in Conn
  <2>1. CASE c = c0
    <3>1. InHand(c)' = InHand(c0)'
      BY <1>0, <1>1, <1>2
    <3> QED  BY <1>5, <2>1, <3>1
  <2>2. CASE c # c0  BY <1>4, <2>2
  <2> QED  BY <2>1, <2>2
<1> QED  BY <1>0, <1>6, <1>7 DEF StreamsOK

\* Every step keeps the streams.
LEMMA StreamStep == IInv /\ [Next]_vars => StreamsOK'
<1> SUFFICES ASSUME IInv, [Next]_vars  PROVE StreamsOK'
  OBVIOUS
<1>0. sent \in [Conn -> Nat]
  BY SocketsAssumption DEF IInv, TypeOK, SocketsTypeOK, SocketsAssumption
<1>1. CASE Poll
  BY <1>0, <1>1, StreamQuiet DEF Poll, sockets
<1>2. CASE AcceptSlave
  BY <1>0, <1>2, StreamQuiet DEF AcceptSlave, AcceptNonblock
<1>3. ASSUME NEW fd \in FD, Disconnect(fd)  PROVE StreamsOK'
  BY <1>0, <1>3, StreamQuiet DEF Disconnect, Close, NextSlot
<1>4. ASSUME NEW fd \in FD, KeepEnded(fd)  PROVE StreamsOK'
  BY <1>0, <1>4, StreamQuiet DEF KeepEnded, sockets
<1>5. ASSUME NEW fd \in FD, Receive(fd)  PROVE StreamsOK'
  BY <1>5, StreamReceive
<1>6. CASE SendBack
  BY <1>6, StreamSend
<1>7. CASE Clients
  <2>1. UNCHANGED <<rcvd, echo, buf, recvSize, cur, pc, fdt>>
    BY <1>7 DEF Clients, server, ClientStep, Connect, ClientSend, ClientRead,
                ClientShutdown, ClientReset, AbortQueued
  <2>2. UNCHANGED sent \/ \E c \in Conn : sent' = [sent EXCEPT ![c] = @ + 1]
    BY <1>7 DEF Clients, ClientStep, Connect, ClientSend, ClientRead,
                ClientShutdown, ClientReset, AbortQueued
  <2>3. sent' \in [Conn -> Nat] /\ \A c \in Conn : sent'[c] >= sent[c]
    BY <1>0, <2>2
  <2> QED  BY <2>1, <2>3, StreamQuiet
<1>8. CASE UNCHANGED vars
  BY <1>0, <1>8, StreamQuiet DEF vars, sockets, server
<1> QED  BY <1>1, <1>2, <1>3, <1>4, <1>5, <1>6, <1>7, <1>8 DEF Next, Server

(***************************************************************************)
(* The theorems.                                                           *)
(***************************************************************************)

\* The invariant holds at the start.
LEMMA InitInv == Init => IInv
<1> SUFFICES ASSUME Init  PROVE IInv
  OBVIOUS
<1>1. SocketsTypeOK
  BY InitType, SocketsAssumption DEF Init
<1>2. TypeOK
  BY <1>1, SocketsAssumption DEF Init, TypeOK, SocketsAssumption
<1>3. OpenFds = {} /\ backlog = {} /\ slaveSockets = {} /\ revents = {}
      /\ pc = "loop"
  BY DEF Init, SocketsInit, OpenFds
<1>4. DescriptorsOK /\ EventsStayTrue /\ ErrorSendIsVain
  BY <1>3 DEF DescriptorsOK, WatchedIsOpen, EventsStayTrue, ErrorSendIsVain
<1>5. \A c \in Conn : rcvd[c] = 0 /\ sent[c] = 0 /\ echo[c] = << >>
  BY DEF Init, SocketsInit
<1>6. StreamsOK
  BY <1>3, <1>5, EmptySeq DEF StreamsOK
<1> QED  BY <1>2, <1>4, <1>6 DEF IInv

\* Nothing a step needs is invalidated by an earlier step of anybody.
THEOREM Invariance == Spec => []IInv
<1>1. IInv /\ [Next]_vars => IInv'
  BY TypeStep, DescriptorStep, StreamStep DEF IInv, DescriptorFacts
<1> QED  BY InitInv, <1>1, PTL DEF Spec

\* Every variable keeps its type, for every instance.
THEOREM TypeCorrect == Spec => []TypeOK
<1>1. IInv => TypeOK
  BY DEF IInv
<1> QED  BY Invariance, <1>1, PTL

\* The next poll() watches the open sockets and no others.
THEOREM WatchedCorrect == Spec => []WatchedIsOpen
<1>1. IInv => WatchedIsOpen
  BY DEF IInv, DescriptorsOK
<1> QED  BY Invariance, <1>1, PTL

\* No reported event is stale when it is handled, whatever the clients and
\* the earlier slots of the same scan did since the poll().
THEOREM EventsCorrect == Spec => []EventsStayTrue
<1>1. IInv => EventsStayTrue
  BY DEF IInv
<1> QED  BY Invariance, <1>1, PTL

\* The send() of (size_t)-1 bytes only ever meets a dead connection.
THEOREM ErrorSendCorrect == Spec => []ErrorSendIsVain
<1>1. IInv => ErrorSendIsVain
  BY DEF IInv
<1> QED  BY Invariance, <1>1, PTL

\* No client is sent a byte that is not its own, or out of order, or twice.
THEOREM EchoCorrect == Spec => []EchoInOrder
<1>1. IInv => EchoInOrder
  <2> SUFFICES ASSUME IInv, NEW c \in Conn
               PROVE  /\ \A i \in 1 .. Len(echo[c]) :
                           echo[c][i][1] = c /\ echo[c][i][2] \in 1 .. rcvd[c]
                      /\ \A i, j \in 1 .. Len(echo[c]) :
                           i < j => echo[c][i][2] < echo[c][j][2]
    BY DEF EchoInOrder
  <2>1. rcvd[c] \in Nat /\ InHand(c) \in Nat
    BY SocketsAssumption
       DEF IInv, TypeOK, SocketsTypeOK, SocketsAssumption, InHand
  <2> QED  BY <2>1 DEF IInv, StreamsOK
<1> QED  BY Invariance, <1>1, PTL

(***************************************************************************)
(* The refinement of EchoService.                                          *)
(***************************************************************************)

Taken == [c \in Conn |-> rcvd[c] - InHand(c)]

\* A step that changes neither the echo nor the pieces dealt with stutters.
LEMMA ServiceStutter ==
  ASSUME UNCHANGED echo, \A c \in Conn : rcvd'[c] - InHand(c)' = rcvd[c] - InHand(c)
  PROVE  UNCHANGED Service!vars
<1>1. Taken' = Taken
  BY DEF Taken
<1> QED  BY <1>1 DEF Service!vars, Taken

\* The end of a send() is the answer to the piece in hand.
LEMMA ServiceAnswer ==
  ASSUME IInv, SendBack
  PROVE  [Service!Next]_(Service!vars)
<1> DEFINE c0 == fdt[cur]
<1>0. /\ c0 \in Conn /\ recvSize \in Int /\ pc = "send" /\ pc' = "loop"
      /\ UNCHANGED <<sent, rcvd, fdt, cur, recvSize>>
  <2>1. fdt[cur] \in Conn /\ pc = "send" /\ pc' = "loop"
    BY CurIsOpen DEF SendBack
  <2>2. recvSize \in Int
    BY SocketsAssumption DEF IInv, TypeOK, SocketsAssumption
  <2>3. UNCHANGED <<sent, rcvd, fdt, cur, recvSize>>
    BY DEF SendBack, Send
  <2> QED  BY <2>1, <2>2, <2>3
<1>1. /\ rcvd \in [Conn -> 0 .. MaxBytes] /\ MaxBytes \in Nat
      /\ echo \in [Conn -> Seq(Byte \cup {Junk})] /\ StreamsOK
  BY SocketsAssumption DEF IInv, TypeOK, SocketsTypeOK, SocketsAssumption
<1>2. PICK piece \in Seq(Byte \cup {Junk}) :
        /\ Len(piece) <= recvSize \/ Len(piece) = 0
        /\ \A k \in 1 .. Len(piece) :
             piece[k] = <<c0, rcvd[c0] - recvSize + k>>
        /\ echo' = [echo EXCEPT ![c0] = echo[c0] \o piece]
  BY SentPrefix
<1>3. \A c \in Conn : InHand(c)' = 0
  BY <1>0 DEF InHand
<1>4. CASE recvSize > 0
  <2> DEFINE m == Len(piece)
  <2>1. m \in Nat /\ m <= recvSize
    BY <1>2, <1>4, <1>0, LenProperties
  <2>2. recvSize <= rcvd[c0]
    BY <1>0, <1>1, <1>4 DEF StreamsOK
  <2>3. recvSize \in 1 .. MaxBytes /\ m \in 0 .. MaxBytes
    BY <1>0, <1>1, <1>4, <2>1, <2>2
  <2>4. Taken[c0] = rcvd[c0] - recvSize
    BY <1>0, <1>4 DEF Taken, InHand
  <2>5. \A c \in Conn : Taken'[c] = IF c = c0 THEN rcvd[c0] ELSE Taken[c]
    BY <1>0, <1>1, <1>3 DEF Taken, InHand
  <2>6. Taken' = [Taken EXCEPT ![c0] = Taken[c0] + recvSize]
    <3>1. Taken[c0] + recvSize = rcvd[c0]
      BY <1>0, <1>1, <2>4
    <3>2. \A c \in Conn :
            [Taken EXCEPT ![c0] = Taken[c0] + recvSize][c]
              = IF c = c0 THEN rcvd[c0] ELSE Taken[c]
      BY <3>1 DEF Taken
    <3> QED  BY <2>5, <3>2 DEF Taken
  <2>7. piece = [k \in 1 .. m |-> <<c0, Taken[c0] + k>>]
    <3>1. piece \in [1 .. m -> Byte \cup {Junk}]
      BY <1>2, LenProperties
    <3> QED  BY <1>2, <2>4, <3>1
  <2>8. Taken[c0] + recvSize <= MaxBytes
    BY <1>0, <1>1, <2>4
  <2> HIDE DEF m
  <2>9. Service!Answer(c0, recvSize, m)
    BY <1>2, <2>1, <2>6, <2>7, <2>8 DEF Service!Answer, Service!Piece, Taken
  <2> QED  BY <1>0, <2>3, <2>9 DEF Service!Next
<1>5. CASE ~(recvSize > 0)
  <2>1. \A c \in Conn : InHand(c) = 0
    BY <1>5 DEF InHand
  <2>2. Len(piece) = 0
    BY <1>0, <1>2, <1>5, LenProperties
  <2>3. piece = << >>
    BY <1>2, <2>2, EmptySeq
  <2>4. UNCHANGED echo
    BY <1>0, <1>1, <1>2, <2>3, ConcatEmptySeq
  <2> QED  BY <1>0, <1>3, <2>1, <2>4, ServiceStutter
<1> QED  BY <1>4, <1>5

\* Every step is one of the service or none.
LEMMA ServiceStep ==
  ASSUME IInv, [Next]_vars
  PROVE  [Service!Next]_(Service!vars)
<1>0. rcvd \in [Conn -> Nat]
  BY SocketsAssumption DEF IInv, TypeOK, SocketsTypeOK, SocketsAssumption
<1>1. CASE SendBack
  BY <1>1, ServiceAnswer
<1>2. ASSUME NEW fd \in FD, Receive(fd)  PROVE UNCHANGED Service!vars
  <2>1. /\ fdt[fd] \in Conn /\ pc = "loop" /\ pc' = "send" /\ cur' = fd
    BY <1>2, SlotIsOpen DEF Receive, NextSlot
  <2>2. \A c \in Conn : InHand(c) = 0
    BY <2>1 DEF InHand
  <2>3. CASE RecvData(fdt[fd]) /\ recvSize' = RecvCount(fdt[fd])
    <3>1. RecvCount(fdt[fd]) \in Nat /\ RecvCount(fdt[fd]) > 0
      BY <2>1, <2>3, ReceivedBytes, SocketsAssumption
         DEF IInv, TypeOK, SocketsAssumption
    <3>2. UNCHANGED <<fdt, echo>>
          /\ rcvd' = [rcvd EXCEPT ![fdt[fd]] = rcvd[fdt[fd]] + RecvCount(fdt[fd])]
      BY <2>3 DEF RecvData
    <3>3. \A c \in Conn : rcvd'[c] - InHand(c)' = rcvd[c] - InHand(c)
      <4> DEFINE n == RecvCount(fdt[fd])
      <4>1. recvSize' = n /\ n \in Nat /\ n > 0
        BY <2>3, <3>1
      <4>2. rcvd' = [rcvd EXCEPT ![fdt[fd]] = rcvd[fdt[fd]] + n]
        BY <3>2
      <4> HIDE DEF n
      <4>3. \A c \in Conn : InHand(c)' = IF c = fdt[fd] THEN n ELSE 0
        BY <2>1, <3>2, <4>1 DEF InHand
      <4> QED  BY <1>0, <2>1, <2>2, <4>1, <4>2, <4>3
    <3> QED  BY <3>2, <3>3, ServiceStutter
  <2>4. CASE RecvError(fdt[fd]) /\ recvSize' = -1
    <3>1. UNCHANGED <<rcvd, echo>> /\ ~(recvSize' > 0)
      BY <2>4 DEF RecvError
    <3>2. \A c \in Conn : InHand(c)' = 0
      BY <3>1 DEF InHand
    <3> QED  BY <2>2, <3>1, <3>2, ServiceStutter
  <2> QED  BY <1>2, <2>3, <2>4 DEF Receive
<1>3. ASSUME UNCHANGED <<rcvd, echo, pc, cur, recvSize>>, pc = "loop" \/ UNCHANGED fdt
      PROVE  UNCHANGED Service!vars
  <2>1. \A c \in Conn : InHand(c)' = InHand(c)
    BY <1>3 DEF InHand
  <2> QED  BY <1>3, <2>1, ServiceStutter
<1>4. CASE Poll  BY <1>3, <1>4 DEF Poll, sockets
<1>5. CASE AcceptSlave  BY <1>3, <1>5 DEF AcceptSlave, AcceptNonblock
<1>6. ASSUME NEW fd \in FD, Disconnect(fd)  PROVE UNCHANGED Service!vars
  BY <1>3, <1>6 DEF Disconnect, Close, NextSlot
<1>7. ASSUME NEW fd \in FD, KeepEnded(fd)  PROVE UNCHANGED Service!vars
  BY <1>3, <1>7 DEF KeepEnded, sockets
<1>8. CASE Clients
  BY <1>3, <1>8 DEF Clients, server, ClientStep, Connect, ClientSend, ClientRead,
                    ClientShutdown, ClientReset, AbortQueued
<1>9. CASE UNCHANGED vars
  BY <1>3, <1>9 DEF vars, sockets, server
<1> QED
  BY <1>1, <1>2, <1>4, <1>5, <1>6, <1>7, <1>8, <1>9 DEF Next, Server

\* For every instance, what the clients see of the server is a behaviour of
\* the abstract echo service.
THEOREM Refinement == Spec => EchoServiceSpec
<1>1. Init => Service!Init
  BY DEF Init, SocketsInit, Service!Init, InHand
<1>2. IInv /\ [Next]_vars => [Service!Next]_(Service!vars)
  BY ServiceStep
<1> QED  BY Invariance, <1>1, <1>2, PTL DEF Spec, EchoServiceSpec, Service!Spec
=============================================================================
