-------------------------- MODULE SelectServerProofs --------------------------
(***************************************************************************)
(* Proofs about SelectServer for every set of connections and descriptors, *)
(* every stream length, buffer size and kernel buffer, and any position of *)
(* the bit that FD_SET(-1) sets.                                           *)
(*                                                                         *)
(* IInv has two layers.  The types and the descriptor table hold whatever  *)
(* the erased iterator and a failed select() do; what is known of the      *)
(* marked sockets and of the bytes holds until one of them is reached, and *)
(* wild is never reset, so each of its steps may assume ~wild before it.   *)
(***************************************************************************)
EXTENDS SelectServer, SocketsProofs

\* What an action of the server finds at the socket it handles.
LEMMA IterIsOpen ==
  ASSUME IInv, NEW fd \in FD, fd \in OpenFds
  PROVE  fdt[fd] \in Conn /\ fd # Master /\ fd # -1
BY SocketsAssumption
   DEF IInv, OpenFds, TypeOK, SocketsTypeOK, SocketsAssumption

\* What SendBack finds.
LEMMA SenderIsOpen ==
  ASSUME IInv, pc = "send"
  PROVE  iter \in OpenFds /\ iter \in FD /\ fdt[iter] \in Conn
BY DEF IInv, DescriptorsOK, OpenFds, TypeOK, SocketsTypeOK

(***************************************************************************)
(* Types.                                                                  *)
(***************************************************************************)

\* Every step keeps the types, the rescan after an erased iterator included.
LEMMA TypeStep == IInv /\ [Next]_vars => TypeOK'
<1> SUFFICES ASSUME IInv, [Next]_vars  PROVE TypeOK'
  OBVIOUS
<1> USE SocketsAssumption, SelectAssumption
<1>0. TypeOK /\ SocketsTypeOK
  BY DEF IInv, TypeOK
<1>1. CASE Select
  BY <1>0, <1>1 DEF TypeOK, SocketsTypeOK, Select, Ready, Marked, OpenFds, sockets
<1>2. CASE SelectFails
  BY <1>0, <1>2 DEF TypeOK, SocketsTypeOK, SelectFails, OpenFds
<1>3. CASE AcceptSlave
  <2>1. PICK s \in FD \cup {-1} :
          AcceptNonblock(s) /\ slaveSockets' = slaveSockets \cup {s}
    BY <1>3 DEF AcceptSlave
  <2>2. SocketsTypeOK'
    BY <1>0, <2>1, AcceptType
  <2> QED  BY <1>0, <1>3, <2>1, <2>2 DEF TypeOK, AcceptSlave
<1>4. ASSUME NEW fd \in FD, Disconnect(fd)  PROVE TypeOK'
  <2>1. SocketsTypeOK'
    BY <1>0, <1>4, CloseType DEF Disconnect
  <2>2. slaveSockets' \subseteq FD \cup {-1} /\ UNCHANGED <<Set, iter, recvSize>>
        /\ wild' = TRUE
    BY <1>0, <1>4 DEF Disconnect, TypeOK
  <2>3. todo' \subseteq slaveSockets' /\ pc' \in {"loop", "send", "crashed"}
    BY <1>0, <1>4 DEF Disconnect, Marked, TypeOK
  <2> QED  BY <1>0, <2>1, <2>2, <2>3 DEF TypeOK
<1>5. ASSUME NEW fd \in FD, KeepEnded(fd)  PROVE TypeOK'
  BY <1>0, <1>5 DEF TypeOK, SocketsTypeOK, KeepEnded, sockets
<1>6. ASSUME NEW fd \in FD, Receive(fd)  PROVE TypeOK'
  <2>1. fdt[fd] \in Conn
    BY <1>6, IterIsOpen DEF Receive
  <2>2. CASE RecvData(fdt[fd]) /\ recvSize' = RecvCount(fdt[fd])
    <3>1. SocketsTypeOK' /\ recvSize' \in 1 .. BufSize
      BY <1>0, <2>1, <2>2, RecvDataType, ReceivedBytes
    <3> QED  BY <1>0, <1>6, <3>1 DEF TypeOK, Receive, SocketsAssumption
  <2>3. CASE RecvError(fdt[fd]) /\ recvSize' = -1
    <3>1. SocketsTypeOK'
      BY <1>0, <2>1, <2>3, RecvErrorType
    <3> QED  BY <1>0, <1>6, <2>3, <3>1 DEF TypeOK, Receive, SocketsAssumption
  <2> QED  BY <1>6, <2>2, <2>3 DEF Receive
<1>7. CASE BadDescriptor
  BY <1>0, <1>7 DEF TypeOK, SocketsTypeOK, BadDescriptor
<1>8. CASE SendBack
  <2>1. fdt[iter] \in Conn /\ recvSize \in Int /\ Send(fdt[iter], recvSize)
    BY <1>0, <1>8, SenderIsOpen DEF SendBack, TypeOK
  <2>2. SocketsTypeOK'
    BY <1>0, <2>1, SendType
  <2> QED  BY <1>0, <1>8, <2>2 DEF TypeOK, SendBack
<1>9. CASE Clients
  <2>1. SocketsTypeOK'
    BY <1>0, <1>9, ClientType DEF Clients
  <2> QED  BY <1>0, <1>9, <2>1 DEF TypeOK, Clients, server
<1>10. CASE UNCHANGED vars
  BY <1>0, <1>10 DEF TypeOK, SocketsTypeOK, vars, sockets, server
<1> QED
  BY <1>1, <1>2, <1>3, <1>4, <1>5, <1>6, <1>7, <1>8, <1>9, <1>10 DEF Next, Server

(***************************************************************************)
(* The descriptor table, and what select() reported.                       *)
(***************************************************************************)

\* Every step keeps the descriptor table in order, wherever the scan goes on
\* after it erased the element under its iterator.
LEMMA DescriptorStep == IInv /\ [Next]_vars => DescriptorsOK'
<1> SUFFICES ASSUME IInv, [Next]_vars  PROVE DescriptorsOK'
  OBVIOUS
<1>0. /\ DescriptorsOK
      /\ peer \in [Conn -> PeerState] /\ backlog \subseteq Conn
      /\ fdt \in [FD -> Conn \cup {NoConn}]
      /\ slaveSockets \subseteq FD \cup {-1}
      /\ NoConn \notin Conn /\ FD \subseteq Nat
  BY SocketsAssumption DEF IInv, TypeOK, SocketsTypeOK, SocketsAssumption
<1> USE DEF DescriptorsOK, WatchedIsOpen, OpenFds
<1>1. CASE Select
  BY <1>0, <1>1 DEF Select, sockets
<1>2. CASE SelectFails
  BY <1>0, <1>2 DEF SelectFails
<1>3. CASE AcceptSlave
  <2>1. PICK s \in FD \cup {-1} :
          AcceptNonblock(s) /\ slaveSockets' = slaveSockets \cup {s}
    BY <1>3 DEF AcceptSlave
  <2>2. CASE s = -1
    <3>1. UNCHANGED <<peer, backlog, fdt, iter, pc>>
      BY <1>0, <1>3, <2>1, <2>2 DEF AcceptSlave, AcceptNonblock, FreeFds
    <3>2. slaveSockets' \ {-1} = slaveSockets \ {-1}
      BY <2>1, <2>2
    <3> QED  BY <1>0, <3>1, <3>2
  <2>3. CASE s # -1
    <3>1. PICK c \in backlog :
            s \in FD /\ fdt[s] = NoConn /\ fdt' = [fdt EXCEPT ![s] = c]
            /\ backlog' = backlog \ {c}
      BY <2>1, <2>3 DEF AcceptNonblock, FreeFds
    <3>2. UNCHANGED peer
      BY <2>1, <2>3 DEF AcceptNonblock
    <3> QED
      BY <1>0, <1>3, <2>1, <2>3, <3>1, <3>2 DEF AcceptSlave
  <2> QED  BY <2>2, <2>3
<1>4. ASSUME NEW fd \in FD, Disconnect(fd)  PROVE DescriptorsOK'
  <2>1. /\ fdt[fd] \in Conn /\ fdt[fd] # NoConn
        /\ peer' = [peer EXCEPT ![fdt[fd]] = "closed"]
        /\ fdt' = [fdt EXCEPT ![fd] = NoConn] /\ UNCHANGED backlog
        /\ slaveSockets' = slaveSockets \ {fd} /\ pc' # "send"
    BY <1>0, <1>4 DEF Disconnect, Close, AtIter
  <2> QED  BY <1>0, <2>1
<1>5. ASSUME NEW fd \in FD, KeepEnded(fd)  PROVE DescriptorsOK'
  BY <1>0, <1>5 DEF KeepEnded, sockets
<1>6. ASSUME NEW fd \in FD, Receive(fd)  PROVE DescriptorsOK'
  <2>1. /\ fdt[fd] \in Conn /\ fdt[fd] # NoConn /\ iter' = fd
        /\ UNCHANGED <<backlog, fdt, slaveSockets>>
    BY <1>0, <1>6 DEF Receive, RecvData, RecvError
  <2>2. peer' = peer \/ peer' = [peer EXCEPT ![fdt[fd]] = "gone"]
    BY <1>6 DEF Receive, RecvData, RecvError
  <2> QED  BY <1>0, <2>1, <2>2
<1>7. CASE BadDescriptor
  BY <1>0, <1>7 DEF BadDescriptor
<1>8. CASE SendBack
  <2>1. fdt[iter] \in Conn
    BY <1>8, SenderIsOpen DEF SendBack
  <2>2. UNCHANGED <<backlog, fdt, slaveSockets, iter>> /\ pc' = "loop"
    BY <1>8 DEF SendBack, Send
  <2>3. peer' = peer \/ /\ peer[fdt[iter]] \in {"rst", "gone"}
                        /\ peer' = [peer EXCEPT ![fdt[iter]] = "gone"]
    BY <1>8 DEF SendBack, Send
  <2>4. \A c \in Conn :
          peer'[c] = peer[c] \/ (peer[c] \in {"rst", "gone"} /\ peer'[c] = "gone")
    BY <1>0, <2>1, <2>3
  <2>5. \A fd \in OpenFds : fdt[fd] \in Conn
    BY <1>0
  <2>6. \A c \in backlog : peer'[c] \in {"up", "fin", "rst"}
    <3> TAKE c \in backlog
    <3>1. c # fdt[iter]
      BY <1>0, <1>8 DEF SendBack
    <3> QED  BY <1>0, <2>1, <2>3, <3>1
  <2> QED  BY <1>0, <2>2, <2>4, <2>5, <2>6
<1>9. CASE Clients
  <2>1. PICK c \in Conn : \/ Connect(c) \/ ClientSend(c) \/ ClientRead(c)
                          \/ ClientShutdown(c) \/ ClientReset(c) \/ AbortQueued(c)
    BY <1>9 DEF Clients, ClientStep
  <2>2. UNCHANGED server
    BY <1>9 DEF Clients
  <2>3. CASE Connect(c)
    BY <1>0, <2>2, <2>3 DEF Connect, server
  <2>4. CASE ClientSend(c) \/ ClientRead(c)
    <3>1. UNCHANGED <<peer, backlog, fdt>>
      BY <2>4 DEF ClientSend, ClientRead
    <3> QED  BY <1>0, <2>2, <3>1 DEF server
  <2>5. CASE ClientShutdown(c)
    BY <1>0, <2>2, <2>5 DEF ClientShutdown, server
  <2>6. CASE ClientReset(c)
    BY <1>0, <2>2, <2>6 DEF ClientReset, server
  <2>7. CASE AbortQueued(c)
    BY <1>0, <2>2, <2>7 DEF AbortQueued, server
  <2> QED  BY <2>1, <2>3, <2>4, <2>5, <2>6, <2>7
<1>10. CASE UNCHANGED vars
  BY <1>0, <1>10 DEF vars, sockets, server
<1> QED
  BY <1>1, <1>2, <1>3, <1>4, <1>5, <1>6, <1>7, <1>8, <1>9, <1>10 DEF Next, Server

\* A reset connection is the only one for which recv() fails while the marks
\* are true.
LEMMA FailedMeansReset ==
  ASSUME IInv, ~wild, NEW fd \in FD, Receive(fd), RecvError(fdt[fd])
  PROVE  peer[fdt[fd]] = "rst" /\ peer' = [peer EXCEPT ![fdt[fd]] = "gone"]
<1>1. Readable(fdt[fd]) /\ Avail(fdt[fd]) = 0
  BY SocketsAssumption
     DEF IInv, BitsStayTrue, Receive, RecvError, AtIter, SocketsAssumption
<1> QED  BY <1>1 DEF Readable, RecvError

\* As long as the two undefined places are not reached, every mark is true
\* until its socket is handled.
LEMMA BitsStep == IInv /\ [Next]_vars /\ ~wild' => BitsStayTrue'
<1> SUFFICES ASSUME IInv, [Next]_vars, ~wild'  PROVE BitsStayTrue'
  OBVIOUS
<1>w. wild' = wild \/ wild' = TRUE
  BY DEF Next, Server, Select, SelectFails, Disconnect, KeepEnded, Receive,
         BadDescriptor, SendBack, AcceptSlave, Clients, server, vars
<1>0. /\ BitsStayTrue /\ DescriptorsOK /\ ~wild
      /\ peer \in [Conn -> PeerState] /\ backlog \subseteq Conn
      /\ fdt \in [FD -> Conn \cup {NoConn}]
      /\ sent \in [Conn -> Nat] /\ rcvd \in [Conn -> Nat]
      /\ slaveSockets \subseteq FD \cup {-1} /\ todo \subseteq FD \cup {-1}
      /\ NoConn \notin Conn /\ FD \subseteq Nat /\ Master \in Nat \ FD
  <2>1. ~wild
    BY <1>w
  <2> QED
    BY <2>1, SocketsAssumption DEF IInv, TypeOK, SocketsTypeOK, SocketsAssumption
<1> USE DEF BitsStayTrue, OpenFds
<1>1. CASE Select
  BY <1>0, <1>1, SelectAssumption
     DEF Select, Ready, Marked, Scanned, sockets, Readable, Avail
<1>2. ~SelectFails
  BY DEF SelectFails
<1>3. CASE AcceptSlave
  BY <1>0, <1>3 DEF AcceptSlave
<1>4. ASSUME NEW fd \in FD, Disconnect(fd)  PROVE FALSE
  BY <1>4 DEF Disconnect
<1>5. ASSUME NEW fd \in FD, KeepEnded(fd)  PROVE BitsStayTrue'
  BY <1>0, <1>5 DEF KeepEnded, AtIter, sockets, Readable, Avail
<1>6. ASSUME NEW fd \in FD, Receive(fd)  PROVE BitsStayTrue'
  <2>1. /\ fd \in OpenFds /\ fdt[fd] \in Conn /\ UNCHANGED fdt
        /\ iter' = fd /\ todo' = todo \ {fd} /\ pc' = "send"
    BY <1>6, IterIsOpen DEF Receive, RecvData, RecvError
  <2>2. \A other \in todo' \ {-1} :
          /\ other \in OpenFds /\ fdt[other] \in Conn
          /\ Readable(fdt[other]) /\ fdt[other] # fdt[fd]
    BY <1>0, <2>1 DEF DescriptorsOK
  <2>3. CASE RecvData(fdt[fd]) /\ recvSize' = RecvCount(fdt[fd])
    <3>1. recvSize' # -1
      BY <2>1, <2>3, ReceivedBytes, SocketsAssumption DEF IInv, TypeOK
    <3>2. rcvd' = [rcvd EXCEPT ![fdt[fd]] = @ + RecvCount(fdt[fd])]
          /\ UNCHANGED <<peer, sent>>
      BY <2>3 DEF RecvData
    <3> QED  BY <1>0, <2>1, <2>2, <3>1, <3>2 DEF Readable, Avail
  <2>4. CASE RecvError(fdt[fd]) /\ recvSize' = -1
    <3>1. peer' = [peer EXCEPT ![fdt[fd]] = "gone"] /\ UNCHANGED <<sent, rcvd>>
      BY <1>0, <1>6, <2>4, FailedMeansReset DEF RecvError
    <3> QED  BY <1>0, <2>1, <2>2, <3>1 DEF Readable, Avail
  <2> QED  BY <1>6, <2>3, <2>4 DEF Receive
<1>7. CASE BadDescriptor
  BY <1>0, <1>7 DEF BadDescriptor, AtIter, Readable, Avail
<1>8. CASE SendBack
  <2>1. fdt[iter] \in Conn
    BY <1>8, SenderIsOpen DEF SendBack
  <2>2. UNCHANGED <<fdt, sent, rcvd, todo>> /\ pc' = "loop"
    BY <1>8 DEF SendBack, Send
  <2>3. peer' = peer \/ /\ peer[fdt[iter]] \in {"rst", "gone"}
                        /\ peer' = [peer EXCEPT ![fdt[iter]] = "gone"]
    BY <1>8 DEF SendBack, Send
  <2> QED  BY <1>0, <2>1, <2>2, <2>3 DEF Readable, Avail
<1>9. CASE Clients
  <2>1. PICK c \in Conn : \/ Connect(c) \/ ClientSend(c) \/ ClientRead(c)
                          \/ ClientShutdown(c) \/ ClientReset(c) \/ AbortQueued(c)
    BY <1>9 DEF Clients, ClientStep
  <2>2. UNCHANGED server
    BY <1>9 DEF Clients
  <2>3. \A fd \in OpenFds :
          fdt[fd] \in Conn /\ fdt[fd] \notin backlog
          /\ peer[fdt[fd]] \in {"up", "fin", "rst", "gone"}
    BY <1>0 DEF DescriptorsOK
  <2>3a. pc = "send" => iter \in OpenFds
    BY <1>0 DEF DescriptorsOK
  <2>4. CASE Connect(c)
    BY <1>0, <2>2, <2>3, <2>3a, <2>4 DEF Connect, server, Readable, Avail
  <2>5. CASE ClientSend(c)
    BY <1>0, <2>2, <2>3, <2>3a, <2>5 DEF ClientSend, server, Readable, Avail
  <2>6. CASE ClientRead(c)
    BY <1>0, <2>2, <2>6 DEF ClientRead, server, Readable, Avail
  <2>7. CASE ClientShutdown(c)
    BY <1>0, <2>2, <2>3, <2>3a, <2>7 DEF ClientShutdown, server, Readable, Avail
  <2>8. CASE ClientReset(c)
    BY <1>0, <2>2, <2>3, <2>3a, <2>8 DEF ClientReset, server, Readable, Avail
  <2>9. CASE AbortQueued(c)
    BY <1>0, <2>2, <2>3, <2>3a, <2>9 DEF AbortQueued, server, Readable, Avail
  <2> QED  BY <2>1, <2>4, <2>5, <2>6, <2>7, <2>8, <2>9
<1>10. CASE UNCHANGED vars
  BY <1>0, <1>10 DEF vars, sockets, server, Readable, Avail
<1> QED
  BY <1>1, <1>2, <1>3, <1>4, <1>5, <1>6, <1>7, <1>8, <1>9, <1>10 DEF Next, Server

(***************************************************************************)
(* The bytes.                                                              *)
(***************************************************************************)

\* The steps that neither receive nor send leave the streams in order.
LEMMA StreamQuiet ==
  ASSUME IInv, ~wild, UNCHANGED <<rcvd, echo, buf, recvSize, iter, pc>>,
         \A c \in Conn : sent'[c] >= sent[c],
         sent' \in [Conn -> Nat],
         pc # "send" \/ UNCHANGED fdt
  PROVE  StreamsOK'
<1>0. rcvd \in [Conn -> Nat] /\ sent \in [Conn -> Nat]
  BY SocketsAssumption DEF IInv, TypeOK, SocketsTypeOK, SocketsAssumption
<1>1. \A c \in Conn : InHand(c)' = InHand(c)
  BY DEF InHand
<1>2. StreamsOK
  BY DEF IInv
<1>3. \A c \in Conn : rcvd'[c] <= sent'[c]
  BY <1>0, <1>2 DEF StreamsOK
<1>4. \A c \in Conn :
        /\ \A i \in 1 .. Len(echo'[c]) :
             echo'[c][i][1] = c /\ echo'[c][i][2] \in 1 .. rcvd'[c] - InHand(c)'
        /\ \A i, j \in 1 .. Len(echo'[c]) :
             i < j => echo'[c][i][2] < echo'[c][j][2]
  BY <1>1, <1>2 DEF StreamsOK
<1>5. pc' = "send" /\ recvSize' > 0 =>
        /\ recvSize' <= rcvd'[fdt'[iter']] /\ recvSize' <= Len(buf')
        /\ \A k \in 1 .. recvSize' :
             buf'[k] = <<fdt'[iter'], rcvd'[fdt'[iter']] - recvSize' + k>>
  BY <1>2 DEF StreamsOK
<1> QED  BY <1>3, <1>4, <1>5 DEF StreamsOK

\* A receive puts the piece in hand behind everything echoed so far.
LEMMA StreamReceive ==
  ASSUME IInv, ~wild, NEW fd \in FD, Receive(fd)
  PROVE  StreamsOK'
<1> DEFINE c0 == fdt[fd]
<1>0. /\ c0 \in Conn /\ StreamsOK /\ TypeOK /\ SocketsTypeOK
      /\ rcvd \in [Conn -> Nat] /\ sent \in [Conn -> Nat]
      /\ pc = "loop" /\ pc' = "send" /\ iter' = fd /\ SocketsAssumption
  <2>1. c0 \in Conn /\ pc = "loop" /\ pc' = "send" /\ iter' = fd
    BY IterIsOpen DEF Receive, AtIter
  <2>2. StreamsOK /\ TypeOK /\ SocketsTypeOK
    BY DEF IInv, TypeOK
  <2>3. rcvd \in [Conn -> Nat] /\ sent \in [Conn -> Nat]
    BY <2>2, SocketsAssumption DEF SocketsTypeOK, SocketsAssumption
  <2> QED  BY <2>1, <2>2, <2>3, SocketsAssumption
<1>1. \A c \in Conn : InHand(c) = 0
  BY <1>0 DEF InHand
<1>2. CASE RecvData(c0) /\ recvSize' = RecvCount(c0)
  <2> DEFINE n == RecvCount(c0)
  <2>1. /\ n \in Nat /\ n > 0 /\ n <= sent[c0] - rcvd[c0]
        /\ n <= Len(buf')
        /\ \A k \in 1 .. n : buf'[k] = <<c0, rcvd[c0] + k>>
    <3>1. /\ n \in 1 .. BufSize /\ n <= Avail(c0) /\ n <= Len(buf')
          /\ \A k \in 1 .. n : buf'[k] = <<c0, rcvd[c0] + k>>
      BY <1>0, <1>2, ReceivedBytes
    <3>2. n \in Nat /\ n > 0
      <4> HIDE DEF n
      <4> QED  BY <3>1, SocketsAssumption DEF SocketsAssumption
    <3>3. n <= sent[c0] - rcvd[c0]
      BY <3>1 DEF Avail
    <3> QED  BY <3>1, <3>2, <3>3
  <2>2. /\ rcvd' = [rcvd EXCEPT ![c0] = rcvd[c0] + n]
        /\ UNCHANGED <<fdt, sent, echo>> /\ recvSize' = n
    BY <1>2 DEF RecvData
  <2> HIDE DEF n
  <2>3. \A c \in Conn : rcvd'[c] - InHand(c)' = rcvd[c]
    BY <1>0, <2>1, <2>2 DEF InHand
  <2>4. \A c \in Conn : rcvd'[c] <= sent'[c]
    BY <1>0, <2>1, <2>2 DEF StreamsOK
  <2>5. \A c \in Conn :
          /\ \A i \in 1 .. Len(echo'[c]) :
               echo'[c][i][1] = c /\ echo'[c][i][2] \in 1 .. rcvd'[c] - InHand(c)'
          /\ \A i, j \in 1 .. Len(echo'[c]) :
               i < j => echo'[c][i][2] < echo'[c][j][2]
    <3>1. \A c \in Conn : rcvd[c] - InHand(c) = rcvd[c]
      BY <1>0, <1>1
    <3> QED  BY <1>0, <2>2, <2>3, <3>1 DEF StreamsOK
  <2>6. /\ rcvd'[fdt'[iter']] = rcvd[c0] + n /\ fdt'[iter'] = c0
        /\ rcvd[c0] \in Nat
    BY <1>0, <2>2
  <2>7. /\ recvSize' <= rcvd'[fdt'[iter']] /\ recvSize' <= Len(buf')
        /\ \A k \in 1 .. recvSize' :
             buf'[k] = <<fdt'[iter'], rcvd'[fdt'[iter']] - recvSize' + k>>
    BY <2>1, <2>2, <2>6
  <2> QED  BY <2>4, <2>5, <2>7 DEF StreamsOK
<1>3. CASE RecvError(c0) /\ recvSize' = -1
  <2>1. UNCHANGED <<fdt, sent, rcvd, echo>> /\ ~(recvSize' > 0)
    BY <1>3 DEF RecvError
  <2>2. \A c \in Conn : InHand(c)' = 0
    BY <2>1 DEF InHand
  <2>3. \A c \in Conn : rcvd'[c] <= sent'[c]
    BY <1>0, <2>1 DEF StreamsOK
  <2>4. \A c \in Conn :
          /\ \A i \in 1 .. Len(echo'[c]) :
               echo'[c][i][1] = c /\ echo'[c][i][2] \in 1 .. rcvd'[c] - InHand(c)'
          /\ \A i, j \in 1 .. Len(echo'[c]) :
               i < j => echo'[c][i][2] < echo'[c][j][2]
    <3>1. \A c \in Conn : rcvd'[c] - InHand(c)' = rcvd[c] - InHand(c)
      BY <1>1, <2>1, <2>2
    <3> QED  BY <1>0, <2>1, <3>1 DEF StreamsOK
  <2> QED  BY <2>1, <2>3, <2>4 DEF StreamsOK
<1> QED  BY <1>2, <1>3 DEF Receive

\* What SendBack does to the echo of its client: nothing, or it appends a
\* prefix of the piece in hand.  After a failed receive it does nothing.
LEMMA SentPrefix ==
  ASSUME IInv, ~wild, SendBack
  PROVE  \E piece \in Seq(Byte \cup {Junk}) :
           /\ Len(piece) <= recvSize \/ Len(piece) = 0
           /\ \A k \in 1 .. Len(piece) :
                piece[k] = <<fdt[iter], rcvd[fdt[iter]] - recvSize + k>>
           /\ echo' = [echo EXCEPT ![fdt[iter]] = echo[fdt[iter]] \o piece]
<1> DEFINE c0 == fdt[iter]
<1>0. /\ c0 \in Conn /\ TypeOK /\ SocketsTypeOK /\ SocketsAssumption
      /\ Send(c0, recvSize) /\ recvSize \in Int /\ StreamsOK
      /\ recvSize \in -1 .. BufSize /\ pc = "send" /\ BufSize \in Nat
  BY SenderIsOpen, SocketsAssumption
     DEF SendBack, IInv, TypeOK, SocketsAssumption
<1>1. CASE UNCHANGED echo
  <2>1. << >> \in Seq(Byte \cup {Junk}) /\ Len(<< >>) = 0
    BY EmptySeq
  <2>2. echo[c0] \o << >> = echo[c0] /\ echo \in [Conn -> Seq(Byte \cup {Junk})]
    BY <1>0, ConcatEmptySeq DEF SocketsTypeOK
  <2>3. echo' = [echo EXCEPT ![c0] = echo[c0] \o << >>]
    BY <1>1, <2>2
  <2> WITNESS << >> \in Seq(Byte \cup {Junk})
  <2> QED  BY <2>1, <2>3
<1>2. CASE peer[c0] \in {"up", "fin"} /\ Room(c0) > 0
  <2> DEFINE m == Min2(AsSize(recvSize), Room(c0))
  <2>1. m \in Nat /\ (recvSize \in Nat => m <= recvSize)
    BY <1>0, <1>2, TakenCount
  <2>2. recvSize # -1
    BY <1>0, <1>2 DEF IInv, BitsStayTrue
  <2>3. recvSize \in Nat /\ m <= recvSize
    BY <1>0, <2>1, <2>2
  <2>4. /\ Outgoing(m) \in Seq(Byte \cup {Junk}) /\ Len(Outgoing(m)) = m
        /\ \A k \in 1 .. m : k <= Len(buf) => Outgoing(m)[k] = buf[k]
    BY <1>0, <2>1, OutgoingBytes DEF SocketsTypeOK
  <2>5. echo' = [echo EXCEPT ![c0] = echo[c0] \o Outgoing(m)]
    BY <1>0, <1>2, SendTakes
  <2> HIDE DEF m
  <2>6. \A k \in 1 .. m : Outgoing(m)[k] = <<c0, rcvd[c0] - recvSize + k>>
    <3> SUFFICES ASSUME NEW k \in 1 .. m
                 PROVE  Outgoing(m)[k] = <<c0, rcvd[c0] - recvSize + k>>
      OBVIOUS
    <3>1. k \in 1 .. recvSize /\ recvSize > 0
      BY <2>1, <2>3
    <3>2. Len(buf) \in Nat
      BY <1>0, LenProperties DEF SocketsTypeOK
    <3>3. k <= Len(buf) /\ buf[k] = <<c0, rcvd[c0] - recvSize + k>>
      BY <1>0, <3>1, <3>2 DEF StreamsOK
    <3> QED  BY <2>4, <3>3
  <2> USE <2>4
  <2> WITNESS Outgoing(m) \in Seq(Byte \cup {Junk})
  <2> QED  BY <2>3, <2>4, <2>5, <2>6
<1>3. UNCHANGED echo \/ (peer[c0] \in {"up", "fin"} /\ Room(c0) > 0)
  BY <1>0 DEF Send
<1> QED  BY <1>1, <1>2, <1>3

\* The piece in hand goes behind the echo, which it extends in order.
LEMMA StreamSend ==
  ASSUME IInv, ~wild, SendBack
  PROVE  StreamsOK'
<1> DEFINE c0 == fdt[iter]
<1>0. /\ c0 \in Conn /\ StreamsOK /\ recvSize \in Int
      /\ rcvd \in [Conn -> Nat] /\ sent \in [Conn -> Nat]
      /\ echo \in [Conn -> Seq(Byte \cup {Junk})]
      /\ pc = "send" /\ pc' = "loop"
  <2>1. pc = "send" /\ pc' = "loop" /\ c0 \in Conn
    BY SenderIsOpen DEF SendBack
  <2>2. StreamsOK /\ recvSize \in Int
    BY SocketsAssumption DEF IInv, TypeOK, SocketsAssumption
  <2>3. /\ rcvd \in [Conn -> Nat] /\ sent \in [Conn -> Nat]
        /\ echo \in [Conn -> Seq(Byte \cup {Junk})]
    BY SocketsAssumption DEF IInv, TypeOK, SocketsTypeOK, SocketsAssumption
  <2> QED  BY <2>1, <2>2, <2>3
<1>1. UNCHANGED <<sent, rcvd, fdt, iter, recvSize>>
  BY DEF SendBack, Send
<1>2. \A c \in Conn : InHand(c)' = 0
  BY <1>0 DEF InHand
<1>3a. PICK piece \in Seq(Byte \cup {Junk}) :
         /\ Len(piece) <= recvSize \/ Len(piece) = 0
         /\ \A k \in 1 .. Len(piece) :
              piece[k] = <<c0, rcvd[c0] - recvSize + k>>
         /\ echo' = [echo EXCEPT ![c0] = echo[c0] \o piece]
  BY SentPrefix
<1> DEFINE m == Len(piece)
<1>3. /\ m \in Nat /\ (m <= recvSize \/ m = 0)
      /\ \A k \in 1 .. m : piece[k] = <<c0, rcvd[c0] - recvSize + k>>
      /\ echo' = [echo EXCEPT ![c0] = echo[c0] \o piece]
  BY <1>3a, LenProperties
<1>4. ASSUME NEW c \in Conn, c # c0
      PROVE  /\ \A i \in 1 .. Len(echo'[c]) :
                  echo'[c][i][1] = c /\ echo'[c][i][2] \in 1 .. rcvd'[c] - InHand(c)'
             /\ \A i, j \in 1 .. Len(echo'[c]) :
                  i < j => echo'[c][i][2] < echo'[c][j][2]
  <2>1. echo'[c] = echo[c] /\ InHand(c) = 0
    BY <1>0, <1>3, <1>4 DEF InHand
  <2>2. rcvd'[c] - InHand(c)' = rcvd[c] - InHand(c)
    BY <1>0, <1>1, <1>2, <2>1
  <2>3. /\ \A i \in 1 .. Len(echo[c]) :
             echo[c][i][1] = c /\ echo[c][i][2] \in 1 .. rcvd[c] - InHand(c)
        /\ \A i, j \in 1 .. Len(echo[c]) : i < j => echo[c][i][2] < echo[c][j][2]
    BY <1>0 DEF StreamsOK
  <2> QED  BY <2>1, <2>2, <2>3
<1>5. /\ \A i \in 1 .. Len(echo'[c0]) :
           echo'[c0][i][1] = c0 /\ echo'[c0][i][2] \in 1 .. rcvd'[c0] - InHand(c0)'
      /\ \A i, j \in 1 .. Len(echo'[c0]) :
           i < j => echo'[c0][i][2] < echo'[c0][j][2]
  <2> DEFINE old == echo[c0]
             base == rcvd[c0] - InHand(c0)
  <2>0. old \in Seq(Byte \cup {Junk}) /\ echo'[c0] = old \o piece
    BY <1>0, <1>3
  <2>1. /\ \A i \in 1 .. Len(old) : old[i][1] = c0 /\ old[i][2] \in 1 .. base
        /\ \A i, j \in 1 .. Len(old) : i < j => old[i][2] < old[j][2]
    BY <1>0 DEF StreamsOK
  <2>2. base \in Nat /\ base + m <= rcvd[c0] /\ rcvd[c0] \in Nat
    BY <1>0, <1>3 DEF InHand, StreamsOK
  <2>3. \A k \in 1 .. m : piece[k] = <<c0, base + k>>
    BY <1>0, <1>3 DEF InHand
  <2>4. rcvd'[c0] - InHand(c0)' = rcvd[c0]
    BY <1>0, <1>1, <1>2
  <2> DEFINE top == rcvd[c0]
  <2> HIDE DEF base, old, top, c0
  <2>5. /\ \A i \in 1 .. Len(old \o piece) :
             (old \o piece)[i][1] = c0 /\ (old \o piece)[i][2] \in 1 .. top
        /\ \A i, j \in 1 .. Len(old \o piece) :
             i < j => (old \o piece)[i][2] < (old \o piece)[j][2]
    BY <1>3a, <2>0, <2>1, <2>2, <2>3, AppendInOrder DEF top
  <2> QED  BY <2>0, <2>4, <2>5 DEF top
<1>6. \A c \in Conn : rcvd'[c] <= sent'[c]
  BY <1>0, <1>1 DEF StreamsOK
<1>7. \A c \in Conn :
        /\ \A i \in 1 .. Len(echo'[c]) :
             echo'[c][i][1] = c /\ echo'[c][i][2] \in 1 .. rcvd'[c] - InHand(c)'
        /\ \A i, j \in 1 .. Len(echo'[c]) :
             i < j => echo'[c][i][2] < echo'[c][j][2]
  <2> TAKE c \in Conn
  <2>1. CASE c = c0
    <3>1. InHand(c)' = InHand(c0)'
      BY <1>0, <1>1, <1>2
    <3> QED  BY <1>5, <2>1, <3>1
  <2>2. CASE c # c0  BY <1>4, <2>2
  <2> QED  BY <2>1, <2>2
<1> QED  BY <1>0, <1>6, <1>7 DEF StreamsOK


\* Every step keeps the streams, as long as the two undefined places are not
\* reached.
LEMMA StreamStep == IInv /\ [Next]_vars /\ ~wild' => StreamsOK'
<1> SUFFICES ASSUME IInv, [Next]_vars, ~wild'  PROVE StreamsOK'
  OBVIOUS
<1>0. sent \in [Conn -> Nat] /\ ~wild
  <2>1. ~wild
    BY DEF Next, Server, Select, SelectFails, Disconnect, KeepEnded, Receive,
           BadDescriptor, SendBack, AcceptSlave, Clients, server, vars
  <2> QED
    BY <2>1, SocketsAssumption DEF IInv, TypeOK, SocketsTypeOK, SocketsAssumption
<1>1. CASE Select
  BY <1>0, <1>1, StreamQuiet DEF Select, sockets
<1>2. ~SelectFails
  BY DEF SelectFails
<1>3. CASE AcceptSlave
  BY <1>0, <1>3, StreamQuiet DEF AcceptSlave, AcceptNonblock
<1>4. ASSUME NEW fd \in FD, Disconnect(fd)  PROVE FALSE
  BY <1>4 DEF Disconnect
<1>5. ASSUME NEW fd \in FD, KeepEnded(fd)  PROVE StreamsOK'
  BY <1>0, <1>5, StreamQuiet DEF KeepEnded, sockets
<1>6. ASSUME NEW fd \in FD, Receive(fd)  PROVE StreamsOK'
  BY <1>0, <1>6, StreamReceive
<1>7. CASE BadDescriptor
  BY <1>0, <1>7, StreamQuiet DEF BadDescriptor
<1>8. CASE SendBack
  BY <1>0, <1>8, StreamSend
<1>9. CASE Clients
  <2>1. UNCHANGED <<rcvd, echo, buf, recvSize, iter, pc, fdt>>
    BY <1>9 DEF Clients, server, ClientStep, Connect, ClientSend, ClientRead,
                ClientShutdown, ClientReset, AbortQueued
  <2>2. UNCHANGED sent \/ \E c \in Conn : sent' = [sent EXCEPT ![c] = @ + 1]
    BY <1>9 DEF Clients, ClientStep, Connect, ClientSend, ClientRead,
                ClientShutdown, ClientReset, AbortQueued
  <2>3. sent' \in [Conn -> Nat] /\ \A c \in Conn : sent'[c] >= sent[c]
    BY <1>0, <2>2
  <2> QED  BY <1>0, <2>1, <2>3, StreamQuiet
<1>10. CASE UNCHANGED vars
  BY <1>0, <1>10, StreamQuiet DEF vars, sockets, server
<1> QED
  BY <1>1, <1>2, <1>3, <1>4, <1>5, <1>6, <1>7, <1>8, <1>9, <1>10 DEF Next, Server

(***************************************************************************)
(* The theorems.                                                           *)
(***************************************************************************)

\* The invariant holds at the start.
LEMMA InitInv == Init => IInv
<1> SUFFICES ASSUME Init  PROVE IInv
  OBVIOUS
<1>1. SocketsTypeOK
  BY InitType, SocketsAssumption DEF Init
<1>2. TypeOK
  <2>1. recvSize \in -1 .. BufSize /\ iter \in FD \cup {-1}
    BY SocketsAssumption DEF Init, SocketsAssumption
  <2> QED  BY <1>1, <2>1 DEF Init, TypeOK
<1>3. OpenFds = {} /\ backlog = {} /\ slaveSockets = {} /\ todo = {}
      /\ pc = "loop"
  BY DEF Init, SocketsInit, OpenFds
<1>4. DescriptorsOK /\ BitsStayTrue
  BY <1>3 DEF DescriptorsOK, WatchedIsOpen, BitsStayTrue
<1>5. \A c \in Conn : rcvd[c] = 0 /\ sent[c] = 0 /\ echo[c] = << >>
  BY DEF Init, SocketsInit
<1>6. StreamsOK
  BY <1>3, <1>5, EmptySeq DEF StreamsOK
<1> QED  BY <1>2, <1>4, <1>6 DEF IInv

\* The table survives every step, the marks and the bytes every defined one.
THEOREM Invariance == Spec => []IInv
<1>1. IInv /\ [Next]_vars => IInv'
  BY TypeStep, DescriptorStep, BitsStep, StreamStep DEF IInv
<1> QED  BY InitInv, <1>1, PTL DEF Spec

\* Every variable keeps its type, for every instance.
THEOREM TypeCorrect == Spec => []TypeOK
<1>1. IInv => TypeOK
  BY DEF IInv
<1> QED  BY Invariance, <1>1, PTL

\* The next select() watches the open sockets and no others, even after the
\* erased iterator was incremented or select() failed.
THEOREM WatchedCorrect == Spec => []WatchedIsOpen
<1>1. IInv => WatchedIsOpen
  BY DEF IInv, DescriptorsOK
<1> QED  BY Invariance, <1>1, PTL

\* No client that is still connected is disconnected, wherever the scan goes.
THEOREM HealthyCorrect == Spec => HealthyStayConnected
<1>1. IInv /\ [Next]_vars
      => [\A c \in Conn : peer[c] = "up" => peer'[c] # "closed"]_vars
  <2> SUFFICES ASSUME IInv, [Next]_vars, NEW c \in Conn,
                      peer[c] = "up", peer'[c] = "closed"
               PROVE  FALSE
    OBVIOUS
  <2>0. peer \in [Conn -> PeerState]
    BY DEF IInv, TypeOK, SocketsTypeOK
  <2>1. ASSUME NEW fd \in FD, Disconnect(fd)  PROVE FALSE
    <3>1. peer[fdt[fd]] \in {"fin", "gone"}
          /\ peer' = [peer EXCEPT ![fdt[fd]] = "closed"]
      BY <2>1 DEF Disconnect, EndSeen, AtEnd, Close
    <3> QED  BY <2>0, <3>1
  <2>2. ASSUME NEW fd \in FD, Receive(fd)  PROVE FALSE
    BY <2>0, <2>2 DEF Receive, RecvData, RecvError
  <2>3. CASE SendBack
    BY <2>0, <2>3 DEF SendBack, Send
  <2>4. CASE Clients
    <3>1. PICK d \in Conn : \/ Connect(d) \/ ClientSend(d) \/ ClientRead(d)
                            \/ ClientShutdown(d) \/ ClientReset(d) \/ AbortQueued(d)
      BY <2>4 DEF Clients, ClientStep
    <3>2. CASE Connect(d)  BY <2>0, <3>2 DEF Connect
    <3>3. CASE ClientSend(d)  BY <3>3 DEF ClientSend
    <3>4. CASE ClientRead(d)  BY <3>4 DEF ClientRead
    <3>5. CASE ClientShutdown(d)  BY <2>0, <3>5 DEF ClientShutdown
    <3>6. CASE ClientReset(d)  BY <2>0, <3>6 DEF ClientReset
    <3>7. CASE AbortQueued(d)  BY <2>0, <3>7 DEF AbortQueued
    <3> QED  BY <3>1, <3>2, <3>3, <3>4, <3>5, <3>6, <3>7
  <2>5. CASE UNCHANGED peer
    BY <2>5
  <2> QED
    BY <2>1, <2>2, <2>3, <2>4, <2>5
       DEF Next, Server, Select, SelectFails, KeepEnded, BadDescriptor,
           AcceptSlave, AcceptNonblock, sockets, vars
<1> QED  BY Invariance, <1>1, PTL DEF Spec, HealthyStayConnected

\* Until the erased iterator or a failed select() is used, every mark is true
\* when its socket is handled and every client gets its own bytes, in order.
THEOREM SoundCorrect == Spec => []SoundUnlessWild
<1>1. IInv => SoundUnlessWild
  <2> SUFFICES ASSUME IInv, ~wild  PROVE EchoInOrder
    BY DEF IInv, BitsStayTrue, SoundUnlessWild
  <2> SUFFICES ASSUME NEW c \in Conn
               PROVE  /\ \A i \in 1 .. Len(echo[c]) :
                           echo[c][i][1] = c /\ echo[c][i][2] \in 1 .. rcvd[c]
                      /\ \A i, j \in 1 .. Len(echo[c]) :
                           i < j => echo[c][i][2] < echo[c][j][2]
    BY DEF EchoInOrder
  <2>1. rcvd[c] \in Nat /\ InHand(c) \in Nat
    BY SocketsAssumption
       DEF IInv, TypeOK, SocketsTypeOK, SocketsAssumption, InHand
  <2> QED  BY <2>1 DEF IInv, StreamsOK
<1> QED  BY Invariance, <1>1, PTL
=============================================================================
