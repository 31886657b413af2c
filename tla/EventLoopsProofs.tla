-------------------------- MODULE EventLoopsProofs --------------------------
(***************************************************************************)
(* Proofs about LibeventEcho, a server of MCEventLoops, for every set of   *)
(* clients and of descriptors and every size of the buffers.  It has its   *)
(* own copies of the definitions of Sockets: the first lemma about it lets *)
(* the lemmas of SocketsProofs be cited for them.                          *)
(***************************************************************************)
EXTENDS MCEventLoops, SocketsProofs, SequenceTheorems, TLAPS

(***************************************************************************)
(* Sequences of the bytes of one client.                                   *)
(***************************************************************************)

\* The first bytes of client c, in order.
Own(e, c) == \A l \in 1 .. Len(e) : e[l] = <<c, l>>

\* A sequence is known by its elements.
LEMMA OwnIs ==
  ASSUME NEW S, NEW e \in Seq(S), NEW c
  PROVE  Own(e, c) <=> e = [l \in 1 .. Len(e) |-> <<c, l>>]
<1>1. e = [l \in 1 .. Len(e) |-> e[l]] /\ Len(e) \in Nat
  OBVIOUS
<1>2. ASSUME Own(e, c)  PROVE e = [l \in 1 .. Len(e) |-> <<c, l>>]
  <2>1. [l \in 1 .. Len(e) |-> e[l]] = [l \in 1 .. Len(e) |-> <<c, l>>]
    BY <1>2 DEF Own
  <2> QED  BY <1>1, <2>1
<1>3. ASSUME e = [l \in 1 .. Len(e) |-> <<c, l>>]  PROVE Own(e, c)
  <2>1. \A l \in 1 .. Len(e) : [m \in 1 .. Len(e) |-> <<c, m>>][l] = <<c, l>>
    OBVIOUS
  <2> QED  BY <1>3, <2>1 DEF Own
<1> QED  BY <1>2, <1>3

\* The bytes of client c that follow the first m, in order.
From(d, c, m) == \A l \in 1 .. Len(d) : d[l] = <<c, m + l>>

\* Two pieces, one behind the other.
LEMMA FromLonger ==
  ASSUME NEW S, NEW e \in Seq(S), NEW d \in Seq(S), NEW c, NEW b \in Nat
  PROVE  /\ e \o d \in Seq(S) /\ Len(e \o d) = Len(e) + Len(d)
         /\ From(e \o d, c, b) <=> From(e, c, b) /\ From(d, c, b + Len(e))
<1> DEFINE x == e \o d
           m == Len(e)
           n == Len(d)
<1>1. /\ m \in Nat /\ n \in Nat /\ x \in Seq(S) /\ Len(x) = m + n
      /\ \A l \in 1 .. m + n : x[l] = IF l <= m THEN e[l] ELSE d[l - m]
  BY ConcatProperties, LenProperties
<1> HIDE DEF x, m, n
<1>2. ASSUME \A l \in 1 .. m + n : x[l] = <<c, b + l>>
      PROVE  /\ \A l \in 1 .. m : e[l] = <<c, b + l>>
             /\ \A l \in 1 .. n : d[l] = <<c, (b + m) + l>>
  <2>1. \A l \in 1 .. m : e[l] = <<c, b + l>>
    BY <1>1, <1>2
  <2>2. ASSUME NEW l \in 1 .. n  PROVE d[l] = <<c, (b + m) + l>>
    <3>1. PICK v \in 1 .. m + n : v = m + l
      BY <1>1
    <3>2. x[v] = d[v - m] /\ v - m = l /\ b + v = (b + m) + l
      BY <1>1, <3>1
    <3> QED  BY <1>2, <3>1, <3>2
  <2> QED  BY <2>1, <2>2
<1>3. ASSUME \A l \in 1 .. m : e[l] = <<c, b + l>>,
             \A l \in 1 .. n : d[l] = <<c, (b + m) + l>>
      PROVE  \A l \in 1 .. m + n : x[l] = <<c, b + l>>
  <2>1. ASSUME NEW l \in 1 .. m + n  PROVE x[l] = <<c, b + l>>
    <3>1. CASE l <= m
      <4>1. l \in 1 .. m /\ x[l] = e[l]
        BY <1>1, <3>1
      <4> QED  BY <1>3, <4>1
    <3>2. CASE ~(l <= m)
      <4>1. PICK v \in 1 .. n : v = l - m
        BY <1>1, <3>2
      <4>2. x[l] = d[v] /\ (b + m) + v = b + l
        BY <1>1, <3>2, <4>1
      <4> QED  BY <1>3, <4>1, <4>2
    <3> QED  BY <3>1, <3>2
  <2> QED  BY <2>1
<1> QED  BY <1>1, <1>2, <1>3 DEF From, x, m, n

\* The bytes of a client with the next ones behind them.
LEMMA OwnLonger ==
  ASSUME NEW S, NEW e \in Seq(S), NEW d \in Seq(S), NEW c
  PROVE  /\ e \o d \in Seq(S) /\ Len(e \o d) = Len(e) + Len(d)
         /\ Own(e \o d, c) <=> Own(e, c) /\ From(d, c, Len(e))
<1>1. \A x : Own(x, c) <=> From(x, c, 0)
  BY DEF Own, From
<1>2. /\ e \o d \in Seq(S) /\ Len(e \o d) = Len(e) + Len(d)
      /\ From(e \o d, c, 0) <=> From(e, c, 0) /\ From(d, c, 0 + Len(e))
  BY FromLonger
<1>3. 0 + Len(e) = Len(e)
  BY LenProperties
<1> QED  BY <1>1, <1>2, <1>3

\* Some bytes from the middle of a sequence.
LEMMA PieceOf ==
  ASSUME NEW S, NEW u \in Seq(S), NEW i \in Nat, NEW n \in Nat, i + n <= Len(u)
  PROVE  LET d == SubSeq(u, i + 1, i + n)
         IN  d \in Seq(S) /\ Len(d) = n /\ \A k \in 1 .. n : d[k] = u[i + k]
<1> DEFINE d == SubSeq(u, i + 1, i + n)
<1>1. PICK l \in Nat : l = Len(u)
  BY LenProperties
<1>2. CASE n = 0
  <2>1. d = << >>
    BY <1>2, <1>1, SubSeqProperties
  <2> HIDE DEF d
  <2>2. d \in Seq(S) /\ Len(d) = 0
    BY <2>1, EmptySeq
  <2> QED  BY <1>2, <2>2 DEF d
<1>3. CASE n # 0
  <2>1. PICK p \in 1 .. l : p = i + 1
    BY <1>1, <1>3
  <2>2. PICK q \in p .. l : q = i + n
    BY <1>1, <1>3, <2>1
  <2>3. /\ SubSeq(u, p, q) \in Seq(S) /\ Len(SubSeq(u, p, q)) = q - p + 1
        /\ \A k \in 1 .. q - p + 1 : SubSeq(u, p, q)[k] = u[p + k - 1]
    <3>1. p \in 1 .. Len(u) + 1 /\ q \in p - 1 .. Len(u) /\ p <= q
      BY <1>1, <2>1, <2>2
    <3> QED  BY <3>1, SubSeqProperties
  <2>4. d = SubSeq(u, p, q) /\ q - p + 1 = n
    BY <2>1, <2>2
  <2> HIDE DEF d
  <2>5. \A k \in 1 .. n : p + k - 1 = i + k
    BY <2>1
  <2>6. d \in Seq(S) /\ Len(d) = n /\ \A k \in 1 .. n : d[k] = u[i + k]
    BY <2>3, <2>4, <2>5
  <2> QED  BY <2>6 DEF d
<1> QED  BY <1>2, <1>3

\* A part of a piece is a piece.
LEMMA FromPart ==
  ASSUME NEW S, NEW u \in Seq(S), NEW c, NEW m \in Nat, From(u, c, m),
         NEW i \in Nat, NEW n \in Nat, i + n <= Len(u)
  PROVE  LET d == SubSeq(u, i + 1, i + n)
         IN  d \in Seq(S) /\ Len(d) = n /\ From(d, c, m + i)
<1> DEFINE d == SubSeq(u, i + 1, i + n)
<1>1. d \in Seq(S) /\ Len(d) = n /\ \A k \in 1 .. n : d[k] = u[i + k]
  BY PieceOf
<1> HIDE DEF d
<1>2. ASSUME NEW k \in 1 .. n  PROVE d[k] = <<c, (m + i) + k>>
  <2>1. PICK v \in 1 .. Len(u) : v = i + k
    BY LenProperties
  <2>2. d[k] = u[v] /\ m + v = (m + i) + k
    BY <1>1, <2>1
  <2> QED  BY <2>1, <2>2 DEF From
<1> QED  BY <1>1, <1>2 DEF From, d

(***************************************************************************)
(* LibeventEcho.                                                           *)
(***************************************************************************)

\* Its sockets are those of this module.
LEMMA EventSockets ==
  /\ Event!OpenFds = OpenFds /\ Event!FreeFds = FreeFds
  /\ Event!Byte = Byte /\ Event!Junk = Junk
  /\ Event!OpenFds' = OpenFds' /\ Event!FreeFds' = FreeFds'
  /\ \A c : /\ Event!Accepted(c) = Accepted(c) /\ Event!Room(c) = Room(c)
            /\ Event!Avail(c) = Avail(c)
            /\ Event!RecvCount(c) = RecvCount(c) /\ Event!RecvData(c) = RecvData(c)
            /\ Event!AcceptNonblock(c) = AcceptNonblock(c)
            /\ Event!Close(c) = Close(c)
            /\ Event!Accepted(c)' = Accepted(c)'
  /\ \A m, n : Event!Min2(m, n) = Min2(m, n)
  /\ Event!ClientStep = ClientStep
  /\ Event!SocketsTypeOK = SocketsTypeOK /\ Event!SocketsTypeOK' = SocketsTypeOK'
  /\ Event!SocketsInit = SocketsInit
<1>1. Event!OpenFds = OpenFds /\ Event!OpenFds' = OpenFds'
  BY DEF Event!OpenFds, OpenFds
<1>2. Event!FreeFds = FreeFds /\ Event!FreeFds' = FreeFds'
  BY <1>1 DEF Event!FreeFds, FreeFds
<1>3. Event!Byte = Byte /\ Event!Junk = Junk
  BY DEF Event!Byte, Byte, Event!Junk, Junk
<1>4. \A m, n : Event!Min2(m, n) = Min2(m, n)
  BY DEF Event!Min2, Min2
<1>5. \A c : /\ Event!Accepted(c) = Accepted(c) /\ Event!Accepted(c)' = Accepted(c)'
             /\ Event!Room(c) = Room(c) /\ Event!Avail(c) = Avail(c)
             /\ Event!Close(c) = Close(c)
  BY DEF Event!Accepted, Accepted, Event!Room, Room, Event!Avail, Avail, Event!Close, Close
<1>6. \A c : Event!RecvCount(c) = RecvCount(c)
  BY <1>4, <1>5 DEF Event!RecvCount, RecvCount
<1>7. \A c : Event!RecvData(c) = RecvData(c)
  BY <1>5, <1>6 DEF Event!RecvData, RecvData
<1>8. \A c : Event!AcceptNonblock(c) = AcceptNonblock(c)
  BY <1>2 DEF Event!AcceptNonblock, AcceptNonblock
<1>9. Event!ClientStep = ClientStep
  <2>1. \A c : /\ Event!Connect(c) = Connect(c) /\ Event!ClientSend(c) = ClientSend(c)
               /\ Event!ClientRead(c) = ClientRead(c)
    BY DEF Event!Connect, Connect, Event!ClientSend, ClientSend, Event!ClientRead, ClientRead
  <2>2. \A c : /\ Event!ClientShutdown(c) = ClientShutdown(c)
               /\ Event!ClientReset(c) = ClientReset(c)
               /\ Event!AbortQueued(c) = AbortQueued(c)
    BY DEF Event!ClientShutdown, ClientShutdown, Event!ClientReset, ClientReset,
           Event!AbortQueued, AbortQueued
  <2> QED  BY <2>1, <2>2 DEF Event!ClientStep, ClientStep
<1>10. Event!SocketsTypeOK = SocketsTypeOK /\ Event!SocketsTypeOK' = SocketsTypeOK'
  BY <1>3 DEF Event!SocketsTypeOK, SocketsTypeOK, Event!PeerState, PeerState
<1>11. Event!SocketsInit = SocketsInit
  BY DEF Event!SocketsInit, SocketsInit
<1> QED  BY <1>1, <1>2, <1>3, <1>4, <1>5, <1>6, <1>7, <1>8, <1>9, <1>10, <1>11

\* What a client has and what the output buffer holds for it.
LEMMA RestIs ==
  ASSUME NEW S, NEW e \in Seq(S), NEW o \in Seq(S), NEW c, NEW m \in Nat
  PROVE  e \o o = [k \in 1 .. m |-> <<c, k>>]
           <=> Own(e, c) /\ From(o, c, Len(e)) /\ Len(e) + Len(o) = m
<1>1. PICK x \in Seq(S) : x = e \o o /\ Len(x) = Len(e) + Len(o)
  BY OwnLonger
<1>2. Own(x, c) <=> Own(e, c) /\ From(o, c, Len(e))
  BY <1>1, OwnLonger
<1>3. Own(x, c) <=> x = [k \in 1 .. Len(x) |-> <<c, k>>]
  BY OwnIs
<1>4. ASSUME x = [k \in 1 .. m |-> <<c, k>>]  PROVE Len(x) = m
  <2>1. DOMAIN x = 1 .. m
    BY <1>4
  <2>2. Len(x) \in Nat /\ DOMAIN x = 1 .. Len(x)
    BY LenProperties
  <2> QED  BY <2>1, <2>2
<1>5. x = [k \in 1 .. m |-> <<c, k>>] <=> Own(x, c) /\ Len(x) = m
  BY <1>3, <1>4
<1> QED  BY <1>1, <1>2, <1>5

\* The state of the loop and of the program.
EventControl ==
  /\ base \in {"down", "loop", "accept", "exit"}
  /\ sunPath \in BOOLEAN
  /\ starts \in 0 .. MaxStarts

\* The rest of the invariant, with the bytes one by one.
EventData ==
  /\ SocketsTypeOK
  /\ output \in [FD -> Seq(Byte)]
  /\ \A c \in Conn : Own(echo[c], c)
  /\ \A c \in backlog : peer[c] # "none"
  /\ \A c \in Conn : c \in backlog \/ peer[c] = "none" =>
       ~Accepted(c) /\ rcvd[c] = 0 /\ echo[c] = <<>>
  /\ \A fd, gd \in OpenFds : fdt[fd] = fdt[gd] => fd = gd
  /\ \A fd \in FreeFds : output[fd] = <<>>
  /\ \A fd \in OpenFds : /\ From(output[fd], fdt[fd], Len(echo[fdt[fd]]))
                         /\ Len(echo[fdt[fd]]) + Len(output[fd]) = rcvd[fdt[fd]]

\* Its property, with the bytes one by one.
LEMMA EventRest ==
  ASSUME SocketsTypeOK, output \in [FD -> Seq(Byte)]
  PROVE  Event!OutputIsTheRest <=>
           /\ \A c \in Conn : Own(echo[c], c)
           /\ \A fd \in OpenFds :
                /\ From(output[fd], fdt[fd], Len(echo[fdt[fd]]))
                /\ Len(echo[fdt[fd]]) + Len(output[fd]) = rcvd[fdt[fd]]
<1>1. \A c \in Conn : echo[c] \in Seq(Byte \cup {Junk}) /\ rcvd[c] \in Nat
  BY SocketsAssumption DEF SocketsTypeOK, SocketsAssumption
<1>2. \A c \in Conn : Own(echo[c], c) <=> echo[c] = [k \in 1 .. Len(echo[c]) |-> <<c, k>>]
  <2>1. ASSUME NEW c \in Conn
        PROVE  Own(echo[c], c) <=> echo[c] = [k \in 1 .. Len(echo[c]) |-> <<c, k>>]
    <3>0. PICK S : S = Byte \cup {Junk}
      OBVIOUS
    <3>1. PICK e \in Seq(S) : e = echo[c]
      BY <1>1, <3>0
    <3>2. Own(e, c) <=> e = [k \in 1 .. Len(e) |-> <<c, k>>]
      BY OwnIs
    <3> QED  BY <3>1, <3>2
  <2> QED  BY <2>1
<1>3. ASSUME NEW fd \in OpenFds
      PROVE  echo[fdt[fd]] \o output[fd] = [k \in 1 .. rcvd[fdt[fd]] |-> <<fdt[fd], k>>]
               <=> /\ Own(echo[fdt[fd]], fdt[fd])
                   /\ From(output[fd], fdt[fd], Len(echo[fdt[fd]]))
                   /\ Len(echo[fdt[fd]]) + Len(output[fd]) = rcvd[fdt[fd]]
  <2>1. fd \in FD /\ fdt[fd] \in Conn
    BY DEF OpenFds, SocketsTypeOK
  <2>2. output[fd] \in Seq(Byte \cup {Junk})
    <3>1. output[fd] \in Seq(Byte)
      BY <2>1
    <3> QED  BY <3>1, SeqDef
  <2>0. PICK S : S = Byte \cup {Junk}
    OBVIOUS
  <2>3. PICK e \in Seq(S) : e = echo[fdt[fd]]
    BY <1>1, <2>0, <2>1
  <2>4. PICK o \in Seq(S) : o = output[fd]
    BY <2>0, <2>2
  <2>5. PICK m \in Nat : m = rcvd[fdt[fd]]
    BY <1>1, <2>1
  <2>6. PICK c : c = fdt[fd]
    OBVIOUS
  <2>7. e \o o = [k \in 1 .. m |-> <<c, k>>]
          <=> Own(e, c) /\ From(o, c, Len(e)) /\ Len(e) + Len(o) = m
    BY RestIs
  <2> QED  BY ONLY <2>3, <2>4, <2>5, <2>6, <2>7
<1>4. \A fd \in OpenFds : fdt[fd] \in Conn
  BY DEF OpenFds, SocketsTypeOK
<1>5. Event!OutputIsTheRest <=>
        /\ \A c \in Conn : echo[c] = [k \in 1 .. Len(echo[c]) |-> <<c, k>>]
        /\ \A fd \in OpenFds :
             echo[fdt[fd]] \o output[fd] = [k \in 1 .. rcvd[fdt[fd]] |-> <<fdt[fd], k>>]
  BY EventSockets DEF Event!OutputIsTheRest
<1> QED  BY <1>2, <1>3, <1>4, <1>5

\* They are the invariant.
LEMMA EventIs == Event!IInv <=> EventControl /\ EventData
BY EventSockets, EventRest
   DEF Event!IInv, Event!TypeOK, Event!ConnectionsOK, EventControl, EventData

\* The same of the next state.
LEMMA EventIsNext == Event!IInv' <=> EventControl' /\ EventData'
BY EventIs, PTL

\* Clients leave the server alone.
LEMMA EventClients == EventData /\ Event!Clients => EventData'
<1> SUFFICES ASSUME EventData, Event!Clients  PROVE EventData'
  OBVIOUS
<1>1. ClientStep /\ UNCHANGED <<base, sunPath, starts, output>>
  BY EventSockets DEF Event!Clients, Event!server
<1>2. PICK d \in Conn : \/ Connect(d) \/ ClientSend(d) \/ ClientRead(d)
                        \/ ClientShutdown(d) \/ ClientReset(d) \/ AbortQueued(d)
  BY <1>1 DEF ClientStep
<1>3. UNCHANGED <<fdt, rcvd, echo, errno, buf>>
  BY <1>2 DEF Connect, ClientSend, ClientRead, ClientShutdown, ClientReset, AbortQueued
<1>4. SocketsTypeOK'
  BY <1>1, SocketsAssumption, ClientType DEF EventData
<1>5. \A c \in Conn : c \in backlog' \/ peer'[c] = "none" => c \in backlog \/ peer[c] = "none"
  <2>1. peer \in [Conn -> PeerState]
    BY DEF EventData, SocketsTypeOK
  <2> QED
    BY <1>2, <2>1
       DEF Connect, ClientSend, ClientRead, ClientShutdown, ClientReset, AbortQueued
<1>6. OpenFds' = OpenFds /\ FreeFds' = FreeFds /\ \A c : Accepted(c)' = Accepted(c)
  BY <1>3 DEF OpenFds, FreeFds, Accepted
<1>7. \A c \in backlog' : peer'[c] # "none"
  <2>1. peer \in [Conn -> PeerState]
    BY DEF EventData, SocketsTypeOK
  <2>2. backlog \subseteq Conn /\ \A c \in backlog : peer[c] # "none"
    BY DEF EventData, SocketsTypeOK
  <2> QED
    BY ONLY <1>2, <2>1, <2>2
       DEF Connect, ClientSend, ClientRead, ClientShutdown, ClientReset, AbortQueued
<1> QED  BY <1>1, <1>3, <1>4, <1>5, <1>6, <1>7 DEF EventData

\* Starting and listening change nothing else.
LEMMA EventQuiet ==
  EventData /\ (Event!Start \/ Event!Listen \/ Event!AcceptNone \/ Event!AcceptError)
    => EventData'
<1> SUFFICES ASSUME EventData,
                    Event!Start \/ Event!Listen \/ Event!AcceptNone \/ Event!AcceptError
             PROVE  EventData'
  OBVIOUS
<1>1. UNCHANGED <<peer, backlog, fdt, sent, rcvd, echo, unread, errno, buf, output>>
  BY DEF Event!Start, Event!Listen, Event!AcceptNone, Event!AcceptError, Event!sockets
<1> QED  BY <1>1 DEF EventData, SocketsTypeOK, OpenFds, FreeFds, Accepted

\* accept() gives a client a descriptor with an empty output buffer.
LEMMA EventAccept == EventData /\ Event!AcceptConn => EventData'
<1> SUFFICES ASSUME EventData, Event!AcceptConn  PROVE EventData'
  OBVIOUS
<1>1. /\ FreeFds # {} /\ backlog # {} /\ UNCHANGED <<base, sunPath, starts, output>>
      /\ \E fd \in FD : AcceptNonblock(fd)
  BY EventSockets DEF Event!AcceptConn, Event!server
<1>2. PICK fd \in FD : AcceptNonblock(fd)
  BY <1>1
<1>3. fd # -1 /\ NoConn \notin Conn
  BY SocketsAssumption DEF SocketsAssumption
<1>4. PICK c \in backlog : /\ fdt' = [fdt EXCEPT ![fd] = c] /\ backlog' = backlog \ {c}
                           /\ UNCHANGED <<peer, sent, rcvd, echo, unread, errno, buf>>
  BY <1>2, <1>3 DEF AcceptNonblock
<1>5. /\ fd \in FreeFds /\ c \in Conn /\ c # NoConn /\ fdt[fd] = NoConn
      /\ fdt \in [FD -> Conn \cup {NoConn}] /\ SocketsTypeOK'
  BY <1>2, <1>3, <1>4, AcceptType
     DEF AcceptNonblock, EventData, SocketsTypeOK, FreeFds, OpenFds
<1>6. \A gd \in FD : fdt'[gd] = IF gd = fd THEN c ELSE fdt[gd]
  BY <1>4, <1>5
<1>7. OpenFds' = OpenFds \cup {fd} /\ FreeFds' \subseteq FreeFds
  BY <1>5, <1>6 DEF OpenFds, FreeFds
<1>8. \A d \in Conn : Accepted(d)' <=> Accepted(d) \/ d = c
  BY <1>3, <1>5, <1>6 DEF Accepted
<1>9. ~Accepted(c) /\ rcvd[c] = 0 /\ echo[c] = <<>> /\ output[fd] = <<>>
  BY <1>4, <1>5 DEF EventData
<1>10. \A gd \in OpenFds : gd \in FD /\ gd # fd /\ fdt[gd] # c /\ fdt[gd] \in Conn
  BY <1>5, <1>9 DEF OpenFds, Accepted
<1>11. \A gd, hd \in OpenFds' : fdt'[gd] = fdt'[hd] => gd = hd
  BY <1>6, <1>7, <1>10 DEF EventData
<1>12. ASSUME NEW gd \in OpenFds'
       PROVE  /\ From(output[gd], fdt'[gd], Len(echo[fdt'[gd]]))
              /\ Len(echo[fdt'[gd]]) + Len(output[gd]) = rcvd[fdt'[gd]]
  <2>1. CASE gd = fd
    <3>1. Len(<<>>) = 0 /\ fdt'[gd] = c
      BY <1>6, <2>1, EmptySeq
    <3>2. Len(output[gd]) = 0 /\ Len(echo[c]) = 0 /\ rcvd[c] = 0
      BY <1>9, <2>1, <3>1
    <3>3. From(output[gd], c, 0)
      BY ONLY <3>2 DEF From
    <3> QED  BY ONLY <3>1, <3>2, <3>3
  <2>2. CASE gd # fd
    BY <1>6, <1>7, <1>10, <2>2 DEF EventData
  <2> QED  BY <2>1, <2>2
<1>13. \A d \in Conn : d \in backlog' \/ peer[d] = "none" =>
         ~Accepted(d)' /\ rcvd[d] = 0 /\ echo[d] = <<>>
  <2>1. peer[c] # "none"
    BY DEF EventData
  <2> QED  BY <1>4, <1>8, <2>1 DEF EventData
<1> QED  BY <1>1, <1>4, <1>5, <1>7, <1>11, <1>12, <1>13 DEF EventData

\* What is received is put behind what the output buffer holds.
LEMMA EventReads == ASSUME EventData, NEW fd \in FD, Event!ReadCb(fd)  PROVE EventData'
<1>1. PICK c : c = fdt[fd]
  OBVIOUS
<1>2. PICK n : n = RecvCount(c)
  OBVIOUS
<1>3. PICK p : p = SubSeq(buf', 1, n)
  OBVIOUS
<1>4. /\ fd \in OpenFds /\ RecvData(c) /\ output' = [output EXCEPT ![fd] = @ \o p]
      /\ UNCHANGED <<base, sunPath, starts>>
  BY <1>1, <1>2, <1>3, EventSockets DEF Event!ReadCb, Event!Appended
<1>5. /\ SocketsTypeOK /\ SocketsAssumption /\ c \in Conn /\ NoConn \notin Conn
      /\ output \in [FD -> Seq(Byte)] /\ rcvd[c] \in Nat
      /\ From(output[fd], c, Len(echo[c])) /\ Len(echo[c]) + Len(output[fd]) = rcvd[c]
  <2>1. /\ SocketsTypeOK /\ output \in [FD -> Seq(Byte)]
        /\ From(output[fd], c, Len(echo[c])) /\ Len(echo[c]) + Len(output[fd]) = rcvd[c]
    BY <1>1, <1>4 DEF EventData
  <2>2. c \in Conn
    BY <1>1, <1>4, <2>1 DEF OpenFds, SocketsTypeOK
  <2>3. SocketsAssumption /\ NoConn \notin Conn /\ MaxBytes \in Nat
    BY SocketsAssumption DEF SocketsAssumption
  <2>4. rcvd[c] \in Nat
    BY <2>1, <2>2, <2>3 DEF SocketsTypeOK
  <2> QED  BY <2>1, <2>2, <2>3, <2>4
<1>6. /\ n \in 1 .. BufSize /\ buf' \in Seq(Byte) /\ n <= Len(buf') /\ SocketsTypeOK'
      /\ \A k \in 1 .. n : buf'[k] = <<c, rcvd[c] + k>>
  BY <1>2, <1>4, <1>5, ReceivedBytes, RecvDataType
<1>7. p \in Seq(Byte) /\ Len(p) = n /\ From(p, c, rcvd[c])
  <2>1. n \in Nat /\ 0 + 1 = 1 /\ 0 + n = n
    BY <1>5, <1>6 DEF SocketsAssumption
  <2>2. p \in Seq(Byte) /\ Len(p) = n /\ \A k \in 1 .. n : p[k] = buf'[0 + k]
    <3>1. PICK u \in Seq(Byte) : u = buf'
      BY <1>6
    <3>2. /\ SubSeq(u, 0 + 1, 0 + n) \in Seq(Byte) /\ Len(SubSeq(u, 0 + 1, 0 + n)) = n
          /\ \A k \in 1 .. n : SubSeq(u, 0 + 1, 0 + n)[k] = u[0 + k]
      BY <1>6, <2>1, <3>1, PieceOf
    <3> QED  BY <1>3, <2>1, <3>1, <3>2
  <2>3. \A k \in 1 .. n : 0 + k = k
    BY <2>1
  <2> QED  BY <1>6, <2>2, <2>3 DEF From
<1>8. PICK m \in Nat : m = Len(echo[c])
  <2>1. echo[c] \in Seq(Byte \cup {Junk})
    BY <1>5 DEF SocketsTypeOK
  <2> QED  BY <2>1, LenProperties
<1>9. PICK o \in Seq(Byte) : o = output[fd]
  BY <1>4, <1>5 DEF OpenFds
<1>10. o \o p \in Seq(Byte) /\ Len(o \o p) = Len(o) + n /\ From(o \o p, c, m)
  <2>1. From(o, c, m)
    BY <1>5, <1>8, <1>9
  <2>2. From(p, c, m + Len(o))
    BY <1>5, <1>7, <1>8, <1>9
  <2> QED  BY <1>7, <2>1, <2>2, FromLonger
<1>11. /\ UNCHANGED <<peer, backlog, fdt, sent, echo, unread, errno>>
       /\ rcvd' = [rcvd EXCEPT ![c] = @ + n] /\ rcvd \in [Conn -> 0 .. MaxBytes]
  BY <1>2, <1>4, <1>5 DEF RecvData, SocketsTypeOK
<1>12. OpenFds' = OpenFds /\ FreeFds' = FreeFds /\ \A d : Accepted(d)' = Accepted(d)
  BY <1>11 DEF OpenFds, FreeFds, Accepted
<1>13. /\ \A gd \in FD : output'[gd] = IF gd = fd THEN o \o p ELSE output[gd]
       /\ \A d \in Conn : rcvd'[d] = IF d = c THEN rcvd[c] + n ELSE rcvd[d]
  BY <1>4, <1>5, <1>9, <1>11
<1>14. output' \in [FD -> Seq(Byte)]
  BY <1>4, <1>5, <1>9, <1>10
<1>15. Accepted(c) /\ fd \notin FreeFds /\ \A gd \in OpenFds : gd \in FD /\ fdt[gd] \in Conn
  BY <1>1, <1>4, <1>5 DEF Accepted, FreeFds, OpenFds, SocketsTypeOK
<1>16. \A gd \in OpenFds : gd # fd => fdt[gd] # c
  BY <1>1, <1>4 DEF EventData
<1>17. ASSUME NEW gd \in OpenFds'
       PROVE  /\ From(output'[gd], fdt[gd], Len(echo[fdt[gd]]))
              /\ Len(echo[fdt[gd]]) + Len(output'[gd]) = rcvd'[fdt[gd]]
  <2>1. CASE gd = fd
    <3>1. fdt[gd] = c /\ output'[gd] = o \o p /\ rcvd'[c] = rcvd[c] + n
      BY <1>1, <1>5, <1>13, <1>15, <1>12, <2>1
    <3>2. Len(o) \in Nat /\ n \in Nat /\ m + Len(o) = rcvd[c]
      BY <1>5, <1>6, <1>8, <1>9, LenProperties DEF SocketsAssumption
    <3>3. m + (Len(o) + n) = rcvd[c] + n
      BY ONLY <3>2, m \in Nat
    <3> QED  BY <1>8, <1>10, <3>1, <3>3
  <2>2. CASE gd # fd
    <3>1. output'[gd] = output[gd] /\ rcvd'[fdt[gd]] = rcvd[fdt[gd]] /\ gd \in OpenFds
      BY <1>12, <1>13, <1>15, <1>16, <2>2
    <3> QED  BY <3>1 DEF EventData
  <2> QED  BY <2>1, <2>2
<1>18. \A d \in Conn : d \in backlog \/ peer[d] = "none" =>
         ~Accepted(d) /\ rcvd'[d] = 0 /\ echo[d] = <<>>
  BY <1>13, <1>15 DEF EventData
<1>19. \A gd \in FreeFds : output'[gd] = <<>>
  BY <1>13, <1>15 DEF EventData, FreeFds
<1> QED
  BY <1>6, <1>11, <1>12, <1>14, <1>17, <1>18, <1>19 DEF EventData

\* What is written is the first of what the output buffer held.
LEMMA EventFlushes == ASSUME EventData, NEW fd \in FD, Event!Flush(fd)  PROVE EventData'
<1>1. PICK c : c = fdt[fd]
  OBVIOUS
<1>2. PICK o : o = output[fd]
  OBVIOUS
<1>3. PICK n : n = Min2(Len(o), Room(c))
  OBVIOUS
<1>4. PICK p : p = SubSeq(o, 1, n)
  OBVIOUS
<1>5. PICK q : q = SubSeq(o, n + 1, Len(o))
  OBVIOUS
<1>6. /\ fd \in OpenFds /\ n > 0 /\ peer[c] \in {"up", "fin"}
      /\ echo' = [echo EXCEPT ![c] = @ \o p] /\ unread' = [unread EXCEPT ![c] = @ + n]
      /\ output' = [output EXCEPT ![fd] = q]
      /\ UNCHANGED <<peer, backlog, fdt, sent, rcvd, errno, buf>>
      /\ UNCHANGED <<base, sunPath, starts>>
  BY <1>1, <1>2, <1>3, <1>4, <1>5, EventSockets DEF Event!Flush
<1>7. /\ SocketsTypeOK /\ SocketsAssumption /\ c \in Conn /\ NoConn \notin Conn
      /\ output \in [FD -> Seq(Byte)] /\ rcvd[c] \in Nat /\ o \in Seq(Byte)
      /\ echo \in [Conn -> Seq(Byte \cup {Junk})]
      /\ From(o, c, Len(echo[c])) /\ Len(echo[c]) + Len(o) = rcvd[c]
  <2>1. /\ SocketsTypeOK /\ output \in [FD -> Seq(Byte)]
        /\ From(o, c, Len(echo[c])) /\ Len(echo[c]) + Len(o) = rcvd[c]
    BY <1>1, <1>2, <1>6 DEF EventData
  <2>2. c \in Conn /\ o \in Seq(Byte)
    BY <1>1, <1>2, <1>6, <2>1 DEF OpenFds, SocketsTypeOK
  <2>3. SocketsAssumption /\ NoConn \notin Conn /\ MaxBytes \in Nat
    BY SocketsAssumption DEF SocketsAssumption
  <2>4. rcvd[c] \in Nat /\ echo \in [Conn -> Seq(Byte \cup {Junk})]
    BY <2>1, <2>2, <2>3 DEF SocketsTypeOK
  <2> QED  BY <2>1, <2>2, <2>3, <2>4
<1>8. PICK l \in Nat : l = Len(o)
  BY <1>7, LenProperties
<1>9. n \in Nat /\ n <= l /\ n <= Room(c) /\ unread[c] + n \in 0 .. SndBuf
  <2>1. SndBuf \in Nat /\ unread[c] \in 0 .. SndBuf
    BY <1>7 DEF SocketsTypeOK, SocketsAssumption
  <2>2. n = (IF l < SndBuf - unread[c] THEN l ELSE SndBuf - unread[c]) /\ n > 0
    BY <1>3, <1>6, <1>8 DEF Min2, Room
  <2>3. Room(c) = SndBuf - unread[c]
    BY DEF Room
  <2> QED  BY ONLY <2>1, <2>2, <2>3, l \in Nat
<1>10. PICK e \in Seq(Byte \cup {Junk}) : e = echo[c]
  BY <1>7
<1>11. PICK m \in Nat : m = Len(e)
  BY LenProperties
<1>12. p \in Seq(Byte) /\ Len(p) = n /\ From(p, c, m)
  <2>1. From(o, c, m) /\ 0 \in Nat /\ 0 + n <= Len(o) /\ 0 + 1 = 1 /\ 0 + n = n /\ m + 0 = m
    BY <1>7, <1>8, <1>9, <1>10, <1>11
  <2>2. /\ SubSeq(o, 0 + 1, 0 + n) \in Seq(Byte) /\ Len(SubSeq(o, 0 + 1, 0 + n)) = n
        /\ From(SubSeq(o, 0 + 1, 0 + n), c, m + 0)
    BY <1>7, <1>9, <2>1, FromPart
  <2> QED  BY <1>4, <2>1, <2>2
<1>13. q \in Seq(Byte) /\ Len(q) = l - n /\ From(q, c, m + n)
  <2>1. PICK k \in Nat : k = l - n
    <3>1. l - n \in Nat
      BY ONLY <1>9, l \in Nat
    <3> QED  BY <3>1
  <2>2. From(o, c, m) /\ n + k <= Len(o) /\ n + k = l
    BY <1>7, <1>8, <1>9, <1>10, <1>11, <2>1
  <2>3. /\ SubSeq(o, n + 1, n + k) \in Seq(Byte) /\ Len(SubSeq(o, n + 1, n + k)) = k
        /\ From(SubSeq(o, n + 1, n + k), c, m + n)
    BY <1>7, <1>9, <2>2, FromPart
  <2> QED  BY <1>5, <1>8, <2>1, <2>2, <2>3
<1>14. p \in Seq(Byte \cup {Junk})
  BY <1>12, SeqDef
<1>15. /\ e \o p \in Seq(Byte \cup {Junk}) /\ Len(e \o p) = m + n
       /\ Own(e, c) => Own(e \o p, c)
  BY <1>11, <1>12, <1>14, OwnLonger
<1>16. /\ \A d \in Conn : echo'[d] = IF d = c THEN e \o p ELSE echo[d]
       /\ \A gd \in FD : output'[gd] = IF gd = fd THEN q ELSE output[gd]
  BY <1>6, <1>7, <1>10
<1>17. SocketsTypeOK' /\ output' \in [FD -> Seq(Byte)]
  <2>1. echo' \in [Conn -> Seq(Byte \cup {Junk})]
    BY <1>6, <1>7, <1>10, <1>15
  <2>2. unread' \in [Conn -> 0 .. SndBuf]
    BY <1>6, <1>7, <1>9 DEF SocketsTypeOK
  <2>3. output' \in [FD -> Seq(Byte)]
    BY <1>6, <1>7, <1>13
  <2> QED  BY <1>6, <1>7, <2>1, <2>2, <2>3 DEF SocketsTypeOK
<1>18. OpenFds' = OpenFds /\ FreeFds' = FreeFds /\ \A d : Accepted(d)' = Accepted(d)
  BY <1>6 DEF OpenFds, FreeFds, Accepted
<1>19. Accepted(c) /\ fd \notin FreeFds /\ \A gd \in OpenFds : gd \in FD /\ fdt[gd] \in Conn
  BY <1>1, <1>6, <1>7 DEF Accepted, FreeFds, OpenFds, SocketsTypeOK
<1>20. \A gd \in OpenFds : gd # fd => fdt[gd] # c
  BY <1>1, <1>6 DEF EventData
<1>21. ASSUME NEW gd \in OpenFds'
       PROVE  /\ From(output'[gd], fdt[gd], Len(echo'[fdt[gd]]))
              /\ Len(echo'[fdt[gd]]) + Len(output'[gd]) = rcvd[fdt[gd]]
  <2>1. CASE gd = fd
    <3>1. fdt[gd] = c /\ output'[gd] = q /\ echo'[c] = e \o p
      BY <1>1, <1>7, <1>16, <1>18, <1>19, <2>1
    <3>2. (m + n) + (l - n) = rcvd[c]
      BY <1>7, <1>8, <1>9, <1>10, <1>11
    <3> QED  BY <1>13, <1>15, <3>1, <3>2
  <2>2. CASE gd # fd
    <3>1. output'[gd] = output[gd] /\ echo'[fdt[gd]] = echo[fdt[gd]] /\ gd \in OpenFds
      BY <1>16, <1>18, <1>19, <1>20, <2>2
    <3> QED  BY <3>1 DEF EventData
  <2> QED  BY <2>1, <2>2
<1>22. \A d \in Conn : d \in backlog \/ peer[d] = "none" =>
         ~Accepted(d) /\ rcvd[d] = 0 /\ echo'[d] = <<>>
  BY <1>16, <1>19 DEF EventData
<1>23. \A gd \in FreeFds : output'[gd] = <<>>
  BY <1>16, <1>19 DEF EventData, FreeFds
<1>24. \A d \in Conn : Own(echo'[d], d)
  BY <1>10, <1>15, <1>16 DEF EventData
<1> QED
  BY <1>6, <1>17, <1>18, <1>21, <1>22, <1>23, <1>24 DEF EventData

\* bufferevent_free() takes the output buffer with the descriptor.
LEMMA EventCloses == ASSUME EventData, NEW fd \in FD, Event!EventCb(fd)  PROVE EventData'
<1>1. PICK c : c = fdt[fd]
  OBVIOUS
<1>2. /\ fd \in OpenFds /\ Close(fd) /\ output' = [output EXCEPT ![fd] = <<>>]
  BY EventSockets DEF Event!EventCb
<1>3. /\ peer' = [peer EXCEPT ![c] = "closed"] /\ fdt' = [fdt EXCEPT ![fd] = NoConn]
      /\ UNCHANGED <<backlog, sent, rcvd, echo, unread, errno, buf>>
  BY <1>1, <1>2 DEF Close
<1>4. /\ SocketsTypeOK /\ SocketsTypeOK' /\ NoConn \notin Conn /\ c \in Conn /\ Accepted(c)
      /\ output \in [FD -> Seq(Byte)]
  BY <1>1, <1>2, CloseType, SocketsAssumption
     DEF EventData, SocketsAssumption, OpenFds, SocketsTypeOK, Accepted
<1>5. /\ \A gd \in FD : fdt'[gd] = IF gd = fd THEN NoConn ELSE fdt[gd]
      /\ \A gd \in FD : output'[gd] = IF gd = fd THEN <<>> ELSE output[gd]
      /\ \A d \in Conn : peer'[d] = IF d = c THEN "closed" ELSE peer[d]
  BY <1>2, <1>3, <1>4 DEF SocketsTypeOK
<1>6. OpenFds' = OpenFds \ {fd} /\ FreeFds' = FreeFds \cup {fd} /\ FreeFds \subseteq FD
  BY <1>2, <1>5 DEF OpenFds, FreeFds
<1>7. \A d \in Conn : Accepted(d)' => Accepted(d)
  BY <1>4, <1>5 DEF Accepted
<1>8. output' \in [FD -> Seq(Byte)]
  BY <1>2, <1>4, EmptySeq
<1>9. \A gd \in FreeFds' : output'[gd] = <<>>
  BY <1>5, <1>6 DEF EventData
<1>10. \A gd \in OpenFds' : /\ gd \in OpenFds /\ gd # fd /\ gd \in FD
                            /\ fdt'[gd] = fdt[gd] /\ output'[gd] = output[gd]
  BY <1>5, <1>6 DEF OpenFds
<1>11. /\ \A d \in backlog : peer'[d] # "none"
       /\ \A d \in Conn : d \in backlog \/ peer'[d] = "none" =>
            ~Accepted(d)' /\ rcvd[d] = 0 /\ echo[d] = <<>>
  BY <1>4, <1>5, <1>7 DEF EventData, SocketsTypeOK
<1>12. \A gd, hd \in OpenFds' : fdt'[gd] = fdt'[hd] => gd = hd
  BY <1>10 DEF EventData
<1>13. ASSUME NEW gd \in OpenFds'
       PROVE  /\ From(output'[gd], fdt'[gd], Len(echo[fdt'[gd]]))
              /\ Len(echo[fdt'[gd]]) + Len(output'[gd]) = rcvd[fdt'[gd]]
  BY <1>10 DEF EventData
<1>14. \A d \in Conn : Own(echo[d], d)
  BY DEF EventData
<1> QED  BY <1>3, <1>4, <1>8, <1>9, <1>11, <1>12, <1>13, <1>14 DEF EventData

\* The end of the process closes everything.
LEMMA EventEnds == EventData /\ Event!End => EventData'
<1> SUFFICES ASSUME EventData, Event!End  PROVE EventData'
  OBVIOUS
<1>1. /\ peer' = [c \in Conn |-> IF c \in backlog \/ Accepted(c) THEN "closed" ELSE peer[c]]
      /\ backlog' = {} /\ fdt' = [fd \in FD |-> NoConn] /\ output' = [fd \in FD |-> <<>>]
      /\ UNCHANGED <<sent, rcvd, echo, unread, errno, buf>>
  BY EventSockets DEF Event!End
<1>2. SocketsTypeOK /\ NoConn \notin Conn
  BY SocketsAssumption DEF EventData, SocketsAssumption
<1>3. SocketsTypeOK'
  BY <1>1, <1>2 DEF SocketsTypeOK, PeerState
<1>4. OpenFds' = {} /\ FreeFds' = FD /\ \A c \in Conn : ~Accepted(c)'
  BY <1>1, <1>2 DEF OpenFds, FreeFds, Accepted
<1>5. output' \in [FD -> Seq(Byte)]
  BY <1>1, EmptySeq
<1>6. \A c \in Conn : peer'[c] = "none" => peer[c] = "none"
  BY <1>1
<1> QED  BY <1>1, <1>3, <1>4, <1>5, <1>6 DEF EventData

\* Every step of the server, of its clients and of who starts and stops it
\* keeps what the connections hold.
LEMMA EventStep == EventData /\ [Event!Next]_(Event!vars) => EventData'
<1> SUFFICES ASSUME EventData, [Event!Next]_(Event!vars)  PROVE EventData'
  OBVIOUS
<1>1. ASSUME UNCHANGED Event!vars  PROVE EventData'
  BY <1>1 DEF Event!vars, Event!sockets, Event!server, EventData, SocketsTypeOK,
              OpenFds, FreeFds, Accepted
<1>2. ASSUME NEW fd \in FD, Event!BrokenPipe(fd)  PROVE EventData'
  BY <1>2, EventEnds DEF Event!BrokenPipe
<1>3. CASE Event!Exit \/ Event!Kill
  BY <1>3, EventEnds DEF Event!Exit, Event!Kill
<1> QED
  BY <1>1, <1>2, <1>3, EventClients, EventQuiet, EventAccept, EventReads, EventFlushes,
     EventCloses
     DEF Event!Next, Event!Server

\* The loop and the program stay within their states.
LEMMA EventControlStep ==
  ASSUME MaxStarts \in Nat, EventControl, [Event!Next]_(Event!vars)
  PROVE  EventControl'
<1>1. ASSUME UNCHANGED Event!vars  PROVE EventControl'
  BY <1>1 DEF Event!vars, Event!server, EventControl
<1>2. CASE Event!Start
  BY <1>2 DEF Event!Start, EventControl
<1>3. ASSUME Event!End  PROVE EventControl'
  BY <1>3 DEF Event!End, EventControl
<1>4. CASE Event!Kill \/ Event!Exit \/ \E fd \in FD : Event!BrokenPipe(fd)
  BY <1>3, <1>4 DEF Event!Kill, Event!Exit, Event!BrokenPipe
<1>5. CASE Event!Listen \/ Event!AcceptNone \/ Event!AcceptError
  BY <1>5 DEF Event!Listen, Event!AcceptNone, Event!AcceptError, EventControl
<1>6. CASE Event!Clients \/ Event!AcceptConn
  BY <1>6 DEF Event!Clients, Event!AcceptConn, Event!server, EventControl
<1>7. CASE \E fd \in FD : Event!ReadCb(fd) \/ Event!Flush(fd) \/ Event!EventCb(fd)
  BY <1>7 DEF Event!ReadCb, Event!Flush, Event!EventCb, EventControl
<1> QED
  BY <1>1, <1>2, <1>4, <1>5, <1>6, <1>7 DEF Event!Next, Event!Server

\* Nothing is connected at the start.
LEMMA EventInit == Event!Init => EventData
<1> SUFFICES ASSUME Event!Init  PROVE EventData
  OBVIOUS
<1>1. /\ SocketsInit /\ SocketsTypeOK /\ NoConn \notin Conn
      /\ output = [fd \in FD |-> <<>>]
  BY EventSockets, InitType, SocketsAssumption DEF Event!Init, SocketsAssumption
<1>2. output \in [FD -> Seq(Byte)] /\ Len(<<>>) = 0
  BY <1>1, EmptySeq
<1>3. OpenFds = {} /\ backlog = {} /\ \A fd \in FreeFds : output[fd] = <<>>
  BY <1>1 DEF SocketsInit, OpenFds, FreeFds
<1>4. \A c \in Conn : ~Accepted(c) /\ rcvd[c] = 0 /\ echo[c] = <<>>
  BY <1>1 DEF SocketsInit, Accepted
<1>5. \A c \in Conn : Own(echo[c], c)
  BY <1>2, <1>4 DEF Own
<1> QED  BY <1>1, <1>2, <1>3, <1>4, <1>5 DEF EventData

\* The invariant of the libevent server.
THEOREM EventInvariance == MaxStarts \in Nat => (Event!Spec => []Event!IInv)
<1> SUFFICES ASSUME MaxStarts \in Nat  PROVE Event!Spec => []Event!IInv
  OBVIOUS
<1>1. Event!Init => Event!IInv
  <2>1. Event!Init => base = "down" /\ sunPath = FALSE /\ starts = 0
    BY DEF Event!Init
  <2>2. 0 \in 0 .. MaxStarts
    OBVIOUS
  <2> QED  BY <2>1, <2>2, EventIs, EventInit DEF EventControl
<1>2. Event!IInv /\ [Event!Next]_(Event!vars) => Event!IInv'
  BY EventIs, EventIsNext, EventStep, EventControlStep
<1> QED  BY <1>1, <1>2, PTL DEF Event!Spec

\* While the libevent server runs.
EventInv == program = "libevent" => EventData

\* A step of the instance is one of LibeventEcho while that runs.
LEMMA EventOnly ==
  ASSUME [Next]_vars
  PROVE  /\ program' = program
         /\ program = "libevent" => [Event!Next]_(Event!vars)
         /\ program # "libevent" => UNCHANGED eventVars
<1>1. program' = program
  BY DEF Next, EventNext, AsioNext, EventRuns, AsioRuns, vars
<1>2. CASE UNCHANGED vars
  BY <1>1, <1>2 DEF vars, sockets, eventVars, Event!vars, Event!sockets, Event!server
<1>3. CASE Next
  BY <1>1, <1>3 DEF Next, EventNext, AsioNext, EventRuns, AsioRuns
<1> QED  BY <1>2, <1>3

\* In the instance of MCEventLoops too, what a client was sent and what the
\* output buffer of its connection holds are all that was received from it,
\* whatever has been accepted, closed, killed or started again since.
THEOREM OutputCorrect == Spec => []OutputIsTheRest
<1>1. Init => EventInv
  BY EventInit DEF Init, EventInv
<1>2. EventInv /\ [Next]_vars => EventInv'
  BY EventOnly, EventStep DEF EventInv
<1>3. EventInv => OutputIsTheRest
  <2> SUFFICES ASSUME EventData  PROVE Event!OutputIsTheRest
    BY DEF EventInv, OutputIsTheRest
  <2> QED  BY EventRest DEF EventData
<1> QED  BY <1>1, <1>2, <1>3, PTL DEF Spec

\* A program that has ended once never serves again: the name that its first
\* start made is still there.
THEOREM RestartFails == Spec => ServesOnce
<1>1. Init => Event!NameStays
  BY DEF Init, Event!Init, Event!NameStays
<1>2. Event!NameStays /\ [Next]_vars => Event!NameStays'
  <2> SUFFICES ASSUME Event!NameStays, [Next]_vars  PROVE Event!NameStays'
    OBVIOUS
  <2>1. CASE UNCHANGED eventVars
    BY <2>1 DEF eventVars, Event!NameStays
  <2>2. CASE Event!Next
    <3>1. CASE Event!Start
      BY <3>1 DEF Event!Start, Event!NameStays
    <3>2. CASE ~Event!Start
      <4>1. UNCHANGED <<starts, sunPath>>
        BY <2>2, <3>2
           DEF Event!Next, Event!Server, Event!Clients, Event!Listen, Event!AcceptConn,
               Event!AcceptNone, Event!AcceptError, Event!ReadCb, Event!Flush,
               Event!EventCb, Event!BrokenPipe, Event!Exit, Event!Kill, Event!End,
               Event!server
      <4> QED  BY <4>1 DEF Event!NameStays
    <3> QED  BY <3>1, <3>2
  <2> QED  BY <2>1, <2>2, EventOnly DEF Event!vars, Event!server, eventVars
<1>3. Event!NameStays /\ [Next]_vars
        => [starts > 0 /\ ~Event!Running => ~Event!Running']_(Event!vars)
  <2> SUFFICES ASSUME Event!NameStays, [Next]_vars, starts > 0, base = "down"
               PROVE  base' = "down" \/ UNCHANGED Event!vars
    BY DEF Event!Running
  <2>1. CASE UNCHANGED eventVars
    BY <2>1 DEF eventVars
  <2>2. CASE Event!Next
    <3>1. CASE Event!Start
      BY <3>1 DEF Event!Start, Event!NameStays
    <3>2. CASE ~Event!Start
      BY <2>2, <3>2
         DEF Event!Next, Event!Server, Event!Clients, Event!Listen, Event!AcceptConn,
             Event!AcceptNone, Event!AcceptError, Event!ReadCb, Event!Flush,
             Event!EventCb, Event!BrokenPipe, Event!Exit, Event!Kill, Event!End,
             Event!server
    <3> QED  BY <3>1, <3>2
  <2> QED  BY <2>1, <2>2, EventOnly DEF Event!vars, Event!server, eventVars
<1> QED  BY <1>1, <1>2, <1>3, PTL DEF Spec, ServesOnce, Event!ServesOnce
=============================================================================
