--------------------------- MODULE SocketsProofs ---------------------------
(***************************************************************************)
(* Facts about the system calls and the client steps of Sockets, for every *)
(* number of connections, descriptors and bytes.  The proofs about the     *)
(* servers cite them.                                                      *)
(***************************************************************************)
EXTENDS Sockets, TLAPS, SequenceTheorems

\* What send() transmits has the length asked for, and is the received data
\* as far as that goes.
LEMMA OutgoingBytes ==
  ASSUME NEW n \in Nat, buf \in Seq(Byte)
  PROVE  /\ Outgoing(n) \in Seq(Byte \cup {Junk})
         /\ Len(Outgoing(n)) = n
         /\ \A k \in 1 .. n : k <= Len(buf) => Outgoing(n)[k] = buf[k]
<1>1. Outgoing(n) \in [1 .. n -> Byte \cup {Junk}]
  BY ElementOfSeq, LenProperties DEF Outgoing
<1>2. Outgoing(n) \in Seq(Byte \cup {Junk})
  BY <1>1, SeqDef
<1>3. Len(Outgoing(n)) = n
  BY <1>1, <1>2, LenProperties
<1> QED  BY <1>1, <1>2, <1>3 DEF Outgoing

\* After recv() the buffer starts with the bytes that were received, which
\* are the next ones of the client.
LEMMA ReceivedBytes ==
  ASSUME SocketsTypeOK, SocketsAssumption, NEW c \in Conn, RecvData(c)
  PROVE  /\ RecvCount(c) \in 1 .. BufSize
         /\ RecvCount(c) <= Avail(c)
         /\ buf' \in Seq(Byte)
         /\ RecvCount(c) <= Len(buf')
         /\ \A k \in 1 .. RecvCount(c) : buf'[k] = <<c, rcvd[c] + k>>
<1> DEFINE n == RecvCount(c)
           new == [k \in 1 .. n |-> <<c, rcvd[c] + k>>]
           rest == SubSeq(buf, n + 1, Len(buf))
<1>0. buf \in Seq(Byte) /\ Len(buf) \in Nat
  BY LenProperties DEF SocketsTypeOK
<1>1. /\ n \in 1 .. BufSize /\ n <= Avail(c)
      /\ rcvd[c] \in Nat /\ sent[c] \in 0 .. MaxBytes /\ MaxBytes \in Nat
  <2>1. /\ rcvd[c] \in Nat /\ sent[c] \in 0 .. MaxBytes /\ MaxBytes \in Nat
        /\ BufSize \in Nat \ {0}
    BY DEF SocketsTypeOK, SocketsAssumption
  <2>2. Avail(c) \in Int /\ Avail(c) > 0
    BY <2>1 DEF Avail, RecvData
  <2> QED  BY <2>1, <2>2 DEF RecvCount, Min2
<1>2. new \in [1 .. n -> Byte]
  BY <1>1 DEF Byte, Avail
<1> HIDE DEF n
<1>3. new \in Seq(Byte) /\ Len(new) = n
  BY <1>1, <1>2, SeqDef, LenProperties
<1>4. rest \in Seq(Byte) /\ Len(rest) \in Nat
  BY <1>0, <1>1, SubSeqProperties, LenProperties, EmptySeq
<1>5. buf' = new \o rest
  BY DEF RecvData, n
<1>6. buf' \in Seq(Byte) /\ Len(buf') = n + Len(rest)
      /\ \A k \in 1 .. n : buf'[k] = new[k]
  <2> HIDE DEF new, rest
  <2>1. /\ new \o rest \in Seq(Byte)
        /\ Len(new \o rest) = Len(new) + Len(rest)
        /\ \A i \in 1 .. Len(new) + Len(rest) :
             (new \o rest)[i] = IF i <= Len(new) THEN new[i] ELSE rest[i - Len(new)]
    BY <1>3, <1>4, ConcatProperties
  <2> QED  BY <2>1, <1>1, <1>3, <1>4, <1>5
<1>7. n <= Len(buf') /\ \A k \in 1 .. n : buf'[k] = <<c, rcvd[c] + k>>
  BY <1>1, <1>4, <1>6 DEF new
<1> QED  BY <1>1, <1>6, <1>7 DEF n

\* The bytes that a send() to a healthy connection takes.
LEMMA TakenCount ==
  ASSUME SocketsTypeOK, SocketsAssumption, NEW c \in Conn,
         NEW n \in Int, Room(c) > 0
  PROVE  /\ Min2(AsSize(n), Room(c)) \in Nat
         /\ Min2(AsSize(n), Room(c)) <= Room(c)
         /\ n \in Nat => Min2(AsSize(n), Room(c)) <= n
BY DEF SocketsTypeOK, SocketsAssumption, Room, Min2, AsSize

\* The echo after a send() to a healthy connection with room.
LEMMA SendTakes ==
  ASSUME NEW c \in Conn, NEW n, Send(c, n),
         peer[c] \in {"up", "fin"}, Room(c) > 0
  PROVE  echo' = [echo EXCEPT
                    ![c] = echo[c] \o Outgoing(Min2(AsSize(n), Room(c)))]
BY DEF Send

\* A send() to a socket appends to the echo of its client a prefix, which may
\* be empty, of the n bytes asked for, provided they have been received.
LEMMA SendAppends ==
  ASSUME SocketsTypeOK, SocketsAssumption, NEW c \in Conn, NEW n \in Nat,
         n <= Len(buf), Send(c, n)
  PROVE  \E piece \in Seq(Byte \cup {Junk}) :
           /\ Len(piece) <= n
           /\ \A k \in 1 .. Len(piece) : piece[k] = buf[k]
           /\ echo' = [echo EXCEPT ![c] = echo[c] \o piece]
<1>0. Len(buf) \in Nat
  BY LenProperties DEF SocketsTypeOK
<1>1. CASE UNCHANGED echo
  <2>1. << >> \in Seq(Byte \cup {Junk}) /\ Len(<< >>) = 0
    BY EmptySeq
  <2>2. echo[c] \o << >> = echo[c] /\ echo \in [Conn -> Seq(Byte \cup {Junk})]
    BY ConcatEmptySeq DEF SocketsTypeOK
  <2>3. echo' = [echo EXCEPT ![c] = echo[c] \o << >>]
    BY <1>1, <2>2
  <2> WITNESS << >> \in Seq(Byte \cup {Junk})
  <2> QED  BY <2>1, <2>3
<1>2. CASE peer[c] \in {"up", "fin"} /\ Room(c) > 0
  <2> DEFINE m == Min2(AsSize(n), Room(c))
  <2>1. m \in Nat /\ m <= n
    BY <1>2, TakenCount
  <2>2. echo' = [echo EXCEPT ![c] = echo[c] \o Outgoing(m)]
    BY <1>2, SendTakes
  <2> HIDE DEF m
  <2>3. /\ Outgoing(m) \in Seq(Byte \cup {Junk}) /\ Len(Outgoing(m)) = m
        /\ \A k \in 1 .. m : k <= Len(buf) => Outgoing(m)[k] = buf[k]
    BY <2>1, OutgoingBytes DEF SocketsTypeOK
  <2>4. \A k \in 1 .. m : Outgoing(m)[k] = buf[k]
    BY <1>0, <2>1, <2>3
  <2> QED  BY <2>1, <2>2, <2>3, <2>4
<1> QED  BY <1>1, <1>2 DEF Send

\* A stream that is in order up to base stays in order when the bytes that
\* follow base are appended.
LEMMA AppendInOrder ==
  ASSUME NEW c, NEW old \in Seq(Byte \cup {Junk}),
         NEW piece \in Seq(Byte \cup {Junk}), NEW base \in Nat, NEW top \in Nat,
         base + Len(piece) <= top,
         \A i \in 1 .. Len(old) : old[i][1] = c /\ old[i][2] \in 1 .. base,
         \A i, j \in 1 .. Len(old) : i < j => old[i][2] < old[j][2],
         \A k \in 1 .. Len(piece) : piece[k] = <<c, base + k>>
  PROVE  /\ \A i \in 1 .. Len(old \o piece) :
              (old \o piece)[i][1] = c /\ (old \o piece)[i][2] \in 1 .. top
         /\ \A i, j \in 1 .. Len(old \o piece) :
              i < j => (old \o piece)[i][2] < (old \o piece)[j][2]
<1> DEFINE m == Len(piece)
           n == Len(old)
           new == old \o piece
<1>1. n \in Nat /\ m \in Nat
  BY LenProperties
<1>2. /\ Len(new) = n + m
      /\ \A i \in 1 .. n + m : new[i] = IF i <= n THEN old[i] ELSE piece[i - n]
  BY ConcatProperties
<1>3. \A k \in 1 .. m : piece[k][1] = c /\ piece[k][2] = base + k
  OBVIOUS
<1>4. /\ \A i \in 1 .. n : old[i][1] = c /\ old[i][2] \in 1 .. base
      /\ \A i, j \in 1 .. n : i < j => old[i][2] < old[j][2]
      /\ base + m <= top
  OBVIOUS
<1> HIDE DEF m, n, new
<1>5. ASSUME NEW i \in 1 .. n + m
      PROVE  new[i][1] = c /\ new[i][2] \in 1 .. top
  <2>1. CASE i <= n  BY <1>1, <1>2, <1>4, <2>1
  <2>2. CASE i > n
    <3>1. i - n \in 1 .. m /\ new[i] = piece[i - n]
      BY <1>1, <1>2, <2>2
    <3>2. new[i][1] = c /\ new[i][2] = base + (i - n)
      BY <1>3, <3>1
    <3> QED  BY <1>1, <1>4, <3>1, <3>2
  <2> QED  BY <1>1, <2>1, <2>2
<1>6. ASSUME NEW i \in 1 .. n + m, NEW j \in 1 .. n + m, i < j
      PROVE  new[i][2] < new[j][2]
  <2>1. CASE j <= n  BY <1>1, <1>2, <1>4, <1>6, <2>1
  <2>2. CASE j > n /\ i <= n
    <3>1. j - n \in 1 .. m /\ new[j] = piece[j - n]
      BY <1>1, <1>2, <2>2
    <3>2. new[j][2] = base + (j - n)
      BY <1>3, <3>1
    <3>3. new[i][2] \in 1 .. base
      BY <1>1, <1>2, <1>4, <2>2
    <3> QED  BY <1>1, <3>1, <3>2, <3>3
  <2>3. CASE i > n
    <3>1. /\ i - n \in 1 .. m /\ new[i] = piece[i - n]
          /\ j - n \in 1 .. m /\ new[j] = piece[j - n]
      BY <1>1, <1>2, <1>6, <2>3
    <3>2. new[i][2] = base + (i - n) /\ new[j][2] = base + (j - n)
      BY <1>3, <3>1
    <3> QED  BY <1>1, <1>6, <3>2
  <2> QED  BY <1>1, <2>1, <2>2, <2>3
<1> QED  BY <1>2, <1>5, <1>6 DEF new

(***************************************************************************)
(* Every call and every client step keeps the types.                       *)
(***************************************************************************)

\* The types hold at the start.
LEMMA InitType == SocketsAssumption /\ SocketsInit => SocketsTypeOK
BY EmptySeq DEF SocketsAssumption, SocketsInit, SocketsTypeOK, PeerState

\* What clients do keeps the types.
LEMMA ClientType ==
  ASSUME SocketsTypeOK, SocketsAssumption, ClientStep
  PROVE  SocketsTypeOK'
<1> PICK c \in Conn : \/ Connect(c) \/ ClientSend(c) \/ ClientRead(c)
                      \/ ClientShutdown(c) \/ ClientReset(c) \/ AbortQueued(c)
  BY DEF ClientStep
<1> USE DEF SocketsTypeOK, SocketsAssumption, PeerState
<1>1. CASE Connect(c)  BY <1>1 DEF Connect
<1>2. CASE ClientSend(c)  BY <1>2 DEF ClientSend
<1>3. CASE ClientRead(c)
  <2> PICK left \in 0 .. unread[c] - 1 : unread' = [unread EXCEPT ![c] = left]
    BY <1>3 DEF ClientRead
  <2> left \in 0 .. SndBuf  OBVIOUS
  <2> QED  BY <1>3 DEF ClientRead
<1>4. CASE ClientShutdown(c)  BY <1>4 DEF ClientShutdown
<1>5. CASE ClientReset(c)  BY <1>5 DEF ClientReset
<1>6. CASE AbortQueued(c)  BY <1>6 DEF AbortQueued
<1> QED  BY <1>1, <1>2, <1>3, <1>4, <1>5, <1>6

\* accept() keeps the types.
LEMMA AcceptType ==
  ASSUME SocketsTypeOK, NEW s \in FD \cup {-1}, AcceptNonblock(s)
  PROVE  SocketsTypeOK'
BY DEF SocketsTypeOK, AcceptNonblock, FreeFds, OpenFds

\* recv() of data keeps the types.
LEMMA RecvDataType ==
  ASSUME SocketsTypeOK, SocketsAssumption, NEW c \in Conn, RecvData(c)
  PROVE  SocketsTypeOK'
<1>1. buf' \in Seq(Byte) /\ RecvCount(c) \in Nat /\ RecvCount(c) <= Avail(c)
  BY ReceivedBytes DEF SocketsAssumption
<1>2. rcvd[c] + RecvCount(c) \in 0 .. MaxBytes
  BY <1>1 DEF SocketsTypeOK, SocketsAssumption, Avail
<1> QED  BY <1>1, <1>2 DEF SocketsTypeOK, RecvData

\* A failing recv() keeps the types.
LEMMA RecvErrorType ==
  ASSUME SocketsTypeOK, NEW c \in Conn, RecvError(c)
  PROVE  SocketsTypeOK'
BY DEF SocketsTypeOK, RecvError, PeerState

\* send() keeps the types.
LEMMA SendType ==
  ASSUME SocketsTypeOK, SocketsAssumption, NEW c \in Conn, NEW n \in Int,
         Send(c, n)
  PROVE  SocketsTypeOK'
<1>1. CASE peer[c] \in {"rst", "gone"}
  BY <1>1 DEF SocketsTypeOK, Send, PeerState
<1>2. CASE peer[c] \in {"up", "fin"} /\ Room(c) = 0
  BY <1>2 DEF SocketsTypeOK, Send
<1>3. CASE peer[c] \in {"up", "fin"} /\ Room(c) > 0
  <2> DEFINE taken == Min2(AsSize(n), Room(c))
  <2>1. taken \in Nat /\ taken <= Room(c)
    BY <1>3, TakenCount
  <2>2. unread[c] + taken \in 0 .. SndBuf
    BY <2>1 DEF Room, SocketsTypeOK, SocketsAssumption
  <2>3. Outgoing(taken) \in Seq(Byte \cup {Junk})
    BY <2>1, OutgoingBytes DEF SocketsTypeOK
  <2>4. echo[c] \o Outgoing(taken) \in Seq(Byte \cup {Junk})
    BY <2>3, ConcatProperties DEF SocketsTypeOK
  <2>5. /\ echo' = [echo EXCEPT ![c] = echo[c] \o Outgoing(taken)]
        /\ unread' = [unread EXCEPT ![c] = unread[c] + taken]
        /\ UNCHANGED <<peer, backlog, fdt, sent, rcvd, errno, buf>>
    BY <1>3 DEF Send
  <2> HIDE DEF taken
  <2> QED  BY <2>2, <2>4, <2>5 DEF SocketsTypeOK
<1> QED  BY <1>1, <1>2, <1>3 DEF Send

\* close() keeps the types.
LEMMA CloseType ==
  ASSUME SocketsTypeOK, NEW fd \in FD, Close(fd)
  PROVE  SocketsTypeOK'
BY DEF SocketsTypeOK, Close, PeerState
=============================================================================
