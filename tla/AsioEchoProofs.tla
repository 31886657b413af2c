--------------------------- MODULE AsioEchoProofs ---------------------------
(***************************************************************************)
(* Proofs about AsioEcho for every set of connections and of addresses,    *)
(* every stream length, buffer and kernel buffer.                          *)
(*                                                                         *)
(* The order of the queue matters to none of them: the lemmas about Append *)
(* and Tail replace the queue by the set of its handlers, of which each    *)
(* session has at most one.                                                *)
(***************************************************************************)
EXTENDS AsioEcho, TLAPS, SequenceTheorems, FiniteSetTheorems

(***************************************************************************)
(* The queue of handlers.                                                  *)
(***************************************************************************)

Elements(q) == {q[k] : k \in 1 .. Len(q)}
OneEach(q) == \A j, k \in 1 .. Len(q) : q[j].ses = q[k].ses => j = k

\* A handler of a session that has none in the queue is appended.
LEMMA AppendQueue ==
  ASSUME NEW q \in Seq(Handler), OneEach(q), NEW h \in Handler,
         \A x \in Elements(q) : x.ses # h.ses
  PROVE  /\ Append(q, h) \in Seq(Handler) /\ OneEach(Append(q, h))
         /\ Elements(Append(q, h)) = Elements(q) \cup {h}
<1>1. /\ Append(q, h) \in Seq(Handler)
      /\ Len(Append(q, h)) = Len(q) + 1 /\ Len(q) \in Nat
      /\ \A k \in 1 .. Len(q) : Append(q, h)[k] = q[k]
      /\ Append(q, h)[Len(q) + 1] = h
  BY AppendProperties, LenProperties
<1> DEFINE a == Append(q, h)
<1> HIDE DEF a
<1>2. \A k \in 1 .. Len(a) : k = Len(q) + 1 \/ k \in 1 .. Len(q)
  BY <1>1 DEF a
<1>3. Elements(a) = Elements(q) \cup {h}
  <2>1. Elements(a) \subseteq Elements(q) \cup {h}
    BY <1>1, <1>2 DEF Elements, a
  <2>2. \A k \in 1 .. Len(q) : k \in 1 .. Len(a) /\ a[k] = q[k]
    BY <1>1 DEF a
  <2>3. Elements(q) \subseteq Elements(a)
    BY <2>2 DEF Elements
  <2>4. Len(q) + 1 \in 1 .. Len(a) /\ a[Len(q) + 1] = h
    BY <1>1 DEF a
  <2>5. h \in Elements(a)
    BY <2>4 DEF Elements
  <2> QED  BY <2>1, <2>3, <2>5
<1>4. OneEach(a)
  <2> SUFFICES ASSUME NEW j \in 1 .. Len(a), NEW k \in 1 .. Len(a),
                      a[j].ses = a[k].ses
               PROVE  j = k
    BY DEF OneEach
  <2>1. \A i \in 1 .. Len(q) : a[i] = q[i] /\ q[i] \in Elements(q)
    BY <1>1 DEF a, Elements
  <2> QED  BY <1>1, <1>2, <2>1 DEF OneEach, a
<1> QED  BY <1>1, <1>3, <1>4 DEF a

\* The first handler leaves, and its session has no other.
LEMMA TailQueue ==
  ASSUME NEW q \in Seq(Handler), OneEach(q), q # <<>>
  PROVE  /\ Tail(q) \in Seq(Handler) /\ OneEach(Tail(q))
         /\ Head(q) \in Handler /\ Head(q) \in Elements(q)
         /\ Elements(Tail(q)) = {x \in Elements(q) : x.ses # Head(q).ses}
<1>1. /\ Head(q) \in Handler /\ Tail(q) \in Seq(Handler)
      /\ Len(Tail(q)) = Len(q) - 1
      /\ \A i \in 1 .. Len(Tail(q)) : Tail(q)[i] = q[i + 1]
  BY HeadTailProperties
<1>2. Len(q) \in Nat /\ Len(q) > 0 /\ Head(q) = q[1]
  BY EmptySeq
<1> DEFINE t == Tail(q)
<1> HIDE DEF t
<1>3. \A i \in 1 .. Len(t) : i + 1 \in 1 .. Len(q) /\ t[i] = q[i + 1] /\ i + 1 # 1
  BY <1>1, <1>2 DEF t
<1>4. 1 \in 1 .. Len(q)
  BY <1>2
<1>5. OneEach(t)
  <2> SUFFICES ASSUME NEW j \in 1 .. Len(t), NEW k \in 1 .. Len(t),
                      t[j].ses = t[k].ses
               PROVE  j = k
    BY DEF OneEach
  <2>1. j + 1 = k + 1
    BY <1>3 DEF OneEach
  <2> QED  BY <2>1
<1>6. \A x \in Elements(t) : x \in Elements(q) /\ x.ses # Head(q).ses
  <2> SUFFICES ASSUME NEW i \in 1 .. Len(t)
               PROVE  t[i] \in Elements(q) /\ t[i].ses # q[1].ses
    BY <1>2 DEF Elements
  <2> QED  BY <1>3, <1>4 DEF OneEach, Elements
<1>7. \A x \in Elements(q) : x.ses # Head(q).ses => x \in Elements(t)
  <2> SUFFICES ASSUME NEW k \in 1 .. Len(q), q[k].ses # q[1].ses
               PROVE  q[k] \in Elements(t)
    BY <1>2 DEF Elements
  <2>1. k # 1 /\ k - 1 \in 1 .. Len(t) /\ (k - 1) + 1 = k
    BY <1>1, <1>2 DEF t
  <2>2. t[k - 1] = q[k]
    BY <1>3, <2>1
  <2> QED  BY <2>1, <2>2 DEF Elements
<1>8. Head(q) \in Elements(q)
  BY <1>2, <1>4 DEF Elements
<1> QED  BY <1>1, <1>5, <1>6, <1>7, <1>8 DEF t

\* A session whose handler is called has nothing else going on, so there is
\* nothing to cancel when it is deleted.
LEMMA NothingCancelled ==
  ASSUME NEW q \in Seq(Handler)
  PROVE  q \o SetToSeq({}) = q
<1>1. Cardinality({}) = 0
  BY FS_EmptySet
<1>2. [1 .. 0 -> {}] = {<<>>}
  <2>1. <<>> \in [1 .. 0 -> {}]
    BY EmptySeq, LenProperties
  <2>2. ASSUME NEW f \in [1 .. 0 -> {}]  PROVE f = <<>>
    <3>1. f \in Seq({})
      BY SeqDef
    <3>2. Len(f) \in Nat /\ 1 .. Len(f) = 1 .. 0
      BY <3>1, LenProperties
    <3>3. Len(f) = 0
      BY <3>2
    <3> QED  BY <3>1, <3>3, EmptySeq
  <2> QED  BY <2>1, <2>2
<1>3. IsInjective(<<>>)
  BY DEF IsInjective
<1>4. SetToSeq({}) = <<>>
  BY <1>1, <1>2, <1>3 DEF SetToSeq
<1> QED  BY <1>4, ConcatEmptySeq

\* What a read takes: at least a byte, at most the buffer, and what is there.
LEMMA ReadFacts ==
  ASSUME TypeOK, NEW c \in Conn, ReadCount(c) > 0
  PROVE  /\ ReadCount(c) \in 1 .. BufSize /\ rcvd[c] \in Nat /\ sent[c] \in Nat
         /\ rcvd[c] + ReadCount(c) <= sent[c] /\ sent[c] <= MaxBytes
<1>1. /\ rcvd[c] \in Nat /\ sent[c] \in 0 .. MaxBytes
      /\ MaxBytes \in Nat /\ BufSize \in Nat \ {0}
  BY AsioAssumption DEF TypeOK, AsioAssumption
<1>2. ReadCount(c) = IF sent[c] - rcvd[c] < BufSize THEN sent[c] - rcvd[c] ELSE BufSize
  BY DEF ReadCount, Net!Min2, Net!Avail
<1> QED  BY <1>1, <1>2

(***************************************************************************)
(* Sessions, operations and connections, with the queue as a set.          *)
(***************************************************************************)

\* A queue as the set of its handlers.
LEMMA QueueView ==
  ASSUME NEW q, NEW s, NEW op
  PROVE  /\ (\E k \in 1 .. Len(q) : q[k].ses = s) <=> \E h \in Elements(q) : h.ses = s
         /\ (\E k \in 1 .. Len(q) : q[k].ses = s /\ q[k].op = op)
              <=> \E h \in Elements(q) : h.ses = s /\ h.op = op
BY DEF Elements

\* A queue holds handlers.
LEMMA QueueSessions ==
  ASSUME NEW q \in Seq(Handler)
  PROVE  Elements(q) \subseteq Handler
BY ElementOfSeq DEF Elements

\* The invariant has in it what is promised of operations, sessions and
\* connections.
LEMMA Promised ==
  ASSUME TypeOK, Alone, Linked
  PROVE  OneOperation /\ SessionsAreConnections
<1>2. /\ Queue = Elements(ready)
      /\ \A s : Waits(s) <=> \E h \in Queue : h.ses = s
      /\ \A s : Accepting(s) <=> Awaits(s)
  BY QueueView DEF Queue, Elements, Waits, Accepting, Awaits
<1>3. OneOperation
  BY <1>2 DEF OneOperation, Alone
<1>4. AlwaysAccepting
  BY <1>2 DEF AlwaysAccepting, Alone
<1>5. {socket_[s] : s \in Connected} = {c \in Conn \ backlog : peer[c] \notin {"none", "closed"}}
  <2>1. \A s \in live : s \in Session /\ socket_[s] \in Conn \cup {NoConn}
    BY DEF TypeOK
  <2>2. \A s \in Connected : socket_[s] \in {c \in Conn \ backlog : peer[c] \notin {"none", "closed"}}
    BY <2>1 DEF Linked, Connected
  <2>3. \A c \in Conn \ backlog :
          peer[c] \notin {"none", "closed"} => \E s \in Connected : socket_[s] = c
    BY AsioAssumption DEF Linked, Connected, AsioAssumption
  <2> QED  BY <2>2, <2>3
<1> QED
  BY <1>3, <1>4, <1>5 DEF SessionsAreConnections, Linked, Connected

(***************************************************************************)
(* What completion and the call of a handler do to operations and queue.   *)
(***************************************************************************)

\* The call that the completion of an operation puts into the queue.
Call(s, op, error, bytes) == [op |-> op, ses |-> s, error |-> error, bytes |-> bytes]

\* What the completion of an operation does: its session waits for that operation
\* alone, and now for its handler.
LEMMA Completion ==
  ASSUME TypeOK, Alone, NEW s \in Session, NEW op \in Operation, op \in ops[s],
         NEW error \in BOOLEAN, NEW bytes \in 0 .. BufSize,
         Complete(s, op, error, bytes)
  PROVE  /\ s \in live /\ ops[s] = {op} /\ \A x \in Queue : x.ses # s
         /\ ops' = [ops EXCEPT ![s] = {}] /\ ops' \in [Session -> SUBSET Operation]
         /\ ready' \in Seq(Handler) /\ OneEach(ready')
         /\ Queue' = Queue \cup {Call(s, op, error, bytes)}
<1>1. s \in live /\ ops[s] = {op} /\ \A x \in Queue : x.ses # s
  <2>1. s \in live /\ \A x \in Queue : x.ses # s
    BY DEF Alone
  <2>2. \E o \in Operation : ops[s] = {o}
    BY <2>1 DEF Alone
  <2> QED  BY <2>1, <2>2
<1>2. ops' = [ops EXCEPT ![s] = {}] /\ ops' \in [Session -> SUBSET Operation]
  BY <1>1 DEF Complete, TypeOK
<1> DEFINE h == Call(s, op, error, bytes)
<1>3. h \in Handler /\ h.ses = s
  BY DEF Handler, Call
<1>4. ready' = Append(ready, h)
  BY DEF Complete, Call
<1> HIDE DEF h
<1>5. ready \in Seq(Handler) /\ OneEach(ready) /\ Queue = Elements(ready)
  BY DEF TypeOK, Alone, OneEach, Queue, Elements
<1>6. /\ Append(ready, h) \in Seq(Handler) /\ OneEach(Append(ready, h))
      /\ Elements(Append(ready, h)) = Elements(ready) \cup {h}
  BY <1>1, <1>3, <1>5, AppendQueue
<1>7. Queue' = Elements(ready')
  BY DEF Queue, Elements
<1>8. Queue' = Queue \cup {h}
  BY <1>4, <1>5, <1>6, <1>7
<1> QED  BY <1>1, <1>2, <1>4, <1>6, <1>8 DEF h

\* The handler that is called is that of a session that lives and has no operation.
LEMMA Calling ==
  ASSUME TypeOK, Alone, ready # <<>>
  PROVE  /\ Head(ready) \in Handler /\ Head(ready) \in Queue
         /\ Callee \in live /\ Callee \in Session /\ ops[Callee] = {}
         /\ Tail(ready) \in Seq(Handler) /\ OneEach(Tail(ready))
         /\ Elements(Tail(ready)) = {x \in Queue : x.ses # Callee}
<1>1. ready \in Seq(Handler) /\ OneEach(ready) /\ Queue = Elements(ready)
  BY DEF TypeOK, Alone, OneEach, Queue, Elements
<1>2. /\ Tail(ready) \in Seq(Handler) /\ OneEach(Tail(ready))
      /\ Head(ready) \in Handler /\ Head(ready) \in Queue
      /\ Elements(Tail(ready)) = {x \in Queue : x.ses # Callee}
  BY <1>1, TailQueue DEF Callee
<1>3. Callee \in live /\ Callee \in Session /\ ops[Callee] = {}
  BY <1>2 DEF Alone, Callee, TypeOK
<1> QED  BY <1>2, <1>3

\* Deleting the session whose handler is called cancels nothing.
LEMMA Destroying ==
  ASSUME TypeOK, Alone, ready # <<>>, Destroy(Callee)
  PROVE  ready' = Tail(ready)
<1>1. {[op |-> op, ses |-> Callee, error |-> TRUE, bytes |-> 0] : op \in ops[Callee]} = {}
  BY Calling
<1>2. ready' = Tail(ready) \o SetToSeq({})
  BY <1>1 DEF Destroy
<1> QED  BY <1>2, Calling, NothingCancelled

(***************************************************************************)
(* Operations and sessions.                                                *)
(***************************************************************************)

\* A completion.
LEMMA AloneCompletion ==
  ASSUME TypeOK, Alone, UNCHANGED live,
         NEW s \in Session, NEW op \in Operation, op \in ops[s],
         NEW error \in BOOLEAN, NEW bytes \in 0 .. BufSize,
         Complete(s, op, error, bytes),
         \A t \in Session \ live : socket_'[t] = NoConn
  PROVE  Alone'
<1> DEFINE h == Call(s, op, error, bytes)
<1>2. h.ses = s /\ h.op = op
  BY DEF Call
<1>1. /\ s \in live /\ ops[s] = {op} /\ \A x \in Queue : x.ses # s
      /\ ops' = [ops EXCEPT ![s] = {}] /\ OneEach(ready')
      /\ Queue' = Queue \cup {h}
  BY Completion
<1> HIDE DEF h
<1>3. \A t \in Session : ops'[t] = IF t = s THEN {} ELSE ops[t]
  BY <1>1 DEF TypeOK
<1>4. live \subseteq Session
  BY DEF TypeOK
<1>5. \A t \in live : Awaits(t)' <=> Awaits(t)
  BY <1>1, <1>2, <1>3, <1>4 DEF Awaits
<1>6. /\ \A x \in Queue' : x.ses \in live /\ ops'[x.ses] = {}
      /\ \A t \in live : (\E x \in Queue' : x.ses = t) \/ \E o \in Operation : ops'[t] = {o}
      /\ \A t \in Session \ live : ops'[t] = {}
  BY <1>1, <1>2, <1>3, <1>4 DEF Alone
<1> QED  BY <1>1, <1>5, <1>6 DEF Alone, OneEach

\* A handler starts the next operation of its session.
LEMMA AloneContinue ==
  ASSUME TypeOK, Alone, ready # <<>>, Head(ready).op # "accept",
         NEW op \in {"read", "write"}, Continue(op)
  PROVE  Alone'
<1>1. /\ Callee \in live /\ ops[Callee] = {} /\ OneEach(ready')
      /\ Queue' = {x \in Queue : x.ses # Callee}
      /\ Head(ready) \in Queue
  BY Calling DEF Continue, Queue, Elements
<1>2. UNCHANGED <<live, socket_>>
  BY DEF Continue
<1>3. \A t \in Session : ops'[t] = IF t = Callee THEN {op} ELSE ops[t]
  BY <1>1 DEF TypeOK, Continue
<1>4. live \subseteq Session
  BY DEF TypeOK
<1>5. \A x \in Queue : x.ses = Callee => x.op # "accept"
  <2>1. \A x, y \in Queue : x.ses = y.ses => x = y
    BY DEF Alone, Queue
  <2> QED  BY <1>1, <2>1 DEF Callee
<1>6. \A t \in live : Awaits(t)' <=> Awaits(t)
  BY <1>1, <1>3, <1>4, <1>5 DEF Awaits
<1>7. /\ \A x \in Queue' : x.ses \in live /\ ops'[x.ses] = {}
      /\ \A t \in live : (\E x \in Queue' : x.ses = t) \/ \E o \in Operation : ops'[t] = {o}
      /\ \A t \in Session \ live : ops'[t] = {} /\ socket_[t] = NoConn
  BY <1>1, <1>3, <1>4 DEF Alone, Operation
<1> QED  BY <1>1, <1>2, <1>6, <1>7 DEF Alone, OneEach

\* The other handlers than that of accept belong to sessions that do not wait
\* for a client.
LEMMA OneHandler ==
  ASSUME TypeOK, Alone, ready # <<>>
  PROVE  /\ \A x \in Queue : x.ses = Callee => x = Head(ready)
         /\ Awaits(Callee) <=> Head(ready).op = "accept"
<1>1. \A x, y \in Queue : x.ses = y.ses => x = y
  BY DEF Alone, Queue
<1>2. Head(ready) \in Queue /\ Head(ready).ses = Callee /\ ops[Callee] = {}
  BY Calling DEF Callee
<1> QED  BY <1>1, <1>2 DEF Awaits

\* A session whose operation failed deletes itself.
LEMMA AloneDelete ==
  ASSUME TypeOK, Alone, ready # <<>>, Head(ready).op # "accept", DeleteThis
  PROVE  Alone'
<1>1. /\ Callee \in live /\ ops[Callee] = {} /\ OneEach(ready')
      /\ Queue' = {x \in Queue : x.ses # Callee}
  BY Calling, Destroying DEF DeleteThis, Queue, Elements
<1>2. /\ live' = live \ {Callee} /\ live \subseteq Session
      /\ ops' = ops
      /\ \A t \in Session : socket_'[t] = IF t = Callee THEN NoConn ELSE socket_[t]
  BY <1>1 DEF TypeOK, DeleteThis, Destroy
<1>3. ~Awaits(Callee)
  BY OneHandler
<1>4. \A t \in live \ {Callee} : Awaits(t)' <=> Awaits(t)
  BY <1>1, <1>2 DEF Awaits
<1>5. \E s \in live' : Awaits(s)' /\ \A t \in live' \ {s} : ~Awaits(t)'
  BY <1>2, <1>3, <1>4 DEF Alone
<1>6. /\ \A x \in Queue' : x.ses \in live' /\ ops'[x.ses] = {}
      /\ \A t \in live' : (\E x \in Queue' : x.ses = t) \/ \E o \in Operation : ops'[t] = {o}
      /\ \A t \in Session \ live' : ops'[t] = {} /\ socket_'[t] = NoConn
  BY <1>1, <1>2 DEF Alone
<1> QED  BY <1>1, <1>5, <1>6 DEF Alone, OneEach

\* accept: a new session waits for the next client, in place of this one.
LEMMA AloneAccept ==
  ASSUME TypeOK, Alone, HandleAccept
  PROVE  Alone'
<1>0. ready # <<>> /\ Head(ready).op = "accept"
  BY DEF HandleAccept, Called
<1>1. /\ Callee \in live /\ Callee \in Session /\ ops[Callee] = {} /\ OneEach(ready')
      /\ Queue' = {x \in Queue : x.ses # Callee}
  BY <1>0, Calling, Destroying DEF HandleAccept, Queue, Elements
<1>2. Awaits(Callee) /\ \A t \in live \ {Callee} : ~Awaits(t)
  BY <1>0, <1>1, OneHandler DEF Alone
<1>3. live \subseteq Session /\ ops \in [Session -> SUBSET Operation]
  BY DEF TypeOK
<1>4. CASE ~Head(ready).error
  <2>1. PICK s \in Session \ live :
          /\ live' = live \cup {s}
          /\ ops' = [[ops EXCEPT ![Callee] = @ \cup {"read"}] EXCEPT ![s] = @ \cup {"accept"}]
    BY <1>4 DEF HandleAccept, StartAccept
  <2>2. UNCHANGED socket_
    BY <1>4 DEF HandleAccept
  <2>3. ops[s] = {} /\ s # Callee
    BY <1>1 DEF Alone
  <2>4. \A t \in Session : ops'[t] = IF t = s THEN {"accept"}
                                     ELSE IF t = Callee THEN {"read"} ELSE ops[t]
    BY <1>1, <1>3, <2>1, <2>3
  <2>5. \A x \in Queue : x.ses # s
    BY DEF Alone
  <2>6. Awaits(s)' /\ \A t \in live : ~Awaits(t)'
    BY <1>1, <1>2, <1>3, <2>3, <2>4 DEF Awaits
  <2>7. /\ \A x \in Queue' : x.ses \in live' /\ ops'[x.ses] = {}
        /\ \A t \in live' : (\E x \in Queue' : x.ses = t) \/ \E o \in Operation : ops'[t] = {o}
        /\ \A t \in Session \ live' : ops'[t] = {} /\ socket_'[t] = NoConn
    BY <1>1, <1>3, <2>1, <2>2, <2>4, <2>5 DEF Alone, Operation
  <2> QED  BY <1>1, <2>1, <2>6, <2>7 DEF Alone, OneEach
<1>5. CASE Head(ready).error
  <2>1. PICK s \in Session \ (live \ {Callee}) :
          /\ live' = (live \ {Callee}) \cup {s}
          /\ ops' = [[ops EXCEPT ![Callee] = {}] EXCEPT ![s] = @ \cup {"accept"}]
    BY <1>5 DEF HandleAccept, StartAccept
  <2>2. \A t \in Session : socket_'[t] = IF t = Callee THEN NoConn ELSE socket_[t]
    BY <1>1, <1>5 DEF HandleAccept, Destroy, TypeOK
  <2>3. ops[s] = {}
    BY <1>1 DEF Alone
  <2>4. \A t \in Session : ops'[t] = IF t = s THEN {"accept"} ELSE ops[t]
    BY <1>1, <1>3, <2>1, <2>3
  <2>5. \A x \in Queue' : x.ses # s
    BY <1>1 DEF Alone
  <2>6. Awaits(s)' /\ \A t \in live \ {Callee, s} : ~Awaits(t)'
    BY <1>1, <1>2, <1>3, <2>4 DEF Awaits
  <2>7. /\ \A x \in Queue' : x.ses \in live' /\ ops'[x.ses] = {}
        /\ \A t \in live' : (\E x \in Queue' : x.ses = t) \/ \E o \in Operation : ops'[t] = {o}
        /\ \A t \in Session \ live' : ops'[t] = {} /\ socket_'[t] = NoConn
    BY <1>1, <1>3, <2>1, <2>2, <2>4, <2>5 DEF Alone, Operation
  <2> QED  BY <1>1, <2>1, <2>6, <2>7 DEF Alone, OneEach
<1> QED  BY <1>4, <1>5

\* A step that touches no session.
LEMMA AloneStutter ==
  ASSUME Alone, UNCHANGED <<live, ops, ready, socket_>>
  PROVE  Alone'
BY DEF Alone, Awaits, Queue

\* A session that reads or writes has a connection.
LEMMA WithConn ==
  ASSUME TypeOK, Linked, NEW s \in Session, "read" \in ops[s] \/ "write" \in ops[s]
  PROVE  socket_[s] \in Conn
<1>1. ops[s] # {} /\ ops[s] # {"accept"}
  OBVIOUS
<1>2. socket_[s] # NoConn
  BY <1>1 DEF Linked
<1> QED  BY <1>2 DEF TypeOK

\* Every step keeps each session waiting for one thing.
LEMMA AloneStep ==
  ASSUME TypeOK, Alone, Linked, [Next]_vars
  PROVE  Alone'
<1>0. \A t \in Session \ live : socket_[t] = NoConn /\ ops[t] = {}
  BY DEF Alone
<1>a. /\ 0 \in 0 .. BufSize /\ TRUE \in BOOLEAN /\ FALSE \in BOOLEAN
      /\ "accept" \in Operation /\ "read" \in Operation /\ "write" \in Operation
  BY AsioAssumption DEF AsioAssumption, Operation
<1>1. ASSUME NEW s \in Session, AcceptDone(s)  PROVE Alone'
  <2>1. /\ "accept" \in ops[s] /\ Complete(s, "accept", FALSE, 0) /\ UNCHANGED live
        /\ \E c \in backlog : socket_' = [socket_ EXCEPT ![s] = c]
    BY <1>1 DEF AcceptDone
  <2>2. \A t \in Session \ live : socket_'[t] = NoConn
    BY <1>0, <2>1 DEF TypeOK
  <2> QED  BY <1>a, <2>1, <2>2, AloneCompletion
<1>2. ASSUME NEW s \in Session, AcceptFails(s)  PROVE Alone'
  <2>1. /\ "accept" \in ops[s] /\ Complete(s, "accept", TRUE, 0)
        /\ UNCHANGED <<live, socket_>>
    BY <1>2 DEF AcceptFails
  <2> QED  BY <1>0, <1>a, <2>1, AloneCompletion
<1>3. ASSUME NEW s \in Session, ReadDone(s)  PROVE Alone'
  <2>1. /\ "read" \in ops[s] /\ Complete(s, "read", FALSE, ReadCount(socket_[s]))
        /\ UNCHANGED <<live, socket_>>
    BY <1>3 DEF ReadDone
  <2>2. socket_[s] \in Conn /\ ReadCount(socket_[s]) > 0
    BY <1>3, <2>1, WithConn DEF ReadDone
  <2>3. ReadCount(socket_[s]) \in 0 .. BufSize
    BY <2>2, ReadFacts
  <2> QED  BY <1>0, <2>1, <2>3, <1>a, AloneCompletion
<1>4. ASSUME NEW s \in Session, ReadFails(s)  PROVE Alone'
  <2>1. /\ "read" \in ops[s] /\ Complete(s, "read", TRUE, 0)
        /\ UNCHANGED <<live, socket_>>
    BY <1>4 DEF ReadFails
  <2> QED  BY <1>0, <1>a, <2>1, AloneCompletion
<1>5. ASSUME NEW s \in Session, WriteSome(s)  PROVE Alone'
  <2>1. "write" \in ops[s] /\ UNCHANGED <<live, socket_>>
    BY <1>5 DEF WriteSome
  <2>2. CASE Complete(s, "write", FALSE, 0)
    BY <1>0, <1>a, <2>1, <2>2, AloneCompletion
  <2>3. CASE UNCHANGED <<ops, ready>>
    BY <2>1, <2>3, AloneStutter
  <2> QED  BY <1>5, <2>2, <2>3 DEF WriteSome
<1>6. ASSUME NEW s \in Session, WriteFails(s)  PROVE Alone'
  <2>1. /\ "write" \in ops[s] /\ Complete(s, "write", TRUE, 0)
        /\ UNCHANGED <<live, socket_>>
    BY <1>6 DEF WriteFails
  <2> QED  BY <1>0, <1>a, <2>1, AloneCompletion
<1>7. CASE HandleAccept
  BY <1>7, AloneAccept
<1>8. CASE HandleRead
  <2>1. ready # <<>> /\ Head(ready).op # "accept"
    BY <1>8 DEF HandleRead, Called
  <2> QED  BY <1>8, <2>1, AloneContinue, AloneDelete DEF HandleRead
<1>9. CASE HandleWrite
  <2>1. ready # <<>> /\ Head(ready).op # "accept"
    BY <1>9 DEF HandleWrite, Called
  <2> QED  BY <1>9, <2>1, AloneContinue, AloneDelete DEF HandleWrite
<1>10. CASE Clients
  <2>1. UNCHANGED <<live, ops, ready, socket_>>
    BY <1>10 DEF Clients, Net!ClientStep, Net!Connect, Net!ClientSend, Net!ClientRead,
                 Net!ClientShutdown, Net!ClientReset, Net!AbortQueued
  <2> QED  BY <2>1, AloneStutter
<1>11. CASE UNCHANGED vars
  BY <1>11, AloneStutter DEF vars
<1> QED
  BY <1>1, <1>2, <1>3, <1>4, <1>5, <1>6, <1>7, <1>8, <1>9, <1>10, <1>11
     DEF Next, Completes, Handles

(***************************************************************************)
(* Sessions and connections.                                               *)
(***************************************************************************)

\* A completion that leaves the sockets alone; a reset may be reported.
LEMMA LinkedCompletion ==
  ASSUME TypeOK, Alone, Linked, UNCHANGED <<live, socket_, backlog>>,
         NEW s \in Session, NEW op \in Operation, op \in ops[s],
         NEW error \in BOOLEAN, NEW bytes \in 0 .. BufSize, op = "accept" => error,
         Complete(s, op, error, bytes),
         \A c \in Conn : peer'[c] = peer[c] \/
           /\ c = socket_[s] /\ op # "accept"
           /\ peer[c] \in {"fin", "rst", "gone"} /\ peer'[c] \in {"fin", "gone"}
  PROVE  Linked'
<1> DEFINE h == Call(s, op, error, bytes)
<1>1. h.ses = s /\ h.op = op /\ h.error = error
  BY DEF Call
<1>2. /\ s \in live /\ ops[s] = {op}
      /\ ops' = [ops EXCEPT ![s] = {}] /\ Queue' = Queue \cup {h}
  BY Completion
<1> HIDE DEF h
<1>3. /\ live \subseteq Session /\ backlog \subseteq Conn
      /\ \A t \in Session : socket_[t] \in Conn \cup {NoConn}
      /\ \A t \in Session : ops'[t] = IF t = s THEN {} ELSE ops[t]
  BY <1>2 DEF TypeOK
<1>4. socket_[s] = NoConn <=> op = "accept"
  <2>1. ops[s] # {} /\ (ops[s] = {"accept"} <=> op = "accept")
    BY <1>2
  <2> QED  BY <2>1 DEF Linked
<1>5. \A x \in Queue' : socket_[x.ses] = NoConn <=> (x.op = "accept" /\ x.error)
  BY <1>1, <1>2, <1>4 DEF Linked
<1>6. \A c \in backlog : peer'[c] = peer[c]
  BY <1>2, <1>3, <1>4, AsioAssumption DEF Linked, AsioAssumption
<1>7. \A t \in live : socket_[t] # NoConn =>
        socket_[t] \notin backlog /\ peer'[socket_[t]] \in {"up", "fin", "rst", "gone"}
  BY <1>3 DEF Linked
<1>8. \A c \in Conn \ backlog :
        peer'[c] \notin {"none", "closed"} => \E t \in live : socket_[t] = c
  BY DEF Linked
<1> QED  BY <1>3, <1>5, <1>6, <1>7, <1>8 DEF Linked

\* A session gets a connection that waited.
LEMMA LinkedAcceptDone ==
  ASSUME TypeOK, Alone, Linked, NEW s \in Session, AcceptDone(s)
  PROVE  Linked'
<1> DEFINE h == Call(s, "accept", FALSE, 0)
<1>0. 0 \in 0 .. BufSize /\ FALSE \in BOOLEAN /\ "accept" \in Operation /\ NoConn \notin Conn
  BY AsioAssumption DEF Operation, AsioAssumption
<1>1. h.ses = s /\ h.op = "accept" /\ ~h.error
  BY DEF Call
<1>2. "accept" \in ops[s] /\ Complete(s, "accept", FALSE, 0)
  BY DEF AcceptDone
<1>3. /\ s \in live /\ ops[s] = {"accept"} /\ \A x \in Queue : x.ses # s
      /\ ops' = [ops EXCEPT ![s] = {}] /\ Queue' = Queue \cup {h}
  BY <1>0, <1>2, Completion
<1> HIDE DEF h
<1>4. PICK c \in backlog : backlog' = backlog \ {c} /\ socket_' = [socket_ EXCEPT ![s] = c]
  BY DEF AcceptDone
<1>5. /\ live \subseteq Session /\ backlog \subseteq Conn /\ c \in Conn /\ c # NoConn
      /\ \A t \in Session : socket_[t] \in Conn \cup {NoConn}
      /\ \A t \in Session : ops'[t] = IF t = s THEN {} ELSE ops[t]
      /\ \A t \in Session : socket_'[t] = IF t = s THEN c ELSE socket_[t]
      /\ \A x \in Queue : x.ses \in Session
      /\ UNCHANGED <<live, peer>>
  <2>1. \A x \in Queue : x.ses \in live
    BY DEF Alone
  <2> QED  BY <1>3, <1>4, <2>1, AsioAssumption DEF TypeOK, AsioAssumption, AcceptDone
<1>6. \A x \in Queue' : socket_'[x.ses] = NoConn <=> (x.op = "accept" /\ x.error)
  BY <1>1, <1>3, <1>5 DEF Linked
<1>7. \A t, u \in live' : socket_'[t] = socket_'[u] /\ socket_'[t] # NoConn => t = u
  BY <1>3, <1>4, <1>5 DEF Linked
<1>8. \A t \in live' : socket_'[t] # NoConn =>
        socket_'[t] \notin backlog' /\ peer'[socket_'[t]] \in {"up", "fin", "rst", "gone"}
  BY <1>3, <1>4, <1>5 DEF Linked
<1>9. \A d \in Conn \ backlog' :
        peer'[d] \notin {"none", "closed"} => \E t \in live' : socket_'[t] = d
  <2> SUFFICES ASSUME NEW d \in Conn \ backlog', peer'[d] \notin {"none", "closed"}
               PROVE  \E t \in live' : socket_'[t] = d
    OBVIOUS
  <2>1. CASE d = c
    BY <1>3, <1>5, <2>1
  <2>2. CASE d # c
    <3>1. PICK t \in live : socket_[t] = d
      BY <1>4, <1>5, <2>2 DEF Linked
    <3>2. socket_[s] = NoConn
      BY <1>3 DEF Linked
    <3> QED  BY <1>0, <1>5, <3>1, <3>2
  <2> QED  BY <2>1, <2>2
<1>10. \A t \in Session : ops'[t] # {} => (socket_'[t] = NoConn <=> ops'[t] = {"accept"})
  BY <1>5 DEF Linked
<1> QED  BY <1>4, <1>5, <1>6, <1>7, <1>8, <1>9, <1>10 DEF Linked

\* The session whose handler runs has a connection unless its accept failed.
LEMMA CalleeConn ==
  ASSUME TypeOK, Alone, Linked, ready # <<>>
  PROVE  /\ Callee \in live /\ Callee \in Session /\ Head(ready) \in Queue
         /\ socket_[Callee] \in Conn \cup {NoConn}
         /\ socket_[Callee] = NoConn <=> Head(ready).op = "accept" /\ Head(ready).error
BY Calling DEF Linked, Callee, TypeOK

\* The next operation of a session.
LEMMA LinkedContinue ==
  ASSUME TypeOK, Alone, Linked, ready # <<>>, Head(ready).op # "accept",
         NEW op \in {"read", "write"}, Continue(op), UNCHANGED backlog
  PROVE  Linked'
<1>1. /\ Callee \in live /\ ops[Callee] = {}
      /\ Queue' = {x \in Queue : x.ses # Callee}
  BY Calling DEF Continue, Queue, Elements
<1>2. UNCHANGED <<live, socket_, peer>>
  BY DEF Continue
<1>3. \A t \in Session : ops'[t] = IF t = Callee THEN {op} ELSE ops[t]
  BY <1>1 DEF TypeOK, Continue
<1>4. socket_[Callee] # NoConn /\ {op} # {"accept"}
  BY CalleeConn
<1>5. \A t \in Session : ops'[t] # {} => (socket_[t] = NoConn <=> ops'[t] = {"accept"})
  BY <1>3, <1>4 DEF Linked
<1> QED  BY <1>1, <1>2, <1>5 DEF Linked

\* A session and its connection end together.
LEMMA LinkedDelete ==
  ASSUME TypeOK, Alone, Linked, ready # <<>>, Head(ready).op # "accept",
         DeleteThis, UNCHANGED backlog
  PROVE  Linked'
<1> DEFINE c == socket_[Callee]
<1>1. /\ Callee \in live /\ ops[Callee] = {}
      /\ Queue' = {x \in Queue : x.ses # Callee}
  BY Calling, Destroying DEF DeleteThis, Queue, Elements
<1>2. /\ live' = live \ {Callee} /\ live \subseteq Session
      /\ ops' = ops
      /\ \A t \in Session : socket_'[t] = IF t = Callee THEN NoConn ELSE socket_[t]
      /\ \A d \in Conn : peer'[d] = IF d = c THEN "closed" ELSE peer[d]
      /\ \A t \in Session : socket_[t] \in Conn \cup {NoConn}
      /\ backlog \subseteq Conn
  BY <1>1 DEF TypeOK, DeleteThis, Destroy
<1>3. c \in Conn /\ c # NoConn
  BY CalleeConn, AsioAssumption DEF AsioAssumption
<1>4. c \notin backlog /\ \A t \in live : socket_[t] = c => t = Callee
  BY <1>1, <1>3 DEF Linked
<1> HIDE DEF c
<1>5. \A t, u \in live' : socket_'[t] = socket_'[u] /\ socket_'[t] # NoConn => t = u
  BY <1>2 DEF Linked
<1>6. \A t \in live' : socket_'[t] # NoConn =>
        socket_'[t] \notin backlog /\ peer'[socket_'[t]] \in {"up", "fin", "rst", "gone"}
  BY <1>2, <1>4 DEF Linked
<1>7. \A d \in Conn \ backlog :
        peer'[d] \notin {"none", "closed"} => \E t \in live' : socket_'[t] = d
  BY <1>2, c = socket_[Callee] DEF Linked, c
<1>8. \A t \in Session : ops'[t] # {} => (socket_'[t] = NoConn <=> ops'[t] = {"accept"})
  BY <1>1, <1>2 DEF Linked
<1>9. \A x \in Queue' : socket_'[x.ses] = NoConn <=> (x.op = "accept" /\ x.error)
  BY <1>1, <1>2 DEF Linked, Alone
<1>10. \A d \in backlog : peer'[d] \in {"up", "fin", "rst"}
  BY <1>2, <1>4 DEF Linked
<1> QED  BY <1>5, <1>6, <1>7, <1>8, <1>9, <1>10 DEF Linked

\* The session that waits for the next client has no connection.
LEMMA LinkedAccept ==
  ASSUME TypeOK, Alone, Linked, HandleAccept
  PROVE  Linked'
<1>0. ready # <<>> /\ Head(ready).op = "accept" /\ UNCHANGED backlog
  BY DEF HandleAccept, Called
<1>1. /\ Callee \in live /\ Callee \in Session /\ ops[Callee] = {}
      /\ Queue' = {x \in Queue : x.ses # Callee}
      /\ live \subseteq Session /\ ops \in [Session -> SUBSET Operation]
  <2>1. ready' = Tail(ready)
    BY <1>0, Destroying DEF HandleAccept
  <2> QED  BY <1>0, <2>1, Calling DEF Queue, Elements, TypeOK
<1>2. \A x \in Queue : x.ses \in Session
  BY <1>1 DEF Alone
<1>3. CASE ~Head(ready).error
  <2>1. PICK s \in Session \ live :
          /\ live' = live \cup {s}
          /\ ops' = [[ops EXCEPT ![Callee] = @ \cup {"read"}] EXCEPT ![s] = @ \cup {"accept"}]
    BY <1>3 DEF HandleAccept, StartAccept
  <2>2. UNCHANGED <<socket_, peer>>
    BY <1>3 DEF HandleAccept
  <2>3. ops[s] = {} /\ s # Callee /\ socket_[s] = NoConn
    BY <1>1 DEF Alone
  <2>4. \A t \in Session : ops'[t] = IF t = s THEN {"accept"}
                                     ELSE IF t = Callee THEN {"read"} ELSE ops[t]
    BY <1>1, <2>1, <2>3
  <2>5. socket_[Callee] # NoConn /\ {"read"} # {"accept"}
    BY <1>0, <1>3, CalleeConn
  <2>6. \A t \in Session : ops'[t] # {} => (socket_[t] = NoConn <=> ops'[t] = {"accept"})
    BY <2>3, <2>4, <2>5 DEF Linked
  <2>7. \A t, u \in live' : socket_[t] = socket_[u] /\ socket_[t] # NoConn => t = u
    BY <2>1, <2>3 DEF Linked
  <2>8. \A t \in live' : socket_[t] # NoConn =>
          socket_[t] \notin backlog /\ peer[socket_[t]] \in {"up", "fin", "rst", "gone"}
    BY <2>1, <2>3 DEF Linked
  <2> QED  BY <1>0, <1>1, <2>1, <2>2, <2>6, <2>7, <2>8 DEF Linked
<1>4. CASE Head(ready).error
  <2>1. PICK s \in Session \ (live \ {Callee}) :
          /\ live' = (live \ {Callee}) \cup {s}
          /\ ops' = [[ops EXCEPT ![Callee] = {}] EXCEPT ![s] = @ \cup {"accept"}]
    BY <1>4 DEF HandleAccept, StartAccept
  <2>2. socket_[Callee] = NoConn
    BY <1>0, <1>4, CalleeConn
  <2>3. /\ \A t \in Session : socket_'[t] = socket_[t]
        /\ \A d \in Conn : peer'[d] = peer[d]
    BY <1>1, <1>4, <2>2, AsioAssumption DEF HandleAccept, Destroy, TypeOK, AsioAssumption
  <2>4. ops[s] = {} /\ socket_[s] = NoConn
    BY <1>1, <2>2 DEF Alone
  <2>5. \A t \in Session : ops'[t] = IF t = s THEN {"accept"} ELSE ops[t]
    BY <1>1, <2>1, <2>4
  <2>6. \A t \in Session : ops'[t] # {} => (socket_'[t] = NoConn <=> ops'[t] = {"accept"})
    BY <2>3, <2>4, <2>5 DEF Linked
  <2>7. \A t, u \in live' : socket_'[t] = socket_'[u] /\ socket_'[t] # NoConn => t = u
    BY <1>1, <2>1, <2>3, <2>4 DEF Linked
  <2>8. \A t \in live' : socket_'[t] # NoConn =>
          socket_'[t] \notin backlog /\ peer'[socket_'[t]] \in {"up", "fin", "rst", "gone"}
    <3>1. \A t \in Session : socket_[t] \in Conn \cup {NoConn}
      BY DEF TypeOK
    <3> QED  BY <1>1, <2>1, <2>3, <2>4, <3>1 DEF Linked
  <2>9. \A d \in Conn \ backlog :
          peer'[d] \notin {"none", "closed"} => \E t \in live' : socket_'[t] = d
    BY <1>1, <2>1, <2>2, <2>3, AsioAssumption DEF Linked, AsioAssumption
  <2>10. \A x \in Queue' : socket_'[x.ses] = NoConn <=> (x.op = "accept" /\ x.error)
    BY <1>1, <1>2, <2>3 DEF Linked
  <2>11. \A d \in backlog : peer'[d] \in {"up", "fin", "rst"}
    BY <2>3 DEF Linked, TypeOK
  <2> QED  BY <1>0, <2>6, <2>7, <2>8, <2>9, <2>10, <2>11 DEF Linked
<1> QED  BY <1>3, <1>4

\* What clients do keeps the connections of the sessions.
LEMMA LinkedClients ==
  ASSUME TypeOK, Alone, Linked, Clients
  PROVE  Linked'
<1>0. /\ \A s \in live : s \in Session /\ socket_[s] \in Conn \cup {NoConn}
      /\ backlog \subseteq Conn /\ peer \in [Conn -> Net!PeerState]
      /\ NoConn \notin Conn /\ UNCHANGED <<live, ops, ready, socket_>>
      /\ Queue' = Queue
  BY AsioAssumption
     DEF TypeOK, AsioAssumption, Clients, Queue, Net!ClientStep, Net!Connect, Net!ClientSend,
         Net!ClientRead, Net!ClientShutdown, Net!ClientReset, Net!AbortQueued
<1>1. PICK c \in Conn :
        \/ Net!Connect(c) \/ Net!ClientSend(c) \/ Net!ClientRead(c)
        \/ Net!ClientShutdown(c) \/ Net!ClientReset(c) \/ Net!AbortQueued(c)
  BY DEF Clients, Net!ClientStep
<1>2. CASE Net!Connect(c)
  BY <1>0, <1>2 DEF Net!Connect, Linked
<1>3. CASE Net!ClientSend(c) \/ Net!ClientRead(c)
  BY <1>0, <1>3 DEF Net!ClientSend, Net!ClientRead, Linked
<1>4. CASE Net!ClientShutdown(c)
  BY <1>0, <1>4 DEF Net!ClientShutdown, Linked
<1>5. CASE Net!ClientReset(c)
  BY <1>0, <1>5 DEF Net!ClientReset, Linked
<1>6. CASE Net!AbortQueued(c)
  BY <1>0, <1>6 DEF Net!AbortQueued, Linked
<1> QED  BY <1>1, <1>2, <1>3, <1>4, <1>5, <1>6

\* Every step keeps sessions and connections together.
LEMMA LinkedStep ==
  ASSUME TypeOK, Alone, Linked, [Next]_vars
  PROVE  Linked'
<1>a. /\ 0 \in 0 .. BufSize /\ TRUE \in BOOLEAN /\ FALSE \in BOOLEAN
      /\ "accept" \in Operation /\ "read" \in Operation /\ "write" \in Operation
  BY AsioAssumption DEF AsioAssumption, Operation
<1>1. ASSUME NEW s \in Session, AcceptDone(s)  PROVE Linked'
  BY <1>1, LinkedAcceptDone
<1>2. ASSUME NEW s \in Session, AcceptFails(s)  PROVE Linked'
  <2>1. /\ "accept" \in ops[s] /\ Complete(s, "accept", TRUE, 0)
        /\ UNCHANGED <<live, socket_, backlog>> /\ UNCHANGED peer
    BY <1>2 DEF AcceptFails, network
  <2> QED  BY <1>a, <2>1, LinkedCompletion
<1>3. ASSUME NEW s \in Session, ReadDone(s)  PROVE Linked'
  <2>1. /\ "read" \in ops[s] /\ Complete(s, "read", FALSE, ReadCount(socket_[s]))
        /\ UNCHANGED <<live, socket_, backlog>> /\ UNCHANGED peer
    BY <1>3 DEF ReadDone
  <2>2. socket_[s] \in Conn /\ ReadCount(socket_[s]) > 0
    BY <1>3, <2>1, WithConn DEF ReadDone
  <2>3. ReadCount(socket_[s]) \in 0 .. BufSize
    BY <2>2, ReadFacts
  <2> QED  BY <1>a, <2>1, <2>3, LinkedCompletion
<1>4. ASSUME NEW s \in Session, ReadFails(s)  PROVE Linked'
  <2>1. /\ "read" \in ops[s] /\ Complete(s, "read", TRUE, 0)
        /\ UNCHANGED <<live, socket_, backlog>>
    BY <1>4 DEF ReadFails
  <2>2. \A c \in Conn : peer'[c] = peer[c] \/
          /\ c = socket_[s] /\ peer[c] \in {"fin", "rst", "gone"}
          /\ peer'[c] \in {"fin", "gone"}
    BY <1>4 DEF ReadFails, TypeOK
  <2> QED  BY <1>a, <2>1, <2>2, LinkedCompletion
<1>5. ASSUME NEW s \in Session, WriteSome(s)  PROVE Linked'
  <2>1. "write" \in ops[s] /\ UNCHANGED <<live, socket_, backlog>> /\ UNCHANGED peer
    BY <1>5 DEF WriteSome
  <2>2. CASE Complete(s, "write", FALSE, 0)
    BY <1>a, <2>1, <2>2, LinkedCompletion
  <2>3. CASE UNCHANGED <<ops, ready>>
    BY <2>1, <2>3 DEF Linked, Queue
  <2> QED  BY <1>5, <2>2, <2>3 DEF WriteSome
<1>6. ASSUME NEW s \in Session, WriteFails(s)  PROVE Linked'
  <2>1. /\ "write" \in ops[s] /\ Complete(s, "write", TRUE, 0)
        /\ UNCHANGED <<live, socket_, backlog>>
    BY <1>6 DEF WriteFails
  <2>2. \A c \in Conn : peer'[c] = peer[c] \/
          /\ c = socket_[s] /\ peer[c] \in {"fin", "rst", "gone"}
          /\ peer'[c] \in {"fin", "gone"}
    BY <1>6 DEF WriteFails, TypeOK
  <2> QED  BY <1>a, <2>1, <2>2, LinkedCompletion
<1>7. CASE HandleAccept
  BY <1>7, LinkedAccept
<1>8. CASE HandleRead
  <2>1. ready # <<>> /\ Head(ready).op # "accept" /\ UNCHANGED backlog
    BY <1>8 DEF HandleRead, Called
  <2> QED  BY <1>8, <2>1, LinkedContinue, LinkedDelete DEF HandleRead
<1>9. CASE HandleWrite
  <2>1. ready # <<>> /\ Head(ready).op # "accept" /\ UNCHANGED backlog
    BY <1>9 DEF HandleWrite, Called
  <2> QED  BY <1>9, <2>1, LinkedContinue, LinkedDelete DEF HandleWrite
<1>10. CASE Clients
  BY <1>10, LinkedClients
<1>11. CASE UNCHANGED vars
  BY <1>11 DEF vars, network, Linked, Queue
<1> QED
  BY <1>1, <1>2, <1>3, <1>4, <1>5, <1>6, <1>7, <1>8, <1>9, <1>10, <1>11
     DEF Next, Completes, Handles

(***************************************************************************)
(* Types.                                                                  *)
(***************************************************************************)

\* The types that a completion has a hand in.
LEMMA CompletionType ==
  ASSUME TypeOK, Alone, NEW s \in Session, NEW op \in Operation, op \in ops[s],
         NEW error \in BOOLEAN, NEW bytes \in 0 .. BufSize,
         Complete(s, op, error, bytes)
  PROVE  ops' \in [Session -> SUBSET Operation] /\ ready' \in Seq(Handler)
BY Completion

\* Bytes received over the start of a buffer.
LEMMA ReceivedType ==
  ASSUME NEW old \in Seq(Net!Byte), NEW c \in Conn, NEW from \in Nat, NEW n \in Nat,
         MaxBytes \in Nat, from + n <= MaxBytes
  PROVE  LET new == [k \in 1 .. n |-> <<c, from + k>>] \o SubSeq(old, n + 1, Len(old))
         IN  /\ new \in Seq(Net!Byte) /\ n <= Len(new)
             /\ \A k \in 1 .. n : new[k] = <<c, from + k>>
<1> DEFINE first == [k \in 1 .. n |-> <<c, from + k>>]
           rest == SubSeq(old, n + 1, Len(old))
<1>1. first \in [1 .. n -> Net!Byte]
  BY DEF Net!Byte
<1>2. \A k \in 1 .. n : first[k] = <<c, from + k>>
  OBVIOUS
<1> HIDE DEF first
<1>3. first \in Seq(Net!Byte) /\ Len(first) = n
  <2>1. first \in Seq(Net!Byte)
    BY <1>1, SeqDef
  <2> QED  BY <1>1, <2>1, LenProperties
<1>4. rest \in Seq(Net!Byte) /\ Len(rest) \in Nat
  <2>1. Len(old) \in Nat /\ \A k \in n + 1 .. Len(old) : old[k] \in Net!Byte
    BY LenProperties, ElementOfSeq
  <2>2. rest \in Seq(Net!Byte)
    BY <2>1, SubSeqProperties
  <2> QED  BY <2>2, LenProperties
<1> HIDE DEF rest
<1>5. /\ first \o rest \in Seq(Net!Byte)
      /\ Len(first \o rest) = Len(first) + Len(rest)
      /\ \A k \in 1 .. Len(first) + Len(rest) :
           (first \o rest)[k] = IF k <= Len(first) THEN first[k] ELSE rest[k - Len(first)]
  BY <1>3, <1>4, ConcatProperties
<1>6. /\ first \o rest \in Seq(Net!Byte) /\ n <= Len(first \o rest)
      /\ \A k \in 1 .. n : (first \o rest)[k] = <<c, from + k>>
  BY <1>2, <1>3, <1>4, <1>5
<1> QED  BY <1>6 DEF first, rest

\* What async_write writes in one go.
Part(s) == Net!Min2(out[s].to - out[s].from, Net!Room(socket_[s]))
PartBytes(s) == [k \in 1 .. Part(s) |-> DataAt(s, out[s].from + k)]

\* A part of async_write is at least a byte, of the piece that is to be written, and
\* fits into the kernel's buffer.
LEMMA WriteFacts ==
  ASSUME TypeOK, Linked, NEW s \in Session, WriteSome(s)
  PROVE  /\ socket_[s] \in Conn /\ Part(s) \in Nat /\ Part(s) > 0
         /\ out[s].from \in Nat /\ out[s].to \in 0 .. BufSize
         /\ out[s].from + Part(s) <= out[s].to
         /\ unread[socket_[s]] + Part(s) <= SndBuf
         /\ echo' = [echo EXCEPT ![socket_[s]] = @ \o PartBytes(s)]
         /\ unread' = [unread EXCEPT ![socket_[s]] = @ + Part(s)]
         /\ out' = [out EXCEPT ![s].from = @ + Part(s)]
         /\ PartBytes(s) \in Seq(Net!Byte \cup {Net!Junk}) /\ Len(PartBytes(s)) = Part(s)
<1>1. socket_[s] \in Conn
  BY WithConn DEF WriteSome
<1>2. /\ out[s].from \in 0 .. BufSize /\ out[s].to \in 0 .. BufSize
      /\ unread[socket_[s]] \in 0 .. SndBuf /\ SndBuf \in Nat /\ BufSize \in Nat
  BY <1>1, AsioAssumption DEF TypeOK, AsioAssumption
<1>3. /\ Part(s) > 0
      /\ echo' = [echo EXCEPT ![socket_[s]] = @ \o PartBytes(s)]
      /\ unread' = [unread EXCEPT ![socket_[s]] = @ + Part(s)]
      /\ out' = [out EXCEPT ![s].from = @ + Part(s)]
  BY DEF WriteSome, Part, PartBytes
<1>4. /\ Part(s) \in Nat /\ out[s].from + Part(s) <= out[s].to
      /\ unread[socket_[s]] + Part(s) <= SndBuf
  <2>1. Part(s) = IF out[s].to - out[s].from < SndBuf - unread[socket_[s]]
                  THEN out[s].to - out[s].from ELSE SndBuf - unread[socket_[s]]
    BY DEF Part, Net!Min2, Net!Room
  <2>2. Part(s) > 0
    BY <1>3
  <2> QED  BY <1>2, <2>1, <2>2
<1>5. PartBytes(s) \in [1 .. Part(s) -> Net!Byte \cup {Net!Junk}]
  <2>1. ASSUME NEW k \in 1 .. Part(s)
        PROVE  DataAt(s, out[s].from + k) \in Net!Byte \cup {Net!Junk}
    <3>1. data_[s] \in Seq(Net!Byte) /\ out[s].from + k \in Nat /\ out[s].from + k > 0
      BY <1>2, <1>4 DEF TypeOK
    <3> QED  BY <3>1, ElementOfSeq, LenProperties DEF DataAt
  <2> QED  BY <2>1 DEF PartBytes
<1>6. PartBytes(s) \in Seq(Net!Byte \cup {Net!Junk})
  BY <1>4, <1>5, SeqDef
<1>7. Len(PartBytes(s)) = Part(s)
  BY <1>4, <1>5, <1>6, LenProperties
<1> QED  BY <1>1, <1>2, <1>3, <1>4, <1>6, <1>7

\* Every step keeps the types.
LEMMA TypeStep ==
  ASSUME TypeOK, Alone, Linked, [Next]_vars
  PROVE  TypeOK'
<1>a. /\ 0 \in 0 .. BufSize /\ TRUE \in BOOLEAN /\ FALSE \in BOOLEAN
      /\ "accept" \in Operation /\ "read" \in Operation /\ "write" \in Operation
      /\ MaxBytes \in Nat /\ BufSize \in Nat /\ SndBuf \in Nat
  BY AsioAssumption DEF AsioAssumption, Operation
<1>1. ASSUME NEW s \in Session, AcceptDone(s)  PROVE TypeOK'
  <2>1. "accept" \in ops[s] /\ Complete(s, "accept", FALSE, 0)
    BY <1>1 DEF AcceptDone
  <2>2. ops' \in [Session -> SUBSET Operation] /\ ready' \in Seq(Handler)
    BY <1>a, <2>1, CompletionType
  <2>3. backlog' \subseteq Conn /\ socket_' \in [Session -> Conn \cup {NoConn}]
    BY <1>1 DEF AcceptDone, TypeOK
  <2> QED  BY <1>1, <2>2, <2>3 DEF AcceptDone, TypeOK
<1>2. ASSUME NEW s \in Session, AcceptFails(s)  PROVE TypeOK'
  <2>1. "accept" \in ops[s] /\ Complete(s, "accept", TRUE, 0)
    BY <1>2 DEF AcceptFails
  <2>2. ops' \in [Session -> SUBSET Operation] /\ ready' \in Seq(Handler)
    BY <1>a, <2>1, CompletionType
  <2> QED  BY <1>2, <2>2 DEF AcceptFails, network, TypeOK
<1>3. ASSUME NEW s \in Session, ReadDone(s)  PROVE TypeOK'
  <2> DEFINE c == socket_[s]
             n == ReadCount(c)
             new == [k \in 1 .. n |-> <<c, rcvd[c] + k>>] \o SubSeq(data_[s], n + 1, Len(data_[s]))
  <2>1. "read" \in ops[s] /\ Complete(s, "read", FALSE, n)
    BY <1>3 DEF ReadDone
  <2>2. c \in Conn /\ n > 0
    BY <1>3, <2>1, WithConn DEF ReadDone
  <2>3. /\ n \in 1 .. BufSize /\ rcvd[c] \in Nat
        /\ rcvd[c] + n <= sent[c] /\ sent[c] <= MaxBytes /\ sent[c] \in Nat
    BY <2>2, ReadFacts
  <2>4. ops' \in [Session -> SUBSET Operation] /\ ready' \in Seq(Handler)
    <3>1. n \in 0 .. BufSize
      BY <2>3
    <3> QED  BY <1>a, <2>1, <3>1, CompletionType
  <2>5. data_[s] \in Seq(Net!Byte) /\ rcvd[c] + n <= MaxBytes /\ n \in Nat
    BY <1>a, <2>3 DEF TypeOK
  <2>6. new \in Seq(Net!Byte)
    BY <1>a, <2>2, <2>3, <2>5, ReceivedType
  <2>7. data_' = [data_ EXCEPT ![s] = new] /\ rcvd' = [rcvd EXCEPT ![c] = @ + n]
    BY <1>3 DEF ReadDone
  <2> HIDE DEF new, n, c
  <2>8. data_' \in [Session -> Seq(Net!Byte)]
    BY <2>6, <2>7 DEF TypeOK
  <2>9. rcvd' \in [Conn -> 0 .. MaxBytes]
    BY <1>a, <2>2, <2>3, <2>5, <2>7 DEF TypeOK
  <2> QED  BY <1>3, <2>4, <2>8, <2>9 DEF ReadDone, TypeOK
<1>4. ASSUME NEW s \in Session, ReadFails(s)  PROVE TypeOK'
  <2>1. "read" \in ops[s] /\ Complete(s, "read", TRUE, 0)
    BY <1>4 DEF ReadFails
  <2>2. ops' \in [Session -> SUBSET Operation] /\ ready' \in Seq(Handler)
    BY <1>a, <2>1, CompletionType
  <2>3. peer' \in [Conn -> Net!PeerState]
    BY <1>4 DEF ReadFails, TypeOK, Net!PeerState
  <2> QED  BY <1>4, <2>2, <2>3 DEF ReadFails, TypeOK
<1>5. ASSUME NEW s \in Session, WriteSome(s)  PROVE TypeOK'
  <2>1. "write" \in ops[s] /\ UNCHANGED <<peer, backlog, sent, rcvd, live, socket_, data_>>
    BY <1>5 DEF WriteSome
  <2>2. ops' \in [Session -> SUBSET Operation] /\ ready' \in Seq(Handler)
    <3>1. CASE Complete(s, "write", FALSE, 0)
      BY <1>a, <2>1, <3>1, CompletionType
    <3>2. CASE UNCHANGED <<ops, ready>>
      BY <3>2 DEF TypeOK
    <3> QED  BY <1>5, <3>1, <3>2 DEF WriteSome
  <2> DEFINE c == socket_[s]
  <2>w. /\ c \in Conn /\ Part(s) \in Nat
        /\ out[s].from \in Nat /\ out[s].to \in 0 .. BufSize
        /\ out[s].from + Part(s) <= out[s].to
        /\ unread[c] + Part(s) <= SndBuf
        /\ echo' = [echo EXCEPT ![c] = @ \o PartBytes(s)]
        /\ unread' = [unread EXCEPT ![c] = @ + Part(s)]
        /\ out' = [out EXCEPT ![s].from = @ + Part(s)]
        /\ PartBytes(s) \in Seq(Net!Byte \cup {Net!Junk})
    BY <1>5, WriteFacts
  <2> HIDE DEF c
  <2>3. echo' \in [Conn -> Seq(Net!Byte \cup {Net!Junk})]
    <3>0. echo \in [Conn -> Seq(Net!Byte \cup {Net!Junk})]
      BY DEF TypeOK
    <3>1. echo[c] \in Seq(Net!Byte \cup {Net!Junk})
      BY <2>w, <3>0
    <3>2. echo[c] \o PartBytes(s) \in Seq(Net!Byte \cup {Net!Junk})
      BY <2>w, <3>1, ConcatProperties
    <3> QED  BY <2>w, <3>0, <3>2
  <2>4. unread' \in [Conn -> 0 .. SndBuf]
    <3>1. unread \in [Conn -> 0 .. SndBuf] /\ unread[c] + Part(s) \in 0 .. SndBuf
      BY <1>a, <2>w DEF TypeOK
    <3> QED  BY <2>w, <3>1
  <2>5. out' \in [Session -> [from : 0 .. BufSize, to : 0 .. BufSize]]
    <3>1. /\ out \in [Session -> [from : 0 .. BufSize, to : 0 .. BufSize]]
          /\ out[s].from + Part(s) \in 0 .. BufSize
      BY <1>a, <2>w DEF TypeOK
    <3> QED  BY <2>w, <3>1
  <2> QED  BY <2>1, <2>2, <2>3, <2>4, <2>5 DEF TypeOK
<1>6. ASSUME NEW s \in Session, WriteFails(s)  PROVE TypeOK'
  <2>1. "write" \in ops[s] /\ Complete(s, "write", TRUE, 0)
    BY <1>6 DEF WriteFails
  <2>2. ops' \in [Session -> SUBSET Operation] /\ ready' \in Seq(Handler)
    BY <1>a, <2>1, CompletionType
  <2>3. peer' \in [Conn -> Net!PeerState]
    BY <1>6 DEF WriteFails, TypeOK, Net!PeerState
  <2> QED  BY <1>6, <2>2, <2>3 DEF WriteFails, TypeOK
<1>b. ASSUME ready # <<>>, Destroy(Callee)
      PROVE  /\ peer' \in [Conn -> Net!PeerState]
             /\ socket_' \in [Session -> Conn \cup {NoConn}]
             /\ data_' \in [Session -> Seq(Net!Byte)] /\ ready' \in Seq(Handler)
  <2>1. ready' \in Seq(Handler)
    BY <1>b, Calling, Destroying
  <2>2. <<>> \in Seq(Net!Byte)
    BY EmptySeq
  <2> QED  BY <1>b, <2>1, <2>2 DEF Destroy, TypeOK, Net!PeerState
<1>c. ASSUME ready # <<>>, NEW op \in Operation, Continue(op)
      PROVE  ops' \in [Session -> SUBSET Operation] /\ ready' \in Seq(Handler)
  BY <1>c, Calling DEF Continue, TypeOK
<1>d. ASSUME ready # <<>>, DeleteThis
      PROVE  live' \subseteq Session /\ ops' \in [Session -> SUBSET Operation]
  BY <1>d DEF DeleteThis, TypeOK
<1>7. CASE HandleAccept
  <2>1. ready # <<>> /\ UNCHANGED <<backlog, sent, rcvd, echo, unread, out>>
    BY <1>7 DEF HandleAccept, Called
  <2>2. live' \subseteq Session /\ ops' \in [Session -> SUBSET Operation]
    <3>1. \E others \in SUBSET live, started \in {[ops EXCEPT ![Callee] = @ \cup {"read"}],
                                                 [ops EXCEPT ![Callee] = {}]} :
            StartAccept(others, started)
      BY <1>7 DEF HandleAccept
    <3>2. PICK others \in SUBSET live, started \in [Session -> SUBSET Operation] :
            StartAccept(others, started)
      BY <1>a, <3>1 DEF TypeOK
    <3> QED  BY <1>a, <3>2 DEF StartAccept, TypeOK
  <2>3. CASE Head(ready).error
    <3>1. Destroy(Callee)
      BY <1>7, <2>3 DEF HandleAccept
    <3> QED  BY <1>b, <2>1, <2>2, <3>1 DEF TypeOK
  <2>4. CASE ~Head(ready).error
    <3>1. ready' = Tail(ready) /\ UNCHANGED <<peer, socket_, data_>>
      BY <1>7, <2>4 DEF HandleAccept
    <3>2. ready' \in Seq(Handler)
      BY <2>1, <3>1, Calling
    <3> QED  BY <2>1, <2>2, <3>1, <3>2 DEF TypeOK
  <2> QED  BY <2>3, <2>4
<1>8. CASE HandleRead
  <2>1. ready # <<>> /\ UNCHANGED <<backlog, sent, rcvd, echo, unread>>
    BY <1>8 DEF HandleRead, Called
  <2>2. CASE Continue("write") /\ out' = [out EXCEPT ![Callee] = Reply(Head(ready))]
    <3>1. out' \in [Session -> [from : 0 .. BufSize, to : 0 .. BufSize]]
      BY <1>a, <2>1, <2>2, Calling DEF TypeOK, Reply, Handler
    <3> QED  BY <1>a, <1>c, <2>1, <2>2, <3>1 DEF TypeOK, Continue
  <2>3. CASE DeleteThis /\ UNCHANGED out
    BY <1>b, <1>d, <2>1, <2>3 DEF TypeOK, DeleteThis
  <2> QED  BY <1>8, <2>2, <2>3 DEF HandleRead
<1>9. CASE HandleWrite
  <2>1. ready # <<>> /\ UNCHANGED <<backlog, sent, rcvd, echo, unread, out>>
    BY <1>9 DEF HandleWrite, Called
  <2>2. CASE Continue("read")
    BY <1>a, <1>c, <2>1, <2>2 DEF TypeOK, Continue
  <2>3. CASE DeleteThis
    BY <1>b, <1>d, <2>1, <2>3 DEF TypeOK, DeleteThis
  <2> QED  BY <1>9, <2>2, <2>3 DEF HandleWrite
<1>10. CASE Clients
  <2>1. UNCHANGED <<live, ops, out, ready>>
    BY <1>10 DEF Clients
  <2>2. PICK c \in Conn :
          \/ Net!Connect(c) \/ Net!ClientSend(c) \/ Net!ClientRead(c)
          \/ Net!ClientShutdown(c) \/ Net!ClientReset(c) \/ Net!AbortQueued(c)
    BY <1>10 DEF Clients, Net!ClientStep
  <2>3. CASE Net!ClientSend(c)
    <3>1. sent' \in [Conn -> 0 .. MaxBytes]
      BY <1>a, <2>3 DEF Net!ClientSend, TypeOK
    <3> QED  BY <2>1, <2>3, <3>1 DEF Net!ClientSend, TypeOK
  <2>4. CASE Net!ClientRead(c)
    <3>1. unread' \in [Conn -> 0 .. SndBuf]
      BY <1>a, <2>4 DEF Net!ClientRead, TypeOK
    <3> QED  BY <2>1, <2>4, <3>1 DEF Net!ClientRead, TypeOK
  <2>5. CASE Net!Connect(c) \/ Net!ClientShutdown(c) \/ Net!ClientReset(c) \/ Net!AbortQueued(c)
    <3>1. peer' \in [Conn -> Net!PeerState] /\ backlog' \subseteq Conn
      BY <2>5
         DEF Net!Connect, Net!ClientShutdown, Net!ClientReset, Net!AbortQueued, TypeOK, Net!PeerState
    <3> QED
      BY <2>1, <2>5, <3>1
         DEF Net!Connect, Net!ClientShutdown, Net!ClientReset, Net!AbortQueued, TypeOK
  <2> QED  BY <2>2, <2>3, <2>4, <2>5
<1>11. CASE UNCHANGED vars
  BY <1>11 DEF vars, network, TypeOK
<1> QED
  BY <1>1, <1>2, <1>3, <1>4, <1>5, <1>6, <1>7, <1>8, <1>9, <1>10, <1>11
     DEF Next, Completes, Handles

(***************************************************************************)
(* What sessions owe.                                                      *)
(***************************************************************************)

Even(s) == rcvd[socket_[s]] = Len(echo[socket_[s]])
DueBy(s) ==
  /\ "read" \in ops[s] => Even(s)
  /\ "write" \in ops[s] => Owes(s, out[s].from, out[s].to)
DueFor(h) == ~h.error => IF h.op = "read" THEN Owes(h.ses, 0, h.bytes) ELSE Even(h.ses)
Streams ==
  /\ \A c \in Conn : rcvd[c] <= sent[c]
  /\ \A c \in Conn : peer[c] = "none" \/ c \in backlog => rcvd[c] = 0 /\ echo[c] = <<>>

\* OwedOK in the parts that the steps disturb.
LEMMA OwedParts ==
  OwedOK <=> Streams /\ (\A s \in Session : DueBy(s)) /\ (\A h \in Queue : DueFor(h))
BY DEF OwedOK, Streams, DueBy, DueFor, Even

\* Nothing happens to the connection and the buffer of t.
Untouched(t) ==
  /\ socket_'[t] = socket_[t] /\ data_'[t] = data_[t]
  /\ rcvd'[socket_[t]] = rcvd[socket_[t]] /\ echo'[socket_[t]] = echo[socket_[t]]

\* A session that is not touched owes what it owed.
LEMMA UntouchedOwes ==
  ASSUME NEW t, Untouched(t)
  PROVE  /\ Even(t)' <=> Even(t)
         /\ \A from, to : Owes(t, from, to)' <=> Owes(t, from, to)
BY DEF Untouched, Even, Owes

\* A step of session s, and of no other: what remains to be shown is what
\* becomes of s and of the handlers H that the step puts into the queue.
LEMMA OwedByOthers ==
  ASSUME Alone, OwedOK, NEW s \in Session, NEW H,
         \A t \in live \ {s} : Untouched(t),
         \A t \in Session \ {s} : ops'[t] = ops[t] \/ ops'[t] = {"accept"},
         \A t \in Session \ {s} : out'[t] = out[t],
         Queue' \subseteq {x \in Queue : x.ses # s} \cup H,
         DueBy(s)', \A h \in H : DueFor(h)',
         Streams'
  PROVE  OwedOK'
<1>1. ASSUME NEW t \in Session \ {s}  PROVE DueBy(t)'
  <2>1. CASE ops'[t] = {"accept"}
    BY <2>1 DEF DueBy
  <2>2. CASE ops'[t] = ops[t] /\ t \notin live
    BY <2>2 DEF DueBy, Alone
  <2>3. CASE ops'[t] = ops[t] /\ t \in live
    <3>1. DueBy(t) /\ Untouched(t) /\ out'[t] = out[t]
      BY <2>3, OwedParts
    <3> QED  BY <2>3, <3>1 DEF DueBy, Untouched, Owes, Even
  <2> QED  BY <2>1, <2>2, <2>3
<1>2. ASSUME NEW h \in Queue, h.ses # s  PROVE DueFor(h)'
  <2>1. h.ses \in live \ {s}
    BY <1>2 DEF Alone
  <2>2. DueFor(h)
    BY OwedParts
  <2> QED  BY <2>1, <2>2, UntouchedOwes DEF DueFor
<1>3. \A h \in Queue' : DueFor(h)'
  BY <1>2
<1> QED  BY <1>1, <1>3, OwedParts DEF OwedOK, Streams, DueBy, DueFor, Even

\* The completion of an operation of s, with its handler h.
LEMMA OwedByCompletion ==
  ASSUME Alone, OwedOK, NEW s \in Session, NEW h,
         \A t \in live \ {s} : Untouched(t),
         \A t \in Session \ {s} : ops'[t] = ops[t],
         \A t \in Session \ {s} : out'[t] = out[t],
         \A x \in Queue : x.ses # s, Queue' = Queue \cup {h},
         DueBy(s)', DueFor(h)', Streams'
  PROVE  OwedOK'
<1> DEFINE H == {h}
<1>1. \A x \in H : DueFor(x)'
  OBVIOUS
<1>2. Queue' \subseteq {x \in Queue : x.ses # s} \cup H
  OBVIOUS
<1>3. \A t \in Session \ {s} : ops'[t] = ops[t] \/ ops'[t] = {"accept"}
  OBVIOUS
<1> HIDE DEF H
<1> QED  BY <1>1, <1>2, <1>3, OwedByOthers

\* A completion that moves no byte and gets an error.
LEMMA OwedFailure ==
  ASSUME TypeOK, Alone, Linked, OwedOK, UNCHANGED <<live, socket_, backlog, rcvd, sent, echo, data_, out>>,
         NEW s \in Session, NEW op \in Operation, op \in ops[s],
         Complete(s, op, TRUE, 0),
         \A c \in Conn : peer'[c] = "none" => peer[c] = "none"
  PROVE  OwedOK'
<1>0. 0 \in 0 .. BufSize /\ TRUE \in BOOLEAN
  BY AsioAssumption DEF AsioAssumption
<1>1. /\ \A x \in Queue : x.ses # s
      /\ ops' = [ops EXCEPT ![s] = {}] /\ Queue' = Queue \cup {Call(s, op, TRUE, 0)}
      /\ ops \in [Session -> SUBSET Operation]
  BY <1>0, Completion DEF TypeOK
<1>2. ops'[s] = {} /\ \A t \in Session \ {s} : ops'[t] = ops[t]
  BY <1>1
<1>3. DueBy(s)'
  BY <1>2 DEF DueBy
<1>4. DueFor(Call(s, op, TRUE, 0))'
  BY DEF DueFor, Call
<1>5. Streams'
  BY OwedParts DEF Streams
<1>6. \A t \in live \ {s} : Untouched(t)
  BY DEF Untouched
<1> QED  BY <1>1, <1>2, <1>3, <1>4, <1>5, <1>6, OwedByCompletion

\* What the other sessions have to do with the connection of s: nothing.
LEMMA OthersUntouched ==
  ASSUME TypeOK, Alone, Linked, NEW s \in live, NEW c \in Conn,
         socket_[s] = c \/ c \in backlog,
         \A t \in Session \ {s} : socket_'[t] = socket_[t] /\ data_'[t] = data_[t],
         \A d \in (Conn \cup {NoConn}) \ {c} : rcvd'[d] = rcvd[d] /\ echo'[d] = echo[d]
  PROVE  \A t \in live \ {s} : Untouched(t)
<1> SUFFICES ASSUME NEW t \in live \ {s}  PROVE Untouched(t)
  OBVIOUS
<1>1. t \in Session /\ socket_[t] \in Conn \cup {NoConn} /\ c # NoConn
  BY AsioAssumption DEF TypeOK, AsioAssumption
<1>2. socket_[t] # c
  BY <1>1 DEF Linked
<1> QED  BY <1>1, <1>2 DEF Untouched

\* A new connection owes nothing.
LEMMA OwedAcceptDone ==
  ASSUME TypeOK, Alone, Linked, OwedOK, NEW s \in Session, AcceptDone(s)
  PROVE  OwedOK'
<1>0. 0 \in 0 .. BufSize /\ FALSE \in BOOLEAN /\ "accept" \in Operation
  BY AsioAssumption DEF AsioAssumption, Operation
<1>1. PICK c \in backlog : backlog' = backlog \ {c} /\ socket_' = [socket_ EXCEPT ![s] = c]
  BY DEF AcceptDone
<1>2. /\ "accept" \in ops[s] /\ Complete(s, "accept", FALSE, 0)
      /\ UNCHANGED <<peer, sent, rcvd, echo, unread, live, data_, out>>
  BY DEF AcceptDone
<1>3. /\ s \in live /\ \A x \in Queue : x.ses # s
      /\ ops' = [ops EXCEPT ![s] = {}] /\ Queue' = Queue \cup {Call(s, "accept", FALSE, 0)}
      /\ ops \in [Session -> SUBSET Operation]
  BY <1>0, <1>2, Completion DEF TypeOK
<1>4. ops'[s] = {} /\ \A t \in Session \ {s} : ops'[t] = ops[t]
  BY <1>3
<1>5. DueBy(s)'
  BY <1>4 DEF DueBy
<1>6. c \in Conn /\ rcvd[c] = 0 /\ echo[c] = <<>> /\ socket_'[s] = c
  BY <1>1, OwedParts DEF Streams, TypeOK
<1>7. DueFor(Call(s, "accept", FALSE, 0))'
  <2>1. Even(s)'
    BY <1>2, <1>6, EmptySeq DEF Even
  <2> QED  BY <2>1 DEF DueFor, Call
<1>8. Streams'
  BY <1>1, <1>2, OwedParts DEF Streams
<1>9. \A t \in live \ {s} : Untouched(t)
  BY <1>1, <1>2 DEF Untouched, TypeOK
<1> QED  BY <1>2, <1>3, <1>4, <1>5, <1>7, <1>8, <1>9, OwedByCompletion

\* What was read is owed.
LEMMA OwedReadDone ==
  ASSUME TypeOK, Alone, Linked, OwedOK, NEW s \in Session, ReadDone(s)
  PROVE  OwedOK'
<1> DEFINE c == socket_[s]
<1>1. "read" \in ops[s] /\ c \in Conn /\ ReadCount(c) > 0
  BY WithConn DEF ReadDone
<1>2. PICK n \in Nat : n = ReadCount(c)
  BY <1>1, ReadFacts
<1>3. /\ n \in 1 .. BufSize /\ n \in 0 .. BufSize /\ rcvd[c] \in Nat
      /\ rcvd[c] + n <= sent[c] /\ sent[c] \in Nat /\ rcvd[c] + n <= MaxBytes
      /\ MaxBytes \in Nat /\ FALSE \in BOOLEAN /\ "read" \in Operation
  <2>1. /\ n \in 1 .. BufSize /\ rcvd[c] \in Nat /\ sent[c] \in Nat
        /\ rcvd[c] + n <= sent[c] /\ sent[c] <= MaxBytes
    BY <1>1, <1>2, ReadFacts
  <2> QED  BY <2>1, AsioAssumption DEF AsioAssumption, Operation
<1>4. /\ Complete(s, "read", FALSE, n) /\ rcvd' = [rcvd EXCEPT ![c] = @ + n]
      /\ data_' = [data_ EXCEPT ![s] = [k \in 1 .. n |-> <<c, rcvd[c] + k>>]
                                         \o SubSeq(data_[s], n + 1, Len(data_[s]))]
      /\ UNCHANGED <<peer, backlog, sent, echo, unread, live, socket_, out>>
  BY <1>2 DEF ReadDone
<1>5. /\ s \in live /\ \A x \in Queue : x.ses # s
      /\ ops' = [ops EXCEPT ![s] = {}] /\ Queue' = Queue \cup {Call(s, "read", FALSE, n)}
      /\ ops \in [Session -> SUBSET Operation] /\ data_[s] \in Seq(Net!Byte)
  BY <1>1, <1>3, <1>4, Completion DEF TypeOK
<1>6. ops'[s] = {} /\ \A t \in Session \ {s} : ops'[t] = ops[t]
  BY <1>5
<1>7. DueBy(s)'
  BY <1>6 DEF DueBy
<1>8. /\ n <= Len(data_'[s]) /\ \A k \in 1 .. n : data_'[s][k] = <<c, rcvd[c] + k>>
  <2>1. data_'[s] = [k \in 1 .. n |-> <<c, rcvd[c] + k>>] \o SubSeq(data_[s], n + 1, Len(data_[s]))
    BY <1>4 DEF TypeOK
  <2> QED  BY <1>1, <1>3, <1>5, <2>1, ReceivedType
<1>9. rcvd'[c] = rcvd[c] + n /\ rcvd[c] = Len(echo[c])
  <2>1. DueBy(s)
    BY OwedParts
  <2> QED  BY <1>1, <1>4, <2>1 DEF DueBy, Even, TypeOK
<1>10. Owes(s, 0, n)'
  BY <1>3, <1>4, <1>8, <1>9 DEF Owes
<1>11. DueFor(Call(s, "read", FALSE, n))'
  BY <1>10 DEF DueFor, Call
<1>12. Streams'
  <2>1. c \notin backlog /\ peer[c] # "none"
    BY <1>1, <1>5, AsioAssumption DEF Linked, AsioAssumption
  <2>2. \A d \in Conn \ {c} : rcvd'[d] = rcvd[d]
    BY <1>4 DEF TypeOK
  <2> QED  BY <1>3, <1>4, <1>9, <2>1, <2>2, OwedParts DEF Streams
<1>13. \A t \in live \ {s} : Untouched(t)
  <2>1. /\ \A t \in Session \ {s} : socket_'[t] = socket_[t] /\ data_'[t] = data_[t]
        /\ \A d \in (Conn \cup {NoConn}) \ {c} : rcvd'[d] = rcvd[d] /\ echo'[d] = echo[d]
    BY <1>4 DEF TypeOK
  <2> QED  BY <1>1, <1>5, <2>1, OthersUntouched
<1> QED  BY <1>4, <1>5, <1>6, <1>7, <1>11, <1>12, <1>13, OwedByCompletion

\* Of the bytes from .. to that are owed of r received ones, e are echoed: the
\* k-th to be written is the (e + k)-th of the stream, and n fewer remain.
LEMMA Remaining ==
  ASSUME NEW from \in Nat, NEW to \in Nat, NEW n \in Nat, NEW e \in Nat, NEW r \in Nat,
         NEW len \in Nat, from + n <= to, to <= len, r = e + (to - from)
  PROVE  /\ \A k \in 1 .. n : /\ from + k \in 1 .. to /\ from + k <= len
                              /\ r - to + (from + k) = e + k
         /\ r = (e + n) + (to - (from + n))
OBVIOUS

\* The bytes that async_write writes are the next ones the session owes.
LEMMA PartOwed ==
  ASSUME TypeOK, Linked, OwedOK, NEW s \in Session, WriteSome(s)
  PROVE  PartBytes(s) = [k \in 1 .. Part(s) |-> <<socket_[s], Len(echo[socket_[s]]) + k>>]
<1> DEFINE c == socket_[s]
<1>1. /\ c \in Conn /\ Part(s) \in Nat
      /\ out[s].from \in Nat /\ out[s].to \in 0 .. BufSize /\ BufSize \in Nat
      /\ out[s].from + Part(s) <= out[s].to
  BY WriteFacts, AsioAssumption DEF AsioAssumption
<1>2. Owes(s, out[s].from, out[s].to)
  BY DEF OwedOK, WriteSome
<1>3. rcvd[c] \in Nat /\ Len(echo[c]) \in Nat /\ Len(data_[s]) \in Nat
  BY <1>1, LenProperties, AsioAssumption DEF TypeOK, AsioAssumption
<1>5. /\ out[s].to <= Len(data_[s])
      /\ rcvd[c] = Len(echo[c]) + (out[s].to - out[s].from)
      /\ \A k \in 1 .. out[s].to : data_[s][k] = <<c, rcvd[c] - out[s].to + k>>
  BY <1>2 DEF Owes
<1>6. \A k \in 1 .. Part(s) :
        /\ out[s].from + k \in 1 .. out[s].to /\ out[s].from + k <= Len(data_[s])
        /\ rcvd[c] - out[s].to + (out[s].from + k) = Len(echo[c]) + k
  <2>0. out[s].to \in Nat
    BY <1>1
  <2>1. PICK from \in Nat, to \in Nat, n \in Nat, e \in Nat, r \in Nat, len \in Nat :
          /\ from = out[s].from /\ to = out[s].to /\ n = Part(s)
          /\ e = Len(echo[c]) /\ r = rcvd[c] /\ len = Len(data_[s])
    BY ONLY <2>0, <1>1, <1>3
  <2>2. from + n <= to /\ to <= len /\ r = e + (to - from)
    BY <1>1, <1>5, <2>1
  <2>3. \A k \in 1 .. n : /\ from + k \in 1 .. to /\ from + k <= len
                          /\ r - to + (from + k) = e + k
    BY <2>2, Remaining
  <2> QED  BY <2>1, <2>3
<1>4. ASSUME NEW k \in 1 .. Part(s)
      PROVE  DataAt(s, out[s].from + k) = <<c, Len(echo[c]) + k>>
  <2>1. /\ out[s].from + k \in 1 .. out[s].to /\ out[s].from + k <= Len(data_[s])
        /\ rcvd[c] - out[s].to + (out[s].from + k) = Len(echo[c]) + k
    BY <1>6
  <2>2. DataAt(s, out[s].from + k) = <<c, rcvd[c] - out[s].to + (out[s].from + k)>>
    BY <1>5, <2>1 DEF DataAt
  <2> QED  BY <2>1, <2>2
<1> QED  BY <1>4 DEF PartBytes

\* What was written is owed no more; when all is, as much is echoed as received.
LEMMA OwedWriteSome ==
  ASSUME TypeOK, Alone, Linked, OwedOK, NEW s \in Session, WriteSome(s)
  PROVE  OwedOK'
<1> DEFINE c == socket_[s]
<1>0. 0 \in 0 .. BufSize /\ FALSE \in BOOLEAN /\ "write" \in Operation /\ NoConn \notin Conn
  BY AsioAssumption DEF AsioAssumption, Operation
<1>1. PICK n \in Nat : n = Part(s)
  BY WriteFacts
<1>2. /\ c \in Conn /\ n > 0 /\ out[s].from \in Nat /\ out[s].to \in Nat
      /\ out[s].from + n <= out[s].to
      /\ echo' = [echo EXCEPT ![c] = @ \o PartBytes(s)]
      /\ out' = [out EXCEPT ![s].from = @ + n]
      /\ PartBytes(s) \in Seq(Net!Byte \cup {Net!Junk}) /\ Len(PartBytes(s)) = n
  BY <1>1, WriteFacts
<1>3. /\ "write" \in ops[s] /\ Owes(s, out[s].from, out[s].to)
      /\ UNCHANGED <<peer, backlog, sent, rcvd, live, socket_, data_>>
  BY DEF OwedOK, WriteSome
<1>4. s \in live /\ ops[s] = {"write"} /\ \A x \in Queue : x.ses # s
  <2>1. s \in live /\ \A x \in Queue : x.ses # s
    BY <1>3 DEF Alone
  <2>2. \E o \in Operation : ops[s] = {o}
    BY <2>1 DEF Alone
  <2> QED  BY <1>3, <2>1, <2>2
<1>5. /\ rcvd[c] \in Nat /\ Len(echo[c]) \in Nat
      /\ Len(echo'[c]) = Len(echo[c]) + n
      /\ \A d \in (Conn \cup {NoConn}) \ {c} : echo'[d] = echo[d]
  <2>1. echo[c] \in Seq(Net!Byte \cup {Net!Junk}) /\ rcvd[c] \in Nat
    BY <1>2, AsioAssumption DEF TypeOK, AsioAssumption
  <2>2. Len(echo[c] \o PartBytes(s)) = Len(echo[c]) + n
    BY <1>2, <2>1, ConcatProperties
  <2> QED  BY <1>2, <2>1, <2>2, LenProperties DEF TypeOK
<1>6. /\ out'[s].from = out[s].from + n /\ out'[s].to = out[s].to
      /\ \A t \in Session \ {s} : out'[t] = out[t]
  BY <1>2 DEF TypeOK
<1>7. Streams'
  <2>1. c \notin backlog /\ peer[c] # "none"
    BY <1>0, <1>2, <1>4 DEF Linked
  <2> QED  BY <1>3, <1>5, <2>1, OwedParts DEF Streams
<1>8. \A t \in live \ {s} : Untouched(t)
  BY <1>2, <1>3, <1>4, <1>5, OthersUntouched
<1>9. CASE Written(s, n)
  <2>1. Complete(s, "write", FALSE, 0)
    BY <1>1, <1>9 DEF WriteSome, Part
  <2>2. /\ ops' = [ops EXCEPT ![s] = {}] /\ Queue' = Queue \cup {Call(s, "write", FALSE, 0)}
        /\ ops \in [Session -> SUBSET Operation]
    BY <1>0, <1>3, <2>1, Completion DEF TypeOK
  <2>3. ops'[s] = {} /\ \A t \in Session \ {s} : ops'[t] = ops[t]
    BY <2>2
  <2>4. DueBy(s)'
    BY <2>3 DEF DueBy
  <2>5. Even(s)'
    BY <1>2, <1>3, <1>5, <1>9 DEF Even, Owes, Written
  <2>6. DueFor(Call(s, "write", FALSE, 0))'
    BY <2>5 DEF DueFor, Call
  <2> QED  BY <1>3, <1>4, <1>6, <1>7, <1>8, <2>2, <2>3, <2>4, <2>6, OwedByCompletion
<1>10. CASE ~Written(s, n)
  <2>1. UNCHANGED <<ops, ready>>
    BY <1>1, <1>10 DEF WriteSome, Part
  <2>2. out[s].from + n < out[s].to
    BY <1>2, <1>10 DEF Written
  <2>3. Owes(s, out[s].from, out[s].to)'
    <3>1. /\ out[s].to <= Len(data_[s])
          /\ rcvd[c] = Len(echo[c]) + (out[s].to - out[s].from)
          /\ \A k \in 1 .. out[s].to : data_[s][k] = <<c, rcvd[c] - out[s].to + k>>
      BY <1>3 DEF Owes
    <3>2. rcvd[c] = (Len(echo[c]) + n) + (out[s].to - (out[s].from + n))
      <4>1. Len(data_[s]) \in Nat
        BY LenProperties DEF TypeOK
      <4>2. PICK from \in Nat, to \in Nat, e \in Nat, r \in Nat, len \in Nat :
              /\ from = out[s].from /\ to = out[s].to
              /\ e = Len(echo[c]) /\ r = rcvd[c] /\ len = Len(data_[s])
        BY <1>2, <1>5, <4>1
      <4>3. from + n <= to /\ to <= len /\ r = e + (to - from)
        BY <1>2, <3>1, <4>2
      <4>4. r = (e + n) + (to - (from + n))
        BY <4>3, Remaining
      <4> QED  BY <4>2, <4>4
    <3> QED  BY <1>3, <1>5, <1>6, <2>2, <3>1, <3>2 DEF Owes
  <2>4. DueBy(s)'
    BY <1>4, <2>1, <2>3 DEF DueBy
  <2>5. Queue' \subseteq {x \in Queue : x.ses # s} \cup {}
    BY <1>4, <2>1 DEF Queue
  <2>6. \A t \in Session \ {s} : ops'[t] = ops[t] \/ ops'[t] = {"accept"}
    BY <2>1
  <2> DEFINE H == {}
  <2>7. Queue' \subseteq {x \in Queue : x.ses # s} \cup H /\ \A h \in H : DueFor(h)'
    BY <2>5
  <2>8. \A t \in Session \ {s} : out'[t] = out[t]
    BY <1>6
  <2> HIDE DEF H
  <2> QED  BY <1>7, <1>8, <2>4, <2>6, <2>7, <2>8, OwedByOthers
<1> QED  BY <1>9, <1>10

\* The next operation of a session, or the first after accept.
LEMMA OwedContinue ==
  ASSUME TypeOK, Alone, Linked, OwedOK, ready # <<>>, ~Head(ready).error,
         UNCHANGED <<backlog, sent, rcvd, echo, peer, socket_, data_>>,
         ready' = Tail(ready), NEW op,
         \/ op = "write" /\ Head(ready).op = "read" /\ out' = [out EXCEPT ![Callee] = Reply(Head(ready))]
         \/ op = "read" /\ Head(ready).op # "read" /\ out' = out,
         ops'[Callee] = {op},
         \A t \in Session \ {Callee} : ops'[t] = ops[t] \/ ops'[t] = {"accept"}
  PROVE  OwedOK'
<1>1. /\ Callee \in Session /\ Head(ready) \in Queue
      /\ Queue' = {x \in Queue : x.ses # Callee}
  BY Calling DEF Queue, Elements
<1> DEFINE s == Callee
<1>2. DueFor(Head(ready))
  BY <1>1, OwedParts
<1>3. PICK b : b = Head(ready).bytes
  OBVIOUS
<1>4. PICK r : r = Callee
  OBVIOUS
<1>5. DueBy(r)'
  <2>1. CASE op = "write"
    <3>1. Owes(r, 0, b)
      BY <1>2, <1>3, <1>4, <2>1 DEF DueFor, Callee
    <3>2. out'[r].from = 0 /\ out'[r].to = b
      BY <1>1, <1>3, <1>4, <2>1 DEF Reply, TypeOK
    <3> QED  BY <1>4, <2>1, <3>1, <3>2 DEF DueBy, Owes
  <2>2. CASE op = "read"
    <3>1. Even(r)
      BY <1>2, <1>4, <2>2 DEF DueFor, Callee
    <3> QED  BY <1>4, <2>2, <3>1 DEF DueBy, Even
  <2> QED  BY <2>1, <2>2
<1>6. \A t \in Session \ {r} : out'[t] = out[t]
  BY <1>1, <1>4 DEF TypeOK
<1>7. Streams'
  BY OwedParts DEF Streams
<1>8. \A t \in live \ {r} : Untouched(t)
  BY DEF Untouched
<1> DEFINE H == {}
<1>9. Queue' \subseteq {x \in Queue : x.ses # r} \cup H /\ \A h \in H : DueFor(h)'
  BY <1>1, <1>4
<1>10. r \in Session /\ \A t \in Session \ {r} : ops'[t] = ops[t] \/ ops'[t] = {"accept"}
  BY <1>1, <1>4
<1> HIDE DEF H
<1> QED  BY <1>5, <1>6, <1>7, <1>8, <1>9, <1>10, OwedByOthers

\* The end of a session.
LEMMA OwedDelete ==
  ASSUME TypeOK, Alone, Linked, OwedOK, ready # <<>>, Destroy(Callee),
         UNCHANGED <<backlog, sent, rcvd, echo, out>>,
         ops'[Callee] \subseteq {"accept"},
         \A t \in Session \ {Callee} : ops'[t] = ops[t] \/ ops'[t] = {"accept"}
  PROVE  OwedOK'
<1>1. /\ Callee \in Session
      /\ Queue' = {x \in Queue : x.ses # Callee}
  BY Calling, Destroying DEF Queue, Elements
<1>2. PICK r : r = Callee
  OBVIOUS
<1>3. DueBy(r)'
  BY <1>2 DEF DueBy
<1>4. Streams'
  BY OwedParts DEF Streams, Destroy
<1>5. \A t \in live \ {r} : Untouched(t)
  BY <1>2 DEF Untouched, Destroy, TypeOK
<1> DEFINE H == {}
<1>6. Queue' \subseteq {x \in Queue : x.ses # r} \cup H /\ \A h \in H : DueFor(h)'
  BY <1>1, <1>2
<1>7. r \in Session /\ \A t \in Session \ {r} : ops'[t] = ops[t] \/ ops'[t] = {"accept"}
  BY <1>1, <1>2
<1>8. \A t \in Session \ {r} : out'[t] = out[t]
  OBVIOUS
<1> HIDE DEF H
<1> QED  BY <1>3, <1>4, <1>5, <1>6, <1>7, <1>8, OwedByOthers

\* A client that connects has sent nothing yet, and the others change nothing
\* that is owed.
LEMMA OwedClients ==
  ASSUME TypeOK, Alone, Linked, OwedOK, Clients
  PROVE  OwedOK'
<1>0. /\ UNCHANGED <<live, ops, out, ready, rcvd, echo, socket_, data_>>
      /\ rcvd \in [Conn -> Nat] /\ sent \in [Conn -> Nat]
  BY AsioAssumption
     DEF Clients, Net!ClientStep, Net!Connect, Net!ClientSend, Net!ClientRead,
         Net!ClientShutdown, Net!ClientReset, Net!AbortQueued, TypeOK, AsioAssumption
<1>1. PICK c \in Conn :
        \/ Net!Connect(c) \/ Net!ClientSend(c) \/ Net!ClientRead(c)
        \/ Net!ClientShutdown(c) \/ Net!ClientReset(c) \/ Net!AbortQueued(c)
  BY DEF Clients, Net!ClientStep
<1>2. \A d \in Conn : rcvd[d] <= sent'[d]
  <2>1. \A d \in Conn : rcvd[d] \in Nat /\ sent[d] \in Nat /\ rcvd[d] <= sent[d]
    BY <1>0 DEF OwedOK
  <2>2. CASE Net!ClientSend(c)
    <3>1. \A d \in Conn : sent'[d] = IF d = c THEN sent[d] + 1 ELSE sent[d]
      BY <1>0, <2>2 DEF Net!ClientSend
    <3> QED  BY <2>1, <3>1
  <2>3. CASE ~Net!ClientSend(c)
    <3>1. UNCHANGED sent
      BY <1>1, <2>3 DEF Net!Connect, Net!ClientRead, Net!ClientShutdown, Net!ClientReset,
                        Net!AbortQueued
    <3> QED  BY <2>1, <3>1
  <2> QED  BY <2>2, <2>3
<1>3. \A d \in Conn : peer'[d] = "none" \/ d \in backlog' => peer[d] = "none" \/ d \in backlog
  BY <1>1 DEF Net!Connect, Net!ClientSend, Net!ClientRead, Net!ClientShutdown, Net!ClientReset,
              Net!AbortQueued, TypeOK
<1>4. Streams'
  BY <1>0, <1>2, <1>3, OwedParts DEF Streams
<1>5. \A s \in Session : DueBy(s)'
  BY <1>0, OwedParts DEF DueBy, Even, Owes
<1>6. \A h \in Queue' : DueFor(h)'
  BY <1>0, OwedParts DEF DueFor, Even, Owes, Queue
<1> QED  BY <1>4, <1>5, <1>6 DEF OwedOK, Streams, DueBy, DueFor, Even

\* The handler of accept: a session that owes nothing starts to read.
LEMMA OwedAccept ==
  ASSUME TypeOK, Alone, Linked, OwedOK, HandleAccept
  PROVE  OwedOK'
<1>0. /\ ready # <<>> /\ Head(ready).op = "accept"
      /\ UNCHANGED <<backlog, sent, rcvd, echo, unread, out>>
  BY DEF HandleAccept, Called
<1>1. /\ Callee \in live /\ Callee \in Session /\ ops[Callee] = {}
      /\ ops \in [Session -> SUBSET Operation]
      /\ \A t \in Session \ live : ops[t] = {}
  BY <1>0, Calling DEF TypeOK, Alone
<1>2. CASE ~Head(ready).error
  <2>1. PICK s \in Session \ live :
          ops' = [[ops EXCEPT ![Callee] = @ \cup {"read"}] EXCEPT ![s] = @ \cup {"accept"}]
    BY <1>2 DEF HandleAccept, StartAccept
  <2>2. ready' = Tail(ready) /\ UNCHANGED <<peer, socket_, data_>>
    BY <1>2 DEF HandleAccept
  <2>3. /\ ops'[Callee] = {"read"}
        /\ \A t \in Session \ {Callee} : ops'[t] = ops[t] \/ ops'[t] = {"accept"}
    BY <1>1, <2>1
  <2> QED  BY <1>0, <1>2, <2>2, <2>3, OwedContinue
<1>3. CASE Head(ready).error
  <2>1. PICK s \in Session \ (live \ {Callee}) :
          ops' = [[ops EXCEPT ![Callee] = {}] EXCEPT ![s] = @ \cup {"accept"}]
    BY <1>3 DEF HandleAccept, StartAccept
  <2>2. Destroy(Callee)
    BY <1>3 DEF HandleAccept
  <2>3. /\ ops'[Callee] \subseteq {"accept"}
        /\ \A t \in Session \ {Callee} : ops'[t] = ops[t] \/ ops'[t] = {"accept"}
    BY <1>1, <2>1
  <2> QED  BY <1>0, <2>2, <2>3, OwedDelete
<1> QED  BY <1>2, <1>3

\* The handlers of read and write.
LEMMA OwedNext ==
  ASSUME TypeOK, Alone, Linked, OwedOK, HandleRead \/ HandleWrite
  PROVE  OwedOK'
<1>0. ready # <<>> /\ UNCHANGED <<backlog, sent, rcvd, echo, unread>>
  BY DEF HandleRead, HandleWrite, Called
<1>1. /\ Callee \in Session /\ ops[Callee] = {} /\ ops \in [Session -> SUBSET Operation]
  BY <1>0, Calling DEF TypeOK
<1>2. ASSUME NEW op, Continue(op)
      PROVE  /\ ready' = Tail(ready) /\ UNCHANGED <<peer, socket_, data_>>
             /\ ops'[Callee] = {op}
             /\ \A t \in Session \ {Callee} : ops'[t] = ops[t] \/ ops'[t] = {"accept"}
  BY <1>1, <1>2 DEF Continue
<1>3. CASE HandleRead /\ ~Head(ready).error
  <2>1. /\ Continue("write") /\ Head(ready).op = "read"
        /\ out' = [out EXCEPT ![Callee] = Reply(Head(ready))]
    BY <1>3 DEF HandleRead, Called
  <2> QED  BY <1>0, <1>2, <1>3, <2>1, OwedContinue
<1>4. CASE HandleWrite /\ ~Head(ready).error
  <2>1. Continue("read") /\ Head(ready).op = "write" /\ out' = out
    BY <1>4 DEF HandleWrite, Called
  <2> QED  BY <1>0, <1>2, <1>4, <2>1, OwedContinue
<1>5. CASE Head(ready).error
  <2>1. DeleteThis /\ UNCHANGED out
    BY <1>5 DEF HandleRead, HandleWrite
  <2>2. /\ Destroy(Callee) /\ ops'[Callee] = {}
        /\ \A t \in Session \ {Callee} : ops'[t] = ops[t]
    BY <1>1, <2>1 DEF DeleteThis
  <2> QED  BY <1>0, <2>1, <2>2, OwedDelete
<1> QED  BY <1>3, <1>4, <1>5

\* Every step keeps account of what is owed.
LEMMA OwedStep ==
  ASSUME TypeOK, Alone, Linked, OwedOK, [Next]_vars
  PROVE  OwedOK'
<1>a. "accept" \in Operation /\ "read" \in Operation /\ "write" \in Operation
  BY DEF Operation
<1>1. ASSUME NEW s \in Session, AcceptFails(s)  PROVE OwedOK'
  BY <1>1, <1>a, OwedFailure DEF AcceptFails, network
<1>2. ASSUME NEW s \in Session, ReadFails(s)  PROVE OwedOK'
  <2>1. \A c \in Conn : peer'[c] = "none" => peer[c] = "none"
    BY <1>2 DEF ReadFails, TypeOK
  <2> QED  BY <1>2, <1>a, <2>1, OwedFailure DEF ReadFails
<1>3. ASSUME NEW s \in Session, WriteFails(s)  PROVE OwedOK'
  <2>1. \A c \in Conn : peer'[c] = "none" => peer[c] = "none"
    BY <1>3 DEF WriteFails, TypeOK
  <2> QED  BY <1>3, <1>a, <2>1, OwedFailure DEF WriteFails
<1>4. CASE UNCHANGED vars
  BY <1>4 DEF vars, network, OwedOK, Owes, Queue
<1> QED
  BY <1>1, <1>2, <1>3, <1>4, OwedAcceptDone, OwedReadDone, OwedWriteSome, OwedAccept, OwedNext,
     OwedClients
     DEF Next, Completes, Handles

(***************************************************************************)
(* The theorems.                                                           *)
(***************************************************************************)

\* The server starts with one session, which waits for a client.
LEMMA Start ==
  ASSUME Init
  PROVE  IInv
<1>0. /\ MaxBytes \in Nat /\ BufSize \in Nat /\ SndBuf \in Nat /\ NoConn \notin Conn
      /\ <<>> \in Seq(Net!Byte) /\ <<>> \in Seq(Handler)
      /\ <<>> \in Seq(Net!Byte \cup {Net!Junk}) /\ Len(<<>>) = 0
  BY EmptySeq, AsioAssumption DEF AsioAssumption
<1>1. PICK s \in Session : live = {s} /\ ops = [t \in Session |-> IF t = s THEN {"accept"} ELSE {}]
  BY DEF Init
<1>2. ready = <<>> /\ Queue = {} /\ 1 .. Len(ready) = {}
  BY <1>0 DEF Init, Queue
<1>3. TypeOK
  BY <1>0, <1>1 DEF Init, TypeOK, Net!PeerState, Operation
<1>4. Alone
  <2>1. \A j, k \in 1 .. Len(ready) : ready[j].ses = ready[k].ses => j = k
    BY <1>2
  <2> QED  BY <1>1, <1>2, <2>1 DEF Init, Alone, Awaits, Operation
<1>5. Linked
  BY <1>1, <1>2 DEF Init, Linked
<1>6. OwedOK
  BY <1>0, <1>1, <1>2 DEF Init, OwedOK
<1> QED  BY <1>3, <1>4, <1>5, <1>6 DEF IInv

\* The inductive invariant.
THEOREM Invariance == Spec => []IInv
<1>1. Init => IInv
  BY Start
<1>2. IInv /\ [Next]_vars => IInv'
  BY TypeStep, AloneStep, LinkedStep, OwedStep DEF IInv
<1> QED  BY <1>1, <1>2, PTL DEF Spec

\* The types hold in every reachable state.
THEOREM TypeCorrect == Spec => []TypeOK
<1>1. IInv => TypeOK
  BY DEF IInv
<1> QED  BY Invariance, <1>1, PTL

\* No handler is called on a deleted session, and every session that lives
\* waits for exactly one operation or handler.
THEOREM OperationCorrect == Spec => []OneOperation
<1>1. IInv => OneOperation
  BY Promised DEF IInv
<1> QED  BY Invariance, <1>1, PTL

\* The connections that are open are those of the sessions, one for each, and
\* one session accepts the next.
THEOREM ConnectionsCorrect == Spec => []SessionsAreConnections
<1>1. IInv => SessionsAreConnections
  BY Promised DEF IInv
<1> QED  BY Invariance, <1>1, PTL

(***************************************************************************)
(* The refinement of ExactEcho.                                            *)
(***************************************************************************)

\* A step that receives and writes nothing and closes nothing.
LEMMA ServiceStutter ==
  ASSUME UNCHANGED <<rcvd, echo>>,
         \A c \in Conn : peer'[c] = "closed" <=> peer[c] = "closed"
  PROVE  UNCHANGED Service!vars
<1>1. [c \in Conn |-> peer'[c] = "closed"] = [c \in Conn |-> peer[c] = "closed"]
  OBVIOUS
<1> QED  BY <1>1 DEF Service!vars

\* A step that closes one connection.
LEMMA ServiceEnd ==
  ASSUME UNCHANGED <<rcvd, echo>>, NEW e \in Conn, peer[e] # "closed", peer'[e] = "closed",
         \A c \in Conn \ {e} : peer'[c] = peer[c]
  PROVE  Service!Next
<1>1. [c \in Conn |-> peer'[c] = "closed"]
        = [[c \in Conn |-> peer[c] = "closed"] EXCEPT ![e] = TRUE]
  OBVIOUS
<1>2. Service!End(e)
  BY <1>1 DEF Service!End
<1> QED  BY <1>2 DEF Service!Next

\* A read takes the next piece of a client's bytes.
LEMMA ServiceTake ==
  ASSUME IInv, NEW s \in Session, ReadDone(s)
  PROVE  Service!Next
<1> DEFINE c == socket_[s]
<1>1. "read" \in ops[s] /\ c \in Conn /\ ReadCount(c) > 0
  BY WithConn DEF ReadDone, IInv
<1>2. /\ ReadCount(c) \in 1 .. BufSize /\ rcvd[c] + ReadCount(c) <= MaxBytes
  <2>1. /\ ReadCount(c) \in 1 .. BufSize /\ rcvd[c] \in Nat /\ sent[c] \in Nat
        /\ rcvd[c] + ReadCount(c) <= sent[c] /\ sent[c] <= MaxBytes
    BY <1>1, ReadFacts DEF IInv
  <2> QED  BY <2>1, AsioAssumption DEF AsioAssumption
<1>3. PICK n \in 1 .. BufSize : n = ReadCount(c)
  BY <1>2
<1>4. /\ rcvd' = [rcvd EXCEPT ![c] = @ + n] /\ UNCHANGED <<echo, peer>>
  BY <1>3 DEF ReadDone
<1>5. rcvd[c] = Len(echo[c])
  BY <1>1 DEF IInv, OwedOK
<1>6. peer[c] # "closed"
  <2>1. s \in live /\ c # NoConn
    BY <1>1, AsioAssumption DEF IInv, Alone, AsioAssumption
  <2> QED  BY <2>1 DEF IInv, Linked
<1>7. Service!Take(c, n)
  BY <1>1, <1>2, <1>3, <1>4, <1>5, <1>6 DEF Service!Take
<1> QED  BY <1>1, <1>3, <1>7 DEF Service!Next

\* A part of async_write returns the next bytes of that piece.
LEMMA ServiceReturn ==
  ASSUME IInv, NEW s \in Session, WriteSome(s)
  PROVE  Service!Next
<1> DEFINE c == socket_[s]
<1>0. TypeOK /\ Alone /\ Linked /\ OwedOK /\ NoConn \notin Conn /\ BufSize \in Nat
  BY AsioAssumption DEF IInv, AsioAssumption
<1>1. PICK n \in Nat : n = Part(s)
  BY <1>0, WriteFacts
<1>2. /\ c \in Conn /\ n > 0 /\ out[s].from \in Nat /\ out[s].to \in 0 .. BufSize
      /\ out[s].from + n <= out[s].to
      /\ echo' = [echo EXCEPT ![c] = @ \o PartBytes(s)]
      /\ PartBytes(s) = [k \in 1 .. n |-> <<c, Len(echo[c]) + k>>]
  BY <1>0, <1>1, WriteFacts, PartOwed
<1>3. /\ "write" \in ops[s] /\ Owes(s, out[s].from, out[s].to) /\ UNCHANGED <<rcvd, peer>>
  BY <1>0 DEF OwedOK, WriteSome
<1>4. peer[c] # "closed"
  <2>1. s \in live /\ c # NoConn
    BY <1>0, <1>2, <1>3 DEF Alone
  <2> QED  BY <1>0, <2>1 DEF Linked
<1>5. n \in 1 .. BufSize /\ Len(echo[c]) + n <= rcvd[c]
  <2>1. Len(echo[c]) \in Nat
    BY <1>0, <1>2, LenProperties DEF TypeOK
  <2>2. rcvd[c] = Len(echo[c]) + (out[s].to - out[s].from)
    BY <1>3 DEF Owes
  <2>3. PICK len \in Nat : len = Len(echo[c])
    BY <2>1
  <2>4. PICK from \in Nat, to \in 0 .. BufSize : from = out[s].from /\ to = out[s].to
    BY <1>2
  <2>5. n > 0 /\ from + n <= to /\ rcvd[c] = len + (to - from)
    BY <1>2, <2>2, <2>3, <2>4
  <2> QED  BY <1>0, <2>3, <2>5
<1>6. Service!Return(c, n)
  BY <1>2, <1>3, <1>4, <1>5 DEF Service!Return
<1> QED  BY <1>2, <1>5, <1>6 DEF Service!Next

\* The session that is deleted ends its connection; without one nothing ends.
LEMMA ServiceDestroy ==
  ASSUME IInv, ready # <<>>, Destroy(Callee), UNCHANGED <<rcvd, echo>>
  PROVE  [Service!Next]_(Service!vars)
<1>1. /\ Callee \in live /\ socket_[Callee] \in Conn \cup {NoConn} /\ NoConn \notin Conn
  BY CalleeConn, AsioAssumption DEF IInv, AsioAssumption
<1>2. \A c \in Conn : peer'[c] = IF c = socket_[Callee] THEN "closed" ELSE peer[c]
  BY DEF Destroy
<1>3. CASE socket_[Callee] \in Conn
  <2>1. peer[socket_[Callee]] # "closed"
    BY <1>1, <1>3 DEF IInv, Linked
  <2> QED  BY <1>2, <1>3, <2>1, ServiceEnd
<1>4. CASE socket_[Callee] = NoConn
  BY <1>1, <1>2, <1>4, ServiceStutter
<1> QED  BY <1>1, <1>3, <1>4

\* Every step is one of the service or none.
LEMMA ServiceStep ==
  ASSUME IInv, [Next]_vars
  PROVE  [Service!Next]_(Service!vars)
<1>0. TypeOK /\ Linked /\ peer \in [Conn -> Net!PeerState]
  BY DEF IInv, TypeOK
<1>1. ASSUME NEW s \in Session, Completes(s)  PROVE [Service!Next]_(Service!vars)
  <2>1. CASE AcceptDone(s) \/ AcceptFails(s)
    <3>1. UNCHANGED <<rcvd, echo, peer>>
      BY <2>1 DEF AcceptDone, AcceptFails, network
    <3> QED  BY <3>1, ServiceStutter
  <2>2. CASE ReadFails(s) \/ WriteFails(s)
    <3>1. "read" \in ops[s] \/ "write" \in ops[s]
      BY <2>2 DEF ReadFails, WriteFails
    <3>2. socket_[s] \in Conn
      BY <1>0, <3>1, WithConn
    <3>3. /\ UNCHANGED <<rcvd, echo>> /\ peer[socket_[s]] # "closed"
          /\ \/ peer' = [peer EXCEPT ![socket_[s]] = IF @ = "fin" THEN @ ELSE "gone"]
             \/ peer' = [peer EXCEPT ![socket_[s]] = "gone"]
      BY <2>2 DEF ReadFails, WriteFails
    <3>4. \A c \in Conn : peer'[c] = "closed" <=> peer[c] = "closed"
      BY <1>0, <3>2, <3>3
    <3> QED  BY <3>3, <3>4, ServiceStutter
  <2> QED  BY <1>1, <2>1, <2>2, ServiceTake, ServiceReturn DEF Completes
<1>2. ASSUME Handles  PROVE [Service!Next]_(Service!vars)
  <2>1. ready # <<>> /\ UNCHANGED <<rcvd, echo>>
    BY <1>2 DEF Handles, HandleAccept, HandleRead, HandleWrite, Called
  <2>2. Destroy(Callee) \/ UNCHANGED peer
    BY <1>2 DEF Handles, HandleAccept, HandleRead, HandleWrite, Continue, DeleteThis
  <2> QED  BY <2>1, <2>2, ServiceDestroy, ServiceStutter
<1>3. ASSUME Clients  PROVE [Service!Next]_(Service!vars)
  <2>1. PICK c \in Conn :
          \/ Net!Connect(c) \/ Net!ClientSend(c) \/ Net!ClientRead(c)
          \/ Net!ClientShutdown(c) \/ Net!ClientReset(c) \/ Net!AbortQueued(c)
    BY <1>3 DEF Clients, Net!ClientStep
  <2>2. UNCHANGED <<rcvd, echo>>
    BY <2>1 DEF Net!Connect, Net!ClientSend, Net!ClientRead,
                Net!ClientShutdown, Net!ClientReset, Net!AbortQueued
  <2>3. CASE Net!AbortQueued(c)
    <3>1. peer[c] = "rst" /\ peer' = [peer EXCEPT ![c] = "closed"]
      BY <2>3 DEF Net!AbortQueued
    <3> QED  BY <1>0, <2>2, <3>1, ServiceEnd
  <2>4. CASE ~Net!AbortQueued(c)
    <3>1. \A d \in Conn : peer'[d] = "closed" <=> peer[d] = "closed"
      BY <1>0, <2>1, <2>4 DEF Net!Connect, Net!ClientSend, Net!ClientRead, Net!ClientShutdown,
                              Net!ClientReset
    <3> QED  BY <2>2, <3>1, ServiceStutter
  <2> QED  BY <2>3, <2>4
<1>4. CASE UNCHANGED vars
  <2>1. UNCHANGED <<rcvd, echo, peer>>
    BY <1>4 DEF vars, network
  <2> QED  BY <2>1, ServiceStutter
<1> QED  BY <1>1, <1>2, <1>3, <1>4 DEF Next

\* The server implements the lossless echo service.
THEOREM Refinement == Spec => ExactEchoSpec
<1>1. Init => Service!Init
  BY DEF Init, Service!Init
<1>2. IInv /\ [Next]_vars => [Service!Next]_(Service!vars)
  BY ServiceStep
<1> QED  BY Invariance, <1>1, <1>2, PTL DEF Spec, ExactEchoSpec, Service!Spec

(***************************************************************************)
(* The refinement of EchoService: a lossless service is one that may lose. *)
(***************************************************************************)

\* The echo service of the poll and epoll servers, which has dealt with the
\* bytes it has returned.
Lossy == INSTANCE EchoService WITH taken <- [c \in Conn |-> Len(echo[c])]

\* A return of the lossless service answers a piece with all of it, and its
\* other steps answer nothing.
LEMMA ReturnAnswers ==
  ASSUME TypeOK, [Service!Next]_(Service!vars)
  PROVE  [Lossy!Next]_(Lossy!vars)
<1>1. echo \in [Conn -> Seq(Net!Byte \cup {Net!Junk})] /\ rcvd \in [Conn -> 0 .. MaxBytes]
      /\ MaxBytes \in Nat
  BY AsioAssumption DEF TypeOK, AsioAssumption
<1>2. CASE UNCHANGED echo
  BY <1>2 DEF Lossy!vars
<1>3. ASSUME NEW c \in Conn, NEW n \in 1 .. BufSize, Service!Return(c, n)
      PROVE  Lossy!Next
  <2>1. PICK e \in Seq(Net!Byte \cup {Net!Junk}) : e = echo[c]
    BY <1>1
  <2>2. PICK m \in Nat : m = Len(e)
    BY LenProperties
  <2>3. PICK d : d = [k \in 1 .. n |-> <<c, m + k>>]
    OBVIOUS
  <2>4. /\ m + n <= rcvd[c] /\ rcvd[c] \in 0 .. MaxBytes
        /\ echo' = [echo EXCEPT ![c] = e \o d]
    BY <1>1, <1>3, <2>1, <2>2, <2>3 DEF Service!Return
  <2>5. n \in 1 .. MaxBytes /\ n \in 0 .. MaxBytes /\ m + n <= MaxBytes
    BY <1>1, <2>4, AsioAssumption DEF AsioAssumption
  <2>6. Len(e \o d) = m + n
    <3>1. PICK S : S = {<<c, m + k>> : k \in 1 .. n}
      OBVIOUS
    <3>2. d \in [1 .. n -> S] /\ n \in Nat
      BY <2>3, <2>5, <3>1
    <3>3. d \in Seq(S) /\ Len(d) = n
      BY <3>2, SeqDef, LenProperties
    <3>4. PICK T : T = Net!Byte \cup {Net!Junk} \cup S
      OBVIOUS
    <3>5. e \in Seq(T) /\ d \in Seq(T)
      BY <3>3, <3>4, SeqDef
    <3> QED  BY <2>2, <3>3, <3>5, ConcatProperties
  <2>7. [b \in Conn |-> Len(echo'[b])]
          = [[b \in Conn |-> Len(echo[b])] EXCEPT ![c] = @ + n]
    <3>1. \A b \in Conn : Len(echo'[b]) = IF b = c THEN Len(echo[b]) + n ELSE Len(echo[b])
      BY <1>1, <2>1, <2>2, <2>4, <2>6
    <3> QED  BY <3>1
  <2>8. Lossy!Piece(c, n) = d
    BY <2>1, <2>2, <2>3 DEF Lossy!Piece
  <2>9. Lossy!Answer(c, n, n)
    BY <2>1, <2>2, <2>4, <2>5, <2>7, <2>8 DEF Lossy!Answer
  <2> QED  BY <2>5, <2>9 DEF Lossy!Next
<1> QED  BY <1>2, <1>3 DEF Service!Next, Service!Take, Service!End, Service!vars

\* So the asio server gives every client what the poll and epoll servers do:
\* its own bytes, in order, none twice.
THEOREM LossyRefinement == Spec => Lossy!Spec
<1>1. Init => Lossy!Init
  <2>1. Len(<<>>) = 0
    BY EmptySeq
  <2>2. ASSUME Init  PROVE [c \in Conn |-> Len(echo[c])] = [c \in Conn |-> 0]
    BY <2>1, <2>2 DEF Init
  <2> QED  BY <2>2 DEF Init, Lossy!Init
<1>2. IInv /\ [Next]_vars => [Lossy!Next]_(Lossy!vars)
  BY ServiceStep, ReturnAnswers DEF IInv
<1> QED  BY Invariance, <1>1, <1>2, PTL DEF Spec, Lossy!Spec
=============================================================================
