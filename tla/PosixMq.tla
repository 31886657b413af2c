------------------------------ MODULE PosixMq ------------------------------
(***************************************************************************)
(* "mqueue, semaphore, shared memory/message queue!!!/task2.cpp": open or  *)
(* create a POSIX message queue, retry mq_receive() while its result is    *)
(* not positive, write the message to a file, remove the queue.            *)
(*                                                                         *)
(* External: the queue, which may exist already, with messages of more     *)
(* than 256 bytes or without permission to open it, and the senders.  A    *)
(* message is the number of its send(); the messages in Empty have no      *)
(* byte.  All have the same priority.                                      *)
(***************************************************************************)
EXTENDS Integers, Sequences

CONSTANTS
  MaxSent,   \* bound: messages sent
  MaxMsg     \* the 10 messages a queue holds

VARIABLES
  kind,      \* the queue /test.mq: "absent", "fits", "larger" or "denied"
  q,         \* the messages in it
  count,     \* messages sent
  Empty,     \* those of length 0
  receiver,  \* "open", "receive", "write", "unlink", "returned"
  md,        \* mq_open() gave a descriptor
  message,   \* the message in buf; 0: none
  file       \* the message in message.txt; 0: none

vars == <<kind, q, count, Empty, receiver, md, message, file>>

Init ==
  /\ kind \in {"absent", "fits", "larger", "denied"}
  /\ q = <<>> /\ count = 0 /\ Empty = {}
  /\ receiver = "open" /\ md = FALSE /\ message = 0 /\ file = 0

Open ==
  /\ receiver = "open"
  /\ kind' = IF kind = "absent" THEN "fits" ELSE kind
  /\ md' = (kind # "denied")
  /\ receiver' = "receive"
  /\ UNCHANGED <<q, count, Empty, message, file>>

\* Mutant: an empty message is a message.
NotNegative(m) == TRUE

\* The loop ends with a positive result.
Positive(m) == m \notin Empty

\* mq_receive() with a message; it blocks without one.
Receive ==
  /\ receiver = "receive" /\ md /\ kind = "fits" /\ q # <<>>
  /\ q' = Tail(q)
  /\ message' = IF Head(q) \in Empty THEN message ELSE Head(q)
  /\ receiver' = IF Positive(Head(q)) THEN "write" ELSE "receive"
  /\ UNCHANGED <<kind, count, Empty, md, file>>

\* mq_receive() fails, and is called again: a bad descriptor, or a buffer
\* smaller than the messages of the queue.
Fails ==
  /\ receiver = "receive"
  /\ ~md \/ kind = "larger"
  /\ UNCHANGED vars

Save ==
  /\ receiver = "write"
  /\ file' = message
  /\ receiver' = "unlink"
  /\ UNCHANGED <<kind, q, count, Empty, md, message>>

Unlink ==
  /\ receiver = "unlink"
  /\ kind' = "absent" /\ q' = <<>>
  /\ receiver' = "returned"
  /\ UNCHANGED <<count, Empty, md, message, file>>

Receiver == Open \/ Receive \/ Save \/ Unlink

\* Somebody sends to the queue, if there is one; also before the receiver runs.
SendMessage ==
  /\ kind # "absent" /\ count < MaxSent /\ Len(q) < MaxMsg
  /\ count' = count + 1
  /\ q' = Append(q, count + 1)
  /\ Empty' \in {Empty, Empty \cup {count + 1}}
  /\ UNCHANGED <<kind, receiver, md, message, file>>

Next == Receiver \/ Fails \/ SendMessage

Spec == Init /\ [][Next]_vars

\* The receiver runs on; senders owe nothing.
FairSpec == Spec /\ WF_vars(Receiver)

(***************************************************************************)
(* Properties.                                                             *)
(***************************************************************************)

Texts == (1 .. count) \ Empty

\* As soon as a message with a byte has been sent it becomes the content of
\* the file, and no other does, however many empty ones come before it; unless
\* the receiver retries for ever on a queue it cannot use.
FirstIsWritten ==
  \A m \in 1 .. MaxSent :
    (m \in Texts /\ \A n \in Texts : m <= n)
      ~> ((file = m /\ receiver = "returned") \/ kind \in {"larger", "denied"})
=============================================================================
