------------------------------ MODULE MsgQueue ------------------------------
(***************************************************************************)
(* "mqueue, semaphore, shared memory/message queue!!!/task1.cpp": the      *)
(* child sends one message, the parent calls msgrcv() until buf is not an  *)
(* empty string, saves it and removes the queue.  The child sends          *)
(* sizeof(msg) bytes, the parent accepts sizeof(mtext): msgrcv() fails     *)
(* with E2BIG and leaves the message where it is.                          *)
(*                                                                         *)
(* External: the queue, and other senders with messages that fit, numbered *)
(* from 1.  The buffer is not initialised: every iteration finds in it     *)
(* what the stack has there, an empty string or not.                       *)
(***************************************************************************)
EXTENDS Integers, Sequences

CONSTANT MaxOthers   \* bound: messages of other senders

OfChild == 0

VARIABLES
  msgs,     \* the queue
  others,   \* messages sent by others
  before,   \* how many of them before the child's; -1: it has not sent
  child,    \* "send", "ended", or "none" when fork() failed
  rcv,      \* the parent: "receive", "save", "remove" or "returned"
  mtext,    \* "empty", "garbage", or a message that was received
  saved     \* mtext as it was saved; "no"

vars == <<msgs, others, before, child, rcv, mtext, saved>>

\* The size of a message is at most what msgrcv() accepts.
Accepted(m) == m # OfChild

\* The queue may be there, with messages, before the program starts.
Init ==
  /\ others \in 0 .. MaxOthers
  /\ msgs = [n \in 1 .. others |-> n]
  /\ before = -1
  /\ child \in {"send", "none"}
  /\ rcv = "receive"
  /\ mtext \in {<<"empty">>, <<"garbage">>} /\ saved = <<"no">>

Open == rcv # "returned"

Msgsnd ==
  /\ child = "send"
  /\ child' = "ended"
  /\ IF Open THEN msgs' = Append(msgs, OfChild) /\ before' = others ELSE UNCHANGED <<msgs, before>>
  /\ UNCHANGED <<others, rcv, mtext, saved>>

SendOther ==
  /\ Open /\ others < MaxOthers
  /\ others' = others + 1
  /\ msgs' = Append(msgs, others')
  /\ UNCHANGED <<before, child, rcv, mtext, saved>>

\* Mutant: the length of what is in the buffer is not tested.
MsgrcvOnce ==
  /\ rcv = "receive" /\ msgs # <<>>
  /\ IF Accepted(Head(msgs))
     THEN mtext' = <<"message", Head(msgs)>> /\ msgs' = Tail(msgs)
     ELSE UNCHANGED <<mtext, msgs>>
  /\ rcv' = "save"
  /\ UNCHANGED <<others, before, child, saved>>

\* One iteration; msgrcv() blocks while the queue is empty.
Msgrcv ==
  /\ rcv = "receive" /\ msgs # <<>>
  /\ IF Accepted(Head(msgs))
     THEN mtext' = <<"message", Head(msgs)>> /\ msgs' = Tail(msgs)
     ELSE UNCHANGED <<mtext, msgs>>
  /\ rcv' = IF mtext' = <<"empty">> THEN "receive" ELSE "save"
  /\ UNCHANGED <<others, before, child, saved>>

Save ==
  /\ rcv = "save"
  /\ saved' = mtext /\ rcv' = "remove"
  /\ UNCHANGED <<msgs, others, before, child, mtext>>

Remove ==
  /\ rcv = "remove"
  /\ msgs' = <<>> /\ rcv' = "returned"
  /\ UNCHANGED <<others, before, child, mtext, saved>>

Next == Msgsnd \/ SendOther \/ Msgrcv \/ Save \/ Remove

Spec == Init /\ [][Next]_vars

(***************************************************************************)
(* Properties.                                                             *)
(***************************************************************************)

\* The child's message is never received, and stops every message sent after
\* it: what is saved is another sender's earlier message, or the garbage that
\* the buffer happened to hold.  With a buffer that happened to be empty the
\* parent then never comes to its end.
NothingPassesTheChild ==
  /\ saved # <<"no">> =>
       \/ saved = <<"garbage">>
       \/ saved[1] = "message" /\ saved[2] # OfChild
          /\ (before >= 0 => saved[2] <= before)
  /\ msgs # <<>> /\ Head(msgs) = OfChild /\ mtext = <<"empty">> => rcv = "receive"

(***************************************************************************)
(* The inductive invariant of the proofs.                                  *)
(***************************************************************************)

TypeOK ==
  /\ msgs \in Seq(Nat) /\ others \in Nat /\ before \in -1 .. others
  /\ child \in {"send", "ended", "none"}
  /\ rcv \in {"receive", "save", "remove", "returned"}

\* Until the queue is removed the child's message stays in it, and in front of
\* it is only what was sent before.
QueueOK ==
  /\ child = "send" => before = -1
  /\ before = -1 => \A k \in 1 .. Len(msgs) : msgs[k] \in 1 .. others
  /\ before >= 0 /\ Open =>
       \E place \in 1 .. Len(msgs) :
         /\ msgs[place] = OfChild
         /\ \A k \in 1 .. place - 1 : msgs[k] \in 1 .. before

\* The loop ends with the garbage of the buffer or with an earlier message.
BufferOK ==
  /\ \/ mtext = <<"empty">> /\ rcv = "receive"
     \/ mtext = <<"garbage">>
     \/ \E m \in 1 .. others :
          mtext = <<"message", m>> /\ (before >= 0 => m <= before)
  /\ saved = <<"no">> \/ (saved = mtext /\ rcv \in {"remove", "returned"})

IInv == TypeOK /\ QueueOK /\ BufferOK
=============================================================================
