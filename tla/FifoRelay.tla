----------------------------- MODULE FifoRelay -----------------------------
(***************************************************************************)
(* "process, channel, signal/pipes !!!/task1.cpp": the parent relays what  *)
(* it reads from in.fifo to out.fifo, the child writes the words of the    *)
(* terminal to in.fifo.  Everything is opened O_NONBLOCK.  The parent      *)
(* opens in.fifo by an absolute name and makes it under a relative one;    *)
(* AtHome says whether both are the same file.                             *)
(*                                                                         *)
(* External: the terminal, FIFOs, and the process that reads out.fifo,     *)
(* which comes and goes.  A word is its number; the words a buffer holds   *)
(* are fewer than PIPE_BUF bytes, so a write takes all of it or nothing.   *)
(* A FIFO that nobody has open loses what is in it.                        *)
(***************************************************************************)
EXTENDS Integers, Sequences

CONSTANTS
  MaxWords,   \* bound: words typed
  MaxVisits,  \* bound: how often out.fifo is opened for reading
  BufWords,   \* words that fit into buf
  PipeWords   \* words that fit into a FIFO

VARIABLES
  atHome,     \* the program was started in /home/box
  relay,      \* the parent: "start", "read", "open", "write", "close", "killed"
  len,        \* what read() returned, in words; -1 as well
  buf,        \* the words in buf
  outfd,      \* the parent has out.fifo open
  typist,     \* the child: "type", "write" or "close"
  infd,       \* the child has in.fifo open
  typed,      \* words typed so far
  inFifo, outFifo,
  visits,     \* how often out.fifo was opened for reading
  reading,    \* it is open for reading
  taken,      \* every word the parent read
  written,    \* every word it wrote
  got         \* every word that was read from out.fifo

vars == <<atHome, relay, len, buf, outfd, typist, infd, typed, inFifo, outFifo,
          visits, reading, taken, written, got>>

Init ==
  /\ atHome \in BOOLEAN
  /\ relay = "start" /\ len = 0 /\ buf = <<>> /\ outfd = FALSE
  /\ typist = "type" /\ infd = FALSE /\ typed = 0
  /\ inFifo = <<>> /\ outFifo = <<>>
  /\ visits = 0 /\ reading = FALSE
  /\ taken = <<>> /\ written = <<>> /\ got = <<>>

child == <<typist, infd, typed>>
world == <<visits, reading, got>>

\* open("/home/box/in.fifo"): from here on in.fifo has a reader, or read()
\* fails for ever.
OpenIn ==
  /\ relay = "start"
  /\ relay' = "read"
  /\ UNCHANGED <<atHome, len, buf, outfd, child, inFifo, outFifo, world, taken, written>>

InHasReader == atHome /\ relay \notin {"start", "killed"}

\* read(): words, 0 when no writer has the FIFO open, otherwise -1.  As a
\* size_t -1 is greater than 0.
Read ==
  /\ relay = "read"
  /\ IF atHome /\ inFifo # <<>>
     THEN \E n \in 1 .. BufWords :
            /\ n <= Len(inFifo)
            /\ len' = n
            /\ buf' = SubSeq(inFifo, 1, n) \o SubSeq(buf, n + 1, Len(buf))
            /\ inFifo' = SubSeq(inFifo, n + 1, Len(inFifo))
            /\ taken' = taken \o SubSeq(inFifo, 1, n)
     ELSE /\ len' = IF atHome /\ ~infd THEN 0 ELSE -1
          /\ UNCHANGED <<buf, inFifo, taken>>
  /\ relay' = IF len' = 0 THEN "read" ELSE "open"
  /\ UNCHANGED <<atHome, outfd, child, outFifo, world, written>>

\* open("./out.fifo") fails while nobody reads it.
OpenOut ==
  /\ relay = "open"
  /\ outfd' = reading
  /\ relay' = "write"
  /\ UNCHANGED <<atHome, len, buf, child, inFifo, outFifo, world, taken, written>>

\* Mutant: never more than the buffer.
AtMostBuffer == IF len = -1 THEN buf ELSE SubSeq(buf, 1, len)

\* write() of (size_t)-1 bytes fails: no process has that much memory.
Offered == IF len = -1 THEN <<>> ELSE SubSeq(buf, 1, len)

\* The reader has closed in between: SIGPIPE ends the parent.
BrokenPipe == outfd /\ ~reading /\ Offered # <<>>

Write ==
  /\ relay = "write" /\ ~BrokenPipe
  /\ LET all == IF outfd /\ Len(outFifo) + Len(Offered) <= PipeWords THEN Offered ELSE <<>>
     IN outFifo' = outFifo \o all /\ written' = written \o all
  /\ relay' = "close"
  /\ UNCHANGED <<atHome, len, buf, outfd, child, inFifo, world, taken>>

Killed ==
  /\ relay = "write" /\ BrokenPipe
  /\ relay' = "killed" /\ outfd' = FALSE /\ outFifo' = <<>>
  /\ UNCHANGED <<atHome, len, buf, child, inFifo, world, taken, written>>

CloseOut ==
  /\ relay = "close"
  /\ relay' = "read" /\ outfd' = FALSE
  /\ outFifo' = IF reading THEN outFifo ELSE <<>>
  /\ UNCHANGED <<atHome, len, buf, child, inFifo, world, taken, written>>

Relay == OpenIn \/ Read \/ OpenOut \/ Write \/ Killed \/ CloseOut

(***************************************************************************)
(* The child and the reader of out.fifo.                                   *)
(***************************************************************************)

\* A word is typed and in.fifo opened, which fails without a reader.
Type ==
  /\ typist = "type" /\ typed < MaxWords
  /\ typed' = typed + 1
  /\ infd' = InHasReader
  /\ typist' = "write"
  /\ UNCHANGED <<atHome, relay, len, buf, outfd, inFifo, outFifo, world, taken, written>>

\* write() and close(); a word that does not fit, or that nobody can ever
\* read, is lost.
Send ==
  /\ typist = "write"
  /\ inFifo' = IF infd /\ InHasReader /\ Len(inFifo) < PipeWords
               THEN Append(inFifo, typed) ELSE inFifo
  /\ typist' = "close"
  /\ UNCHANGED <<atHome, relay, len, buf, outfd, infd, typed, outFifo, world, taken, written>>

CloseIn ==
  /\ typist = "close"
  /\ infd' = FALSE /\ typist' = "type"
  /\ UNCHANGED <<atHome, relay, len, buf, outfd, typed, inFifo, outFifo, world, taken, written>>

ReaderOpens ==
  /\ ~reading /\ visits < MaxVisits
  /\ reading' = TRUE /\ visits' = visits + 1
  /\ UNCHANGED <<atHome, relay, len, buf, outfd, child, inFifo, outFifo, got, taken, written>>

ReaderTakes ==
  /\ reading /\ outFifo # <<>>
  /\ got' = Append(got, Head(outFifo)) /\ outFifo' = Tail(outFifo)
  /\ UNCHANGED <<atHome, relay, len, buf, outfd, child, inFifo, visits, reading, taken, written>>

ReaderCloses ==
  /\ reading
  /\ reading' = FALSE
  /\ outFifo' = IF outfd THEN outFifo ELSE <<>>
  /\ UNCHANGED <<atHome, relay, len, buf, outfd, child, inFifo, visits, got, taken, written>>

Next ==
  \/ Relay
  \/ Type \/ Send \/ CloseIn
  \/ ReaderOpens \/ ReaderTakes \/ ReaderCloses

Spec == Init /\ [][Next]_vars

(***************************************************************************)
(* Properties.                                                             *)
(***************************************************************************)

Increasing(words) == \A j, k \in 1 .. Len(words) : j < k => words[j] < words[k]

\* What comes out of out.fifo are typed words in the order they were typed, none
\* twice, whatever of a failed read() and of earlier contents of buf is offered
\* to write(), and however often the reader comes back.
OnlyTypedComesOut == Increasing(got \o outFifo) /\ \A k \in 1 .. Len(got) : got[k] <= typed

\* "Everything that was read is written to out.fifo" (lines 4 to 6), once the
\* parent has written it and goes on reading.
EverythingIsWritten == relay = "read" => written = taken

(***************************************************************************)
(* The inductive invariant of the proofs.                                  *)
(***************************************************************************)

TypeOK ==
  /\ relay \in {"start", "read", "open", "write", "close", "killed"}
  /\ len \in Int /\ len <= Len(buf) /\ buf \in Seq(Nat)
  /\ typist \in {"type", "write", "close"} /\ typed \in Nat
  /\ inFifo \in Seq(Nat) /\ outFifo \in Seq(Nat) /\ got \in Seq(Nat)

\* The words the parent has read and will still offer to write(), and the last
\* word the child has written, or lost.
Pending ==
  IF relay \in {"open", "write"} /\ len > 0 THEN SubSeq(buf, 1, len) ELSE <<>>
Sent == IF typist = "write" THEN typed - 1 ELSE typed

\* The words are numbers above from, up to to, in the order they were typed.
Between(from, words, to) ==
  /\ Increasing(words)
  /\ \A k \in 1 .. Len(words) : words[k] > from /\ words[k] <= to

\* Every word of a later place was typed after every word of an earlier one.
InOrder ==
  \E w, r \in 0 .. Sent :
    /\ w <= r
    /\ Between(0, got \o outFifo, w)
    /\ Between(w, Pending, r)
    /\ Between(r, inFifo, Sent)

IInv == TypeOK /\ (typist = "write" => typed > 0) /\ InOrder
=============================================================================
