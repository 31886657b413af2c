---------------------------- MODULE EchoService ----------------------------
(***************************************************************************)
(* What the event-loop echo servers promise to every client, and no more:  *)
(* the service takes the client's bytes in order, a piece at a time, and   *)
(* for each piece returns a prefix of it.  The rest of the piece is lost:  *)
(* the servers ignore what send() reports it did not take.                 *)
(***************************************************************************)
EXTENDS Integers, Sequences

CONSTANTS Conn, MaxBytes

VARIABLES
  taken,  \* taken[c]: how many bytes of c the service has dealt with
  echo    \* echo[c]: the bytes returned to c

Piece(c, n) == [k \in 1 .. n |-> <<c, taken[c] + k>>]

Init ==
  /\ taken = [c \in Conn |-> 0]
  /\ echo = [c \in Conn |-> <<>>]

\* The service deals with the next n bytes of c and returns the first m.
Answer(c, n, m) ==
  /\ taken[c] + n <= MaxBytes /\ m <= n
  /\ taken' = [taken EXCEPT ![c] = @ + n]
  /\ echo' = [echo EXCEPT ![c] = @ \o Piece(c, m)]

Next == \E c \in Conn, n \in 1 .. MaxBytes, m \in 0 .. MaxBytes : Answer(c, n, m)

vars == <<taken, echo>>

Spec == Init /\ [][Next]_vars
=============================================================================
