----------------------------- MODULE ExactEcho -----------------------------
(***************************************************************************)
(* What a lossless echo server promises to every client: it takes a piece  *)
(* of the client's bytes only when all of the piece before it is on its    *)
(* way back, it returns a piece whole and in order, in as many parts as it *)
(* takes, and after the end of a connection nothing more of it.            *)
(***************************************************************************)
EXTENDS Integers, Sequences

CONSTANTS Conn, MaxBytes, MaxPiece

VARIABLES
  taken,  \* taken[c]: how many bytes of c the service has taken
  echo,   \* echo[c]: the bytes returned to c
  ended   \* ended[c]: the service has given c up

vars == <<taken, echo, ended>>

Init ==
  /\ taken = [c \in Conn |-> 0]
  /\ echo = [c \in Conn |-> <<>>]
  /\ ended = [c \in Conn |-> FALSE]

Take(c, n) ==
  /\ ~ended[c] /\ taken[c] = Len(echo[c])
  /\ taken[c] + n <= MaxBytes
  /\ taken' = [taken EXCEPT ![c] = @ + n]
  /\ UNCHANGED <<echo, ended>>

Return(c, n) ==
  /\ ~ended[c] /\ Len(echo[c]) + n <= taken[c]
  /\ echo' = [echo EXCEPT ![c] = @ \o [k \in 1 .. n |-> <<c, Len(@) + k>>]]
  /\ UNCHANGED <<taken, ended>>

End(c) ==
  /\ ~ended[c]
  /\ ended' = [ended EXCEPT ![c] = TRUE]
  /\ UNCHANGED <<taken, echo>>

Next == \E c \in Conn : \/ \E n \in 1 .. MaxPiece : Take(c, n) \/ Return(c, n)
                        \/ End(c)

Spec == Init /\ [][Next]_vars
=============================================================================
