----------------------------- MODULE MpiExample -----------------------------
(***************************************************************************)
(* "parallel programming/MPI/example.c": rank 0 sends a string to every    *)
(* rank, itself first; every other rank receives it.  Nobody receives what *)
(* rank 0 sends to itself.                                                 *)
(*                                                                         *)
(* MPI is external.  MPI_Send() may return as soon as it has kept a copy   *)
(* of the message, or only when the receiver takes it: the standard leaves *)
(* it open, and Buffered, which never changes, says which.                 *)
(***************************************************************************)
EXTENDS Integers

CONSTANT Ranks   \* MPI_Comm_size()

Rank == 0 .. Ranks - 1

VARIABLES
  buffered, \* see above
  to,       \* i of rank 0
  inbox,    \* the ranks whose message is on its way
  heard     \* the ranks that have received it

vars == <<buffered, to, inbox, heard>>

Init ==
  /\ buffered \in BOOLEAN
  /\ to = 0 /\ inbox = {} /\ heard = {}

\* Mutant: rank 0 leaves itself out.
ToOthers == IF to = 0 THEN 1 ELSE to
Target == to

SendBuffered ==
  /\ buffered /\ to < Ranks
  /\ inbox' = inbox \cup {Target}
  /\ to' = Target + 1
  /\ UNCHANGED <<buffered, heard>>

\* The send and the matching receive return together.
SendWaits ==
  /\ ~buffered /\ to < Ranks
  /\ Target \in Rank \ {0}
  /\ heard' = heard \cup {Target}
  /\ to' = Target + 1
  /\ UNCHANGED <<buffered, inbox>>

Recv(r) ==
  /\ r \in inbox \ {0}
  /\ inbox' = inbox \ {r}
  /\ heard' = heard \cup {r}
  /\ UNCHANGED <<buffered, to>>

Next == SendBuffered \/ SendWaits \/ \E r \in Rank : Recv(r)

Spec == Init /\ [][Next]_vars

\* Every rank runs until it blocks.
FairSpec == Spec /\ WF_vars(Next)

(***************************************************************************)
(* Properties.                                                             *)
(***************************************************************************)

\* With buffered sends every rank gets the string and all come to their end;
\* without, rank 0 waits for itself for ever, and nobody gets anything.
EverybodyOrNobody ==
  /\ buffered ~> (heard = Rank \ {0} /\ to = Ranks)
  /\ [](~buffered => heard = {} /\ to = 0)
=============================================================================
