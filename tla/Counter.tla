------------------------------ MODULE Counter ------------------------------
(***************************************************************************)
(* "threads, syncromization/posix threads/task1.c": two threads increment  *)
(* one int without a lock.  Each reads it, sleeps, and writes what it read *)
(* plus one, Rounds times; main() starts both and joins them.              *)
(*                                                                         *)
(* The race is modelled as the builds of the program behave: the calls     *)
(* between read and write keep the compiler from moving either, and a read *)
(* or a write of an aligned int is one access.  The printf() after the     *)
(* write changes nothing that the program uses.                            *)
(***************************************************************************)
EXTENDS Integers

CONSTANT Rounds   \* the 10 of the loop

ASSUME CounterAssumption == Rounds \in Nat \ {0}

Thread == {0, 1}   \* their ids

VARIABLES
  main,   \* main(): threads created (0 .. 2), then threads joined (2 .. 4)
  pc,     \* pc[t]: "none" before pthread_create(), "read", "write", "done"
  i,      \* i[t]: the loop counter
  val2,   \* val2[t]: what the thread has read
  val     \* arg of main(), which both args point to

vars == <<main, pc, i, val2, val>>

TypeOK ==
  /\ main \in 0 .. 4
  /\ pc \in [Thread -> {"none", "read", "write", "done"}]
  /\ i \in [Thread -> 0 .. Rounds]
  /\ val2 \in [Thread -> 0 .. 2 * Rounds]
  /\ val \in 0 .. 2 * Rounds

Init ==
  /\ main = 0
  /\ pc = [t \in Thread |-> "none"]
  /\ i = [t \in Thread |-> 0]
  /\ val2 = [t \in Thread |-> 0]
  /\ val = 0

Create ==
  /\ main < 2
  /\ pc' = [pc EXCEPT ![main] = "read"]
  /\ main' = main + 1
  /\ UNCHANGED <<i, val2, val>>

Join ==
  /\ main \in {2, 3} /\ pc[main - 2] = "done"
  /\ main' = main + 1
  /\ UNCHANGED <<pc, i, val2, val>>

\* Mutant: the value is read once, before the loop.
ReadOnce(t) ==
  /\ pc[t] = "read"
  /\ val2' = [val2 EXCEPT ![t] = IF i[t] = 0 THEN val ELSE @]
  /\ pc' = [pc EXCEPT ![t] = "write"]
  /\ UNCHANGED <<main, i, val>>

Read(t) ==
  /\ pc[t] = "read"
  /\ val2' = [val2 EXCEPT ![t] = val]
  /\ pc' = [pc EXCEPT ![t] = "write"]
  /\ UNCHANGED <<main, i, val>>

\* Mutant: one round too many.
OneMore(n) == n <= Rounds

\* The condition of the loop, after the increment of i.
Again(n) == n < Rounds

Write(t) ==
  /\ pc[t] = "write"
  /\ val' = val2[t] + 1
  /\ i' = [i EXCEPT ![t] = @ + 1]
  /\ pc' = [pc EXCEPT ![t] = IF Again(i[t] + 1) THEN "read" ELSE "done"]
  /\ UNCHANGED <<main, val2>>

\* When main() has returned, main = 4, the process has ended.
Next == Create \/ Join \/ \E t \in Thread : Read(t) \/ Write(t)

Spec == Init /\ [][Next]_vars

(***************************************************************************)
(* Properties.                                                             *)
(***************************************************************************)

\* What is left when main() returns: increments may be lost, but never all but
\* one, for the last write rests on a read that followed an earlier write of
\* the same thread.
FinalRange == main = 4 /\ Rounds > 1 => val \in 2 .. 2 * Rounds

\* The inductive invariant: no value exceeds the number of writes so far, and
\* none is 0 once the thread that holds it, or any for val, has written.
Writes == i[0] + i[1]
BoundsOK ==
  /\ val <= Writes
  /\ \A t \in Thread : pc[t] = "write" => val2[t] <= Writes
  /\ \A t \in Thread : i[t] > 0 => val > 0
  /\ \A t \in Thread : pc[t] = "write" /\ i[t] > 0 => val2[t] > 0
  /\ (\A t \in Thread : pc[t] = "done") /\ Rounds > 1 => val > 1
LoopOK ==
  /\ \A t \in Thread : pc[t] = "none" => i[t] = 0
  /\ \A t \in Thread : pc[t] \in {"read", "write"} => i[t] < Rounds
  /\ \A t \in Thread : pc[t] = "none" <=> main <= t
  /\ main > 2 => pc[0] = "done"
  /\ main > 3 => pc[1] = "done"
IInv == TypeOK /\ BoundsOK /\ LoopOK
=============================================================================
